----------------------------- MODULE VaultSnapshot -----------------------------
(***************************************************************************)
(* A vault on its way into a store row and back (pii_vault.py snapshot and  *)
(* from_snapshot, persistence.py).  snapshot() takes no lock: it reads the  *)
(* dictionaries one after the other, key by key, while other requests go on *)
(* registering.  Registration itself is one step: it writes counter, token  *)
(* list and value in the order opposite to the one they are read in, so a   *)
(* read between two of its writes shows what a read before or after it does.*)
(* current_profile is tied to none of the dictionaries and is read with the *)
(* values; the test of each token for the legacy map is part of the first   *)
(* step.                                                                    *)
(***************************************************************************)
EXTENDS PIIVault, FiniteSets

CONSTANTS
    KeyVersions,        \* PII_REDACTOR_PERSISTENCE_KEY_VERSION over the deployments
    MaxDuring,          \* bound on the changes of the vault during one snapshot
    StoreImpls          \* "memory", "supabase"

ASSUME SnapshotAssumption ==
    /\ IsFiniteSet(ENTITY_KEYS)
    /\ StoreImpls \subseteq {"memory", "supabase"}

VARIABLES
    snap,               \* the row being built, or built and stored
    keyVersion          \* the version rows are encrypted under now

snapVars == <<snap, keyVersion>>
None == [row |-> "none"]

--------------------------------------------------------------------------------
(* The stored formats, and the vault from_snapshot makes of them.             *)

Highest(S) == CHOOSE n \in S \cup {0} : \A m \in S : m <= n
Numbers(T, e) == {t[2] : t \in {u \in T : u[1] = e}}

\* sorted(set(tokens), key=idx)
ByNumber(T, e) ==
    [i \in 1 .. Cardinality(Numbers(T, e)) |->
        <<e, CHOOSE n \in Numbers(T, e) :
                Cardinality({m \in Numbers(T, e) : m <= n}) = i>>]

NoLists == [e \in ENTITY_KEYS |-> <<>>]
NoCounters == [e \in ENTITY_KEYS |-> 0]

\* The lists as stored; else from the legacy profile map; else from the values.
RestoredTokens(data) ==
    IF data.tokens # NoLists THEN data.tokens
    ELSE IF data.legacy # {} THEN [e \in ENTITY_KEYS |-> ByNumber(data.legacy, e)]
    ELSE [e \in ENTITY_KEYS |-> ByNumber(DOMAIN data.values, e)]

\* The counters as stored, else the highest number in the lists.
\* (Mutant: the profile's number.)
CountersFromProfile(data) == [e \in ENTITY_KEYS |-> data.profile]
RestoredCounters(data) ==
    IF data.counters # NoCounters THEN data.counters
    ELSE [e \in ENTITY_KEYS |->
            LET list == RestoredTokens(data)[e] IN Highest({list[i][2] : i \in DOMAIN list})]

RestoredIndex(data) ==
    LET entry(t) == <<t[1], Norm(t[1], data.values[t])>>
        known == {t \in DOMAIN data.values : data.values[t] # EmptyValue}
    IN  [k \in {entry(t) : t \in known} |-> CHOOSE t \in known : entry(t) = k]

FromSnapshot(data) ==
    [profile  |-> data.profile,
     values   |-> data.values,
     tokens   |-> RestoredTokens(data),
     counters |-> RestoredCounters(data),
     index    |-> RestoredIndex(data)]

\* What older versions of the service stored: no lists and counters, or no
\* profile map either.
LegacyFormat(data) == [data EXCEPT !.tokens = NoLists, !.counters = NoCounters]
ValuesFormat(data) == [LegacyFormat(data) EXCEPT !.legacy = {}]

--------------------------------------------------------------------------------
(* The store.                                                                  *)

\* The key is derived from the version (and from the scope and the master key,
\* which do not change for a row).
DerivedKey(version) == <<"key", version>>
Encrypt(data, version) == [key |-> DerivedKey(version), plain |-> data]
Decrypt(payload, version) ==
    IF payload.key = DerivedKey(version) THEN payload.plain ELSE None

\* (Mutant: the version in use now.)
CurrentVersion == keyVersion
RowVersion == snap.version

\* SupabaseVaultStore.load: nothing past the expiry, else the payload, with the
\* key of the version the row names.  MemoryVaultStore.load: the snapshot as it is.
StoreLoad(impl) ==
    IF impl = "memory" THEN snap.data
    ELSE IF snap.expired THEN None
    ELSE Decrypt(snap.payload, RowVersion)

NoData == [profile |-> 1, values |-> <<>>, tokens |-> NoLists, counters |-> NoCounters,
           legacy |-> {}]
NoSnap == [step |-> "none", data |-> NoData, todo |-> {}, size |-> 0, moved |-> 0,
           destroyed |-> FALSE, payload |-> None, version |-> "none", expired |-> FALSE]

--------------------------------------------------------------------------------
(* snapshot()                                                                  *)

SnapshotInit ==
    /\ Init
    /\ keyVersion \in KeyVersions
    /\ snap = NoSnap

\* The order the dictionaries are read in.  (Mutant: the values come last.)
ValuesLast == <<"tokens", "counters", "values", "built">>
ReadOrder == <<"values", "tokens", "counters", "built">>
After(step) == ReadOrder[1 + CHOOSE i \in DOMAIN ReadOrder : ReadOrder[i] = step]

Keys(step) == {e \in ENTITY_KEYS :
    IF step = "tokens" THEN entityToTokens[e] # <<>>
    ELSE step = "counters" /\ entityCounters[e] > 0}

\* An iteration starts: the keys it goes through are those of the dictionary.
Enter(step, s) ==
    [s EXCEPT !.step = step, !.todo = Keys(step), !.size = Cardinality(Keys(step))]

\* profile_entity_to_token: the tokens up to the highest counter.
\* (Mutant: without the test that the token is there.)
MaxCounter == Highest({entityCounters[e] : e \in ENTITY_KEYS})
AllTokens == ENTITY_KEYS \X (1 .. MaxCounter)
LegacyMap == {t \in DOMAIN tokenToValue : t[2] <= MaxCounter}

SnapBegin ==
    /\ snap.step \in {"none", "failed"}
    /\ snap' = Enter(ReadOrder[1], [NoSnap EXCEPT !.data.legacy = LegacyMap])
    /\ reply' = [call |-> "snapshot", token |-> NoToken]
    /\ UNCHANGED <<vaultVars, keyVersion>>

\* dict(self._token_to_value)
ReadValues ==
    /\ snap.step = "values"
    /\ snap' = Enter(After("values"), [snap EXCEPT !.data.values = tokenToValue,
                                                   !.data.profile = currentProfile])
    /\ UNCHANGED <<vars, keyVersion>>

\* One round of a comprehension over the lists or the counters.  A dictionary that
\* got a key, or lost its keys, since the iteration began raises RuntimeError.
Resized == Cardinality(Keys(snap.step)) # snap.size

ReadKey(e) ==
    /\ snap.step \in {"tokens", "counters"}
    /\ e \in snap.todo
    /\ ~Resized
    /\ snap' = [snap EXCEPT
          !.todo = @ \ {e},
          !.data.tokens[e] = IF snap.step = "tokens" THEN entityToTokens[e] ELSE @,
          !.data.counters[e] = IF snap.step = "counters" THEN entityCounters[e] ELSE @]
    /\ UNCHANGED <<vars, keyVersion>>

EndIteration ==
    /\ snap.step \in {"tokens", "counters"}
    /\ snap.todo = {}
    /\ ~Resized
    /\ snap' = Enter(After(snap.step), snap)
    /\ UNCHANGED <<vars, keyVersion>>

SnapFails ==
    /\ snap.step \in {"tokens", "counters"}
    /\ Resized
    /\ snap' = [NoSnap EXCEPT !.step = "failed"]
    /\ UNCHANGED <<vars, keyVersion>>

\* SupabaseVaultStore.save, MemoryVaultStore.save: the row of the scope is replaced.
Save ==
    /\ snap.step = "built"
    /\ snap' = [snap EXCEPT !.step = "stored", !.version = keyVersion,
                            !.payload = Encrypt(snap.data, keyVersion)]
    /\ UNCHANGED <<vars, keyVersion>>

\* A deployment with another key version; rows keep the version they name.  It
\* matters to a row that is stored.
RotateKey ==
    /\ snap.step = "stored"
    /\ keyVersion' \in KeyVersions \ {keyVersion}
    /\ UNCHANGED <<vars, snap>>

Expire ==
    /\ snap.step = "stored"
    /\ ~snap.expired
    /\ snap' = [snap EXCEPT !.expired = TRUE]
    /\ UNCHANGED <<vars, keyVersion>>

\* MemoryVaultStore.delete, SupabaseVaultStore.delete
DeleteRow ==
    /\ snap.step = "stored"
    /\ snap' = NoSnap
    /\ UNCHANGED <<vars, keyVersion>>

\* Requests go on while the snapshot is taken; those that change nothing cannot
\* disturb it.
RequestDuring ==
    /\ snap.step \in {"values", "tokens", "counters"}
    /\ snap.moved < MaxDuring
    /\ Next
    /\ vaultVars' # vaultVars
    /\ snap' = [snap EXCEPT !.moved = @ + 1, !.destroyed = @ \/ reply'.call = "destroy"]
    /\ UNCHANGED keyVersion

\* A request after it leaves a row that the request's own save replaces.
RequestOutside ==
    /\ snap.step \in {"none", "failed", "built", "stored"}
    /\ Next
    /\ snap' = NoSnap
    /\ UNCHANGED keyVersion

SnapshotNext ==
    \/ RequestDuring
    \/ RequestOutside
    \/ SnapBegin
    \/ ReadValues
    \/ \E e \in ENTITY_KEYS : ReadKey(e)
    \/ EndIteration
    \/ SnapFails
    \/ Save
    \/ RotateKey
    \/ Expire
    \/ DeleteRow

SnapshotSpec == SnapshotInit /\ [][SnapshotNext]_<<vars, snapVars>>

--------------------------------------------------------------------------------
Built == snap.step \in {"built", "stored"}

\* A row stored while nobody registered brings back the vault it was taken from,
\* dictionary by dictionary, in the current format and in both older ones, from
\* either store, whatever the key version is by then; past its expiry the encrypted
\* store gives nothing.
CleanRowRestores ==
    snap.step = "stored" /\ snap.moved = 0 =>
        /\ \A impl \in StoreImpls :
              StoreLoad(impl) = None <=> (impl = "supabase" /\ snap.expired)
        /\ \A impl \in {i \in StoreImpls : StoreLoad(i) # None} :
           \A data \in {StoreLoad(impl), LegacyFormat(StoreLoad(impl)), ValuesFormat(StoreLoad(impl))} :
              FromSnapshot(data) =
                  [profile |-> currentProfile, values |-> tokenToValue, tokens |-> entityToTokens,
                   counters |-> entityCounters, index |-> valueIndex]

\* However the reads of a snapshot fell between the registrations, the row has a
\* value for every token answered before it began, and the vault made of the row
\* has counted every token it holds a value for, lists it, and finds it under its
\* value: it gives no number out twice.
TornRowSafe ==
    snap.step \in {"built", "stored"} /\ ~snap.destroyed =>
        LET vault == FromSnapshot(snap.data)
        IN  /\ snap.data.legacy \subseteq DOMAIN vault.values
            /\ \A t \in DOMAIN vault.values :
                  /\ t[2] <= vault.counters[t[1]]
                  /\ vault.tokens[t[1]][t[2]] = t
                  /\ vault.index[<<t[1], Norm(t[1], vault.values[t])>>] = t
================================================================================
