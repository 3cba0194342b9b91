---------------------------- MODULE AllowlistCache ----------------------------
(***************************************************************************)
(* LocalAllowlistCache (allowlist_cache.py) for one client and assistant:   *)
(* a file and a copy of its terms in memory.  get and refresh lock for each *)
(* access to the memory copy only, so the reads of the file, the rename of  *)
(* the new file and the installs in memory are steps that threads           *)
(* interleave.  A list of terms is a set; its hash is the list itself.      *)
(***************************************************************************)
EXTENDS AllowlistTerms

CONSTANTS
    Users,          \* threads that use the cache: requests and audit workers
    StoredLists     \* lists an earlier deployment may have left in the file

VARIABLES
    file,           \* what path holds
    memory,         \* _memory[key]: a list, or Missing
    use,            \* use[t]: the call thread t is in
    raced           \* history: a call has overlapped a refresh since the last
                    \* refresh that ran alone

cacheVars == <<file, memory, use, raced>>

Holds(terms) == [kind |-> "list", terms |-> terms]
\* No file, or one that has no hash and no list to read.  (JSON that is no object, on
\* which get raises AttributeError, is left out: no program writes it there.)
Missing == [kind |-> "missing"]

\* alone: no other call has overlapped this refresh so far.
NoUse == [call |-> "none", step |-> "idle", terms |-> {}, alone |-> FALSE]
\* What a call ends with is left out but for its step: nothing later depends on it.
Ends(u, step) == [call |-> u.call, step |-> step, terms |-> {}, alone |-> FALSE]
Finished == {"answered", "refused", "raised"}
Calling(t) == use[t].call # "none" /\ use[t].step \notin Finished

--------------------------------------------------------------------------------
CacheInit ==
    /\ file \in {Missing} \cup {Holds(terms) : terms \in StoredLists}
    /\ memory = Missing
    /\ use = [t \in Users |-> NoUse]
    /\ raced = FALSE

\* Thread t begins call u: it and the calls under way do not run alone.
Overlaps(t, call) ==
    \E v \in Users \ {t} : Calling(v) /\ "refresh" \in {call, use[v].call}

Begin(t, u) ==
    /\ use[t].call = "none"
    /\ IF u.step \in Finished
       THEN /\ use' = [use EXCEPT ![t] = u]
            /\ UNCHANGED raced
       ELSE /\ use' = [v \in Users |->
                        IF v = t
                        THEN [u EXCEPT !.alone = u.call = "refresh" /\ \A w \in Users \ {t} : ~Calling(w)]
                        ELSE [use[v] EXCEPT !.alone = FALSE]]
            /\ raced' = (raced \/ Overlaps(t, u.call))

\* get(): a list in memory is the answer.
GetStart(t) ==
    /\ Begin(t, IF memory = Missing THEN [NoUse EXCEPT !.call = "get", !.step = "read"]
                ELSE [NoUse EXCEPT !.call = "get", !.step = "answered"])
    /\ UNCHANGED <<file, memory>>

\* Otherwise the file: more terms than allowed are a ValueError, no list is no terms
\* and is not kept.  (Mutant: it is kept, as a list of no terms.)
ReadKept(u, f) ==
    IF f = Missing THEN Ends(u, "install")
    ELSE IF TooMany(f.terms) THEN Ends(u, "refused")
    ELSE [Ends(u, "install") EXCEPT !.terms = NormalTerms(f.terms)]
ReadOutcome(u, f) ==
    IF f = Missing THEN Ends(u, "answered")
    ELSE IF TooMany(f.terms) THEN Ends(u, "refused")
    ELSE [Ends(u, "install") EXCEPT !.terms = NormalTerms(f.terms)]

GetRead(t) ==
    /\ use[t].call = "get" /\ use[t].step = "read"
    /\ use' = [use EXCEPT ![t] = ReadOutcome(@, file)]
    /\ UNCHANGED <<file, memory, raced>>

GetInstall(t) ==
    /\ use[t].call = "get" /\ use[t].step = "install"
    /\ memory' = Holds(use[t].terms)
    /\ use' = [use EXCEPT ![t] = Ends(@, "answered")]
    /\ UNCHANGED <<file, raced>>

\* refresh(): too many terms are a ValueError before anything is touched.
\* (Mutant: any number is taken.)
RefreshUnbounded(t, terms) ==
    /\ Begin(t, [call |-> "refresh", step |-> "compare", terms |-> NormalTerms(terms), alone |-> FALSE])
    /\ UNCHANGED <<file, memory>>
RefreshStart(t, terms) ==
    /\ ~TooMany(terms)
    /\ Begin(t, [call |-> "refresh", step |-> "compare", terms |-> NormalTerms(terms), alone |-> FALSE])
    /\ UNCHANGED <<file, memory>>

\* The file is written only if its content_hash is another, or cannot be read.
RefreshCompare(t) ==
    /\ use[t].call = "refresh" /\ use[t].step = "compare"
    /\ use' = [use EXCEPT ![t].step = IF file = Holds(use[t].terms) THEN "install" ELSE "replace"]
    /\ UNCHANGED <<file, memory, raced>>

\* The temporary file takes the place of the old one.
RefreshReplace(t) ==
    /\ use[t].call = "refresh" /\ use[t].step = "replace"
    /\ file' = Holds(use[t].terms)
    /\ use' = [use EXCEPT ![t].step = "install"]
    /\ UNCHANGED <<memory, raced>>

\* OSError on the way there: the old file and the old list stay.
RefreshFails(t) ==
    /\ use[t].call = "refresh" /\ use[t].step = "replace"
    /\ use' = [use EXCEPT ![t] = Ends(@, "raised")]
    /\ UNCHANGED <<file, memory, raced>>

\* The list in memory is set whether the file changed or not.
RefreshInstall(t) ==
    /\ use[t].call = "refresh" /\ use[t].step = "install"
    /\ memory' = Holds(use[t].terms)
    /\ use' = [use EXCEPT ![t] = Ends(@, "answered")]
    /\ raced' = (raced /\ ~use[t].alone)
    /\ UNCHANGED file

\* The caller takes the answer.
TakeAnswer(t) == use' = [use EXCEPT ![t] = NoUse]

\* A new process: the file stays.
CacheRestart ==
    /\ memory' = Missing
    /\ use' = [t \in Users |-> NoUse]
    /\ raced' = FALSE
    /\ UNCHANGED file

--------------------------------------------------------------------------------
\* The copy in memory is the content of the file, unless calls overlapped; and
\* the next refresh that runs alone ends that, whether it writes the file or finds
\* it unchanged.  What a deployment answers therefore survives its restart.
CopiesAgree ==
    memory # Missing /\ ~raced /\ (\A t \in Users : ~Calling(t)) =>
        file.kind = "list" /\ Holds(NormalTerms(file.terms)) = memory
================================================================================
