------------------------- MODULE RedactorServiceProofs -------------------------
(***************************************************************************)
(* What holds of RedactorService for every environment, every number of     *)
(* threads, slots and refreshes, and every list of terms.                   *)
(***************************************************************************)
EXTENDS RedactorService, FiniteOrders, SequenceTheorems, TLAPS

--------------------------------------------------------------------------------
(* The allowlist cache.                                                        *)

\* The forms a call takes.
GetSteps == {"read", "install", "answered", "refused"}
RefreshSteps == {"compare", "replace", "install", "answered", "raised"}
UseForm(u) ==
    /\ u = [call |-> u.call, step |-> u.step, terms |-> u.terms, alone |-> u.alone]
    /\ u.alone \in BOOLEAN
    /\ \/ u.call = "none" /\ u.step = "idle"
       \/ u.call = "get" /\ u.step \in GetSteps
       \/ u.call = "refresh" /\ u.step \in RefreshSteps

Agrees == memory # Missing => file.kind = "list" /\ Holds(NormalTerms(file.terms)) = memory

\* A refresh that has run alone so far has nobody beside it, and no call has one
\* beside it while no calls have overlapped; a call that is about to install holds
\* the list of the file; and between refreshes the copies agree.
UsesForm == use = [t \in Users |-> use[t]] /\ \A t \in Users : UseForm(use[t])
AloneIsAlone ==
    \A t \in Users : use[t].alone =>
        use[t].call = "refresh" /\ Calling(t) /\ \A v \in Users \ {t} : ~Calling(v)
NoneBesideRefresh ==
    ~raced => \A t \in Users : use[t].call = "refresh" /\ Calling(t) =>
                  \A v \in Users \ {t} : ~Calling(v)
RefreshedListNormal ==
    \A t \in Users : use[t].call = "refresh" /\ Calling(t) =>
        NormalTerms(use[t].terms) = use[t].terms
InstallsTheFile ==
    \A t \in Users : use[t].step = "install" =>
        /\ use[t].call = "refresh" /\ (use[t].alone \/ ~raced) => file = Holds(use[t].terms)
        /\ use[t].call = "get" /\ ~raced =>
              file.kind = "list" /\ use[t].terms = NormalTerms(file.terms)
AgreesBetween ==
    ~raced /\ (\A t \in Users : ~(use[t].call = "refresh" /\ use[t].step = "install")) => Agrees

CacheInv ==
    /\ file = Missing \/ file = Holds(file.terms)
    /\ raced \in BOOLEAN
    /\ UsesForm
    /\ AloneIsAlone
    /\ NoneBesideRefresh
    /\ RefreshedListNormal
    /\ InstallsTheFile
    /\ AgreesBetween

\* A normal list is its own normal form.
LEMMA NormalTwice ==
    ASSUME NEW T, \A t \in T : Normal(Normal(t)) = Normal(t)
    PROVE  NormalTerms(NormalTerms(T)) = NormalTerms(T)
BY DEF NormalTerms

\* A list and no list are different things.
LEMMA HoldsFacts ==
    ASSUME NEW T
    PROVE  /\ Holds(T).kind = "list" /\ Holds(T).terms = T /\ Holds(T) # Missing
           /\ \A U : Holds(T) = Holds(U) => T = U
BY DEF Holds, Missing

\* The cache starts out with its invariant, also in a process that follows another.
LEMMA CacheStarts ==
    ASSUME file = Missing \/ file = Holds(file.terms),
           memory = Missing, raced = FALSE, use = [t \in Users |-> NoUse]
    PROVE  CacheInv
<1>1. \A t \in Users : use[t] = NoUse
    OBVIOUS
<1>2. NoUse.call = "none" /\ NoUse.step = "idle" /\ NoUse.alone = FALSE /\ UseForm(NoUse)
    BY DEF NoUse, UseForm
<1>3. \A t \in Users : ~Calling(t)
    BY <1>1, <1>2 DEF Calling
<1>4. UsesForm
    BY <1>1, <1>2 DEF UsesForm
<1> QED
    BY <1>1, <1>2, <1>3, <1>4
    DEF CacheInv, AloneIsAlone, NoneBesideRefresh, RefreshedListNormal, InstallsTheFile, AgreesBetween, Agrees

\* A call that ends ends everything it knew.
LEMMA EndsFacts ==
    ASSUME NEW u, NEW step
    PROVE  Ends(u, step) = [call |-> u.call, step |-> step, terms |-> {}, alone |-> FALSE]
BY DEF Ends, NoUse

\* What is left of a call when only its mark of being alone changes.
LEMMA AloneFacts ==
    ASSUME NEW u, UseForm(u), NEW b, b \in BOOLEAN, NEW w, w = [u EXCEPT !.alone = b]
    PROVE  w.call = u.call /\ w.step = u.step /\ w.terms = u.terms /\ w.alone = b /\ UseForm(w)
<1>1. w = [call |-> u.call, step |-> u.step, terms |-> u.terms, alone |-> b]
    BY DEF UseForm
<1>2. w.call = u.call /\ w.step = u.step /\ w.terms = u.terms
    BY <1>1
<1>3. w.alone = b
    BY <1>1
<1> QED BY <1>1, <1>2, <1>3 DEF UseForm

\* The same for a call that another has begun beside.
LEMMA DisturbedFacts ==
    ASSUME NEW u, UseForm(u), NEW w, w = [u EXCEPT !.alone = FALSE]
    PROVE  w.call = u.call /\ w.step = u.step /\ w.terms = u.terms /\ w.alone = FALSE /\ UseForm(w)
<1>1. w = [call |-> u.call, step |-> u.step, terms |-> u.terms, alone |-> FALSE]
    BY DEF UseForm
<1>2. w.call = u.call /\ w.step = u.step /\ w.terms = u.terms
    BY <1>1
<1>3. w.alone = FALSE
    BY <1>1
<1> QED BY <1>1, <1>2, <1>3 DEF UseForm

\* What is left of it when it goes on to another step.
LEMMA StepFacts ==
    ASSUME NEW u, UseForm(u), NEW s, NEW w, w = [u EXCEPT !.step = s]
    PROVE  w.call = u.call /\ w.step = s /\ w.terms = u.terms /\ w.alone = u.alone
           /\ w = [call |-> w.call, step |-> w.step, terms |-> w.terms, alone |-> w.alone]
<1> DEFINE b == u.alone
<1>1. u = [call |-> u.call, step |-> u.step, terms |-> u.terms, alone |-> b] /\ b \in BOOLEAN
    BY DEF UseForm
<1> HIDE DEF b
<1>2. w = [call |-> u.call, step |-> s, terms |-> u.terms, alone |-> b]
    BY <1>1
<1>3. w.call = u.call /\ w.step = s /\ w.terms = u.terms
    BY <1>2
<1>4. w.alone = b
    BY <1>2
<1> QED BY <1>2, <1>3, <1>4 DEF b

\* A call begins: from memory it is over at once, otherwise it overlaps the calls
\* under way.
LEMMA BeginKeeps ==
    ASSUME CacheInv, NEW t \in Users, NEW u, UseForm(u), u.alone = FALSE, Begin(t, u),
           file' = file, memory' = memory,
           \/ u.call = "get" /\ u.step \in {"answered", "read"}
           \/ u.call = "refresh" /\ u.step = "compare" /\ NormalTerms(u.terms) = u.terms
    PROVE  CacheInv'
<1> USE DEF CacheInv, UsesForm, GetSteps, RefreshSteps, Agrees, NormalTerms, Holds
<1>1. CASE u.step \in Finished
    <2>1. /\ use' = [use EXCEPT ![t] = u] /\ raced' = raced
          /\ u.call = "get" /\ u.step = "answered"
        BY <1>1 DEF Begin, Finished
    <2>2. use'[t] = u /\ \A v \in Users \ {t} : use'[v] = use[v]
        BY <2>1
    <2>3. \A v \in Users : Calling(v)' => v # t /\ Calling(v)
        BY <2>1, <2>2 DEF Calling, Finished
    <2>4. ~Calling(t)
        BY DEF Begin, Calling
    <2>5. UsesForm'
        BY <2>1, <2>2
    <2>6. AloneIsAlone' /\ NoneBesideRefresh'
        BY <2>1, <2>2, <2>3, <2>4 DEF AloneIsAlone, NoneBesideRefresh, Calling
    <2>7. RefreshedListNormal'
        BY <2>1, <2>2, <2>3 DEF RefreshedListNormal
    <2>8. InstallsTheFile'
        BY <2>1, <2>2 DEF InstallsTheFile
    <2>9. AgreesBetween'
        BY <2>1, <2>2, <2>4 DEF AgreesBetween, Begin
    <2> QED BY <2>1, <2>5, <2>6, <2>7, <2>8, <2>9
<1>2. CASE u.step \notin Finished
    <2>1. /\ use' = [v \in Users |->
                       IF v = t
                       THEN [u EXCEPT !.alone = u.call = "refresh" /\ \A w \in Users \ {t} : ~Calling(w)]
                       ELSE [use[v] EXCEPT !.alone = FALSE]]
          /\ raced' = (raced \/ Overlaps(t, u.call))
        BY <1>2 DEF Begin
    <2>2. /\ use'[t].call = u.call /\ use'[t].step = u.step /\ use'[t].terms = u.terms
          /\ use'[t].alone = (u.call = "refresh" /\ \A w \in Users \ {t} : ~Calling(w))
          /\ UseForm(use'[t])
        <3> DEFINE b == u.call = "refresh" /\ \A w \in Users \ {t} : ~Calling(w)
        <3>1. use'[t] = [u EXCEPT !.alone = b] /\ b \in BOOLEAN
            BY <2>1
        <3> HIDE DEF b
        <3> QED BY <3>1, AloneFacts DEF b
    <2>3. ASSUME NEW v \in Users \ {t}
          PROVE  /\ use'[v].call = use[v].call /\ use'[v].step = use[v].step
                 /\ use'[v].terms = use[v].terms /\ use'[v].alone = FALSE
                 /\ UseForm(use'[v])
        <3>1. use'[v] = [use[v] EXCEPT !.alone = FALSE]
            BY <2>1
        <3>2. UseForm(use[v])
            OBVIOUS
        <3> HIDE DEF CacheInv, UsesForm, GetSteps, RefreshSteps, Agrees, NormalTerms, Holds
        <3> QED BY <3>1, <3>2, DisturbedFacts
    <2>4. ~Calling(t) /\ Calling(t)' /\ \A v \in Users \ {t} : Calling(v)' = Calling(v)
        BY <1>2, <2>2, <2>3 DEF Begin, Calling
    <2>5. UsesForm'
        BY <2>1, <2>2, <2>3
    <2>6. AloneIsAlone'
        BY <2>2, <2>3, <2>4 DEF AloneIsAlone
    <2>7. ~raced' => ~raced /\ \A v \in Users \ {t} :
                        Calling(v) => u.call # "refresh" /\ use[v].call # "refresh"
        BY <2>1 DEF Overlaps
    <2>8. NoneBesideRefresh'
        BY <2>2, <2>3, <2>4, <2>7 DEF NoneBesideRefresh
    <2>9. RefreshedListNormal'
        <3> SUFFICES ASSUME NEW v \in Users, use'[v].call = "refresh", Calling(v)'
                     PROVE  NormalTerms(use'[v].terms) = use'[v].terms
            BY DEF RefreshedListNormal
        <3>1. CASE v = t
            BY <3>1, <2>2
        <3>2. CASE v # t
            BY <3>2, <2>3, <2>4 DEF RefreshedListNormal
        <3> QED BY <3>1, <3>2
    <2>10. InstallsTheFile'
        <3> SUFFICES ASSUME NEW v \in Users, use'[v].step = "install"
                     PROVE  /\ use'[v].call = "refresh" /\ (use'[v].alone \/ ~raced') => file = Holds(use'[v].terms)
                            /\ use'[v].call = "get" /\ ~raced' =>
                                  file.kind = "list" /\ use'[v].terms = NormalTerms(file.terms)
            BY DEF InstallsTheFile
        <3>1. v # t
            BY <2>2, <1>2
        <3> QED BY <3>1, <2>3, <2>7 DEF InstallsTheFile
    <2>11. AgreesBetween'
        <3> SUFFICES ASSUME ~raced', \A v \in Users : ~(use'[v].call = "refresh" /\ use'[v].step = "install")
                     PROVE  Agrees
            BY DEF AgreesBetween
        <3>1. \A v \in Users : ~(use[v].call = "refresh" /\ use[v].step = "install")
            BY <2>3, <2>4 DEF Begin
        <3> QED BY <3>1, <2>7 DEF AgreesBetween
    <2> QED BY <2>1, <2>5, <2>6, <2>8, <2>9, <2>10, <2>11
<1> QED BY <1>1, <1>2

\* get(): what it reads of the file it has until it installs it.
LEMMA GetReadKeeps ==
    ASSUME CacheInv, NEW t \in Users, GetRead(t)
    PROVE  CacheInv'
<1> USE DEF CacheInv, UsesForm, GetSteps, RefreshSteps, Agrees, NormalTerms, Holds
<1> DEFINE u == ReadOutcome(use[t], file)
<1>1. /\ use' = [use EXCEPT ![t] = u] /\ file' = file /\ memory' = memory /\ raced' = raced
      /\ use[t].call = "get" /\ use[t].step = "read"
    BY DEF GetRead
<1>2. use'[t] = u /\ \A v \in Users \ {t} : use'[v] = use[v]
    BY <1>1
<1>3. use[t].alone = FALSE /\ Calling(t)
    BY <1>1 DEF AloneIsAlone, UseForm, Calling, Finished
<1>4. /\ u.call = "get" /\ u.alone = FALSE /\ UseForm(u)
      /\ u.step = "install" => file.kind = "list" /\ u.terms = NormalTerms(file.terms)
    <2>1. CASE file = Missing \/ TooMany(file.terms)
        BY <2>1, <1>1, EndsFacts DEF ReadOutcome, UseForm
    <2>2. CASE file # Missing /\ ~TooMany(file.terms)
        <3>1. file.kind = "list"
            BY <2>2, HoldsFacts
        <3>2. u = [call |-> use[t].call, step |-> "install", terms |-> NormalTerms(file.terms),
                   alone |-> FALSE]
            BY <2>2 DEF ReadOutcome, Ends
        <3> HIDE DEF u, CacheInv, UsesForm, GetSteps, RefreshSteps, Agrees, NormalTerms, Holds
        <3>3. u.call = "get" /\ u.step = "install" /\ u.terms = NormalTerms(file.terms)
            BY <3>2, <1>1
        <3>4. u.alone = FALSE
            BY <3>2
        <3> QED BY <3>1, <3>2, <3>3, <3>4 DEF UseForm, GetSteps
    <2> QED BY <2>1, <2>2
<1>5. \A v \in Users : Calling(v)' => Calling(v)
    BY <1>2, <1>3 DEF Calling
<1>6. UsesForm'
    BY <1>1, <1>2, <1>4
<1> HIDE DEF u
<1> QED
    BY <1>1, <1>2, <1>3, <1>4, <1>5, <1>6
    DEF AloneIsAlone, NoneBesideRefresh, RefreshedListNormal, InstallsTheFile, AgreesBetween

\* It installs what it has read: the list of the file, if no refresh has come in between.
LEMMA GetInstallKeeps ==
    ASSUME CacheInv, NEW t \in Users, GetInstall(t)
    PROVE  CacheInv'
<1> USE DEF CacheInv, UsesForm, GetSteps, RefreshSteps, Agrees, NormalTerms, Holds
<1> DEFINE u == Ends(use[t], "answered")
<1>1. /\ use' = [use EXCEPT ![t] = u] /\ file' = file /\ raced' = raced
      /\ memory' = Holds(use[t].terms)
      /\ use[t].call = "get" /\ use[t].step = "install"
    BY DEF GetInstall
<1>2. u.call = "get" /\ u.step = "answered" /\ u.alone = FALSE /\ UseForm(u)
    BY <1>1 DEF Ends, UseForm
<1> HIDE DEF u
<1>3. use'[t] = u /\ \A v \in Users \ {t} : use'[v] = use[v]
    BY <1>1
<1>4. Calling(t) /\ \A v \in Users : Calling(v)' => Calling(v) /\ v # t
    BY <1>1, <1>2, <1>3 DEF Calling, Finished
<1>5. UsesForm'
    BY <1>1, <1>2, <1>3
<1>6. AloneIsAlone' /\ NoneBesideRefresh' /\ RefreshedListNormal'
    BY <1>1, <1>2, <1>3, <1>4 DEF AloneIsAlone, NoneBesideRefresh, RefreshedListNormal
<1>7. InstallsTheFile'
    BY <1>1, <1>2, <1>3 DEF InstallsTheFile
<1>8. AgreesBetween'
    BY <1>1 DEF InstallsTheFile, AgreesBetween
<1> QED BY <1>1, <1>5, <1>6, <1>7, <1>8

\* refresh(): it goes straight to the install only if the file has its list.
LEMMA RefreshCompareKeeps ==
    ASSUME CacheInv, NEW t \in Users, RefreshCompare(t)
    PROVE  CacheInv'
<1> USE DEF CacheInv, UsesForm, GetSteps, RefreshSteps, Agrees, NormalTerms, Holds
<1> DEFINE u == [use[t] EXCEPT !.step = IF file = Holds(use[t].terms) THEN "install" ELSE "replace"]
<1>1. /\ use' = [use EXCEPT ![t] = u] /\ file' = file /\ raced' = raced /\ memory' = memory
      /\ use[t].call = "refresh" /\ use[t].step = "compare"
    BY DEF RefreshCompare
<1>2. /\ u.call = "refresh" /\ u.terms = use[t].terms /\ u.alone = use[t].alone
      /\ u.step = IF file = Holds(use[t].terms) THEN "install" ELSE "replace"
      /\ UseForm(u)
    BY <1>1, StepFacts DEF UseForm
<1> HIDE DEF u
<1>3. use'[t] = u /\ \A v \in Users \ {t} : use'[v] = use[v]
    BY <1>1
<1>4. \A v \in Users : Calling(v)' = Calling(v)
    BY <1>1, <1>2, <1>3 DEF Calling, Finished
<1>5. UsesForm'
    BY <1>1, <1>2, <1>3
<1>6. AloneIsAlone' /\ NoneBesideRefresh' /\ RefreshedListNormal'
    BY <1>1, <1>2, <1>3, <1>4 DEF AloneIsAlone, NoneBesideRefresh, RefreshedListNormal
<1>7. InstallsTheFile'
    BY <1>1, <1>2, <1>3 DEF InstallsTheFile
<1>8. AgreesBetween'
    BY <1>1, <1>2, <1>3 DEF AgreesBetween
<1> QED BY <1>1, <1>5, <1>6, <1>7, <1>8

\* The rename puts its list into the file: nobody whose copy matters is beside it.
LEMMA RefreshReplaceKeeps ==
    ASSUME CacheInv, NEW t \in Users, RefreshReplace(t)
    PROVE  CacheInv'
<1> USE DEF CacheInv, UsesForm, GetSteps, RefreshSteps, Agrees, NormalTerms, Holds
<1> DEFINE u == [use[t] EXCEPT !.step = "install"]
<1>1. /\ use' = [use EXCEPT ![t] = u] /\ raced' = raced /\ memory' = memory
      /\ file' = Holds(use[t].terms)
      /\ use[t].call = "refresh" /\ use[t].step = "replace"
    BY DEF RefreshReplace
<1>2. /\ u.call = "refresh" /\ u.terms = use[t].terms /\ u.alone = use[t].alone
      /\ u.step = "install" /\ UseForm(u)
    BY <1>1, StepFacts DEF UseForm
<1> HIDE DEF u
<1>3. use'[t] = u /\ \A v \in Users \ {t} : use'[v] = use[v]
    BY <1>1
<1>4. Calling(t) /\ \A v \in Users : Calling(v)' = Calling(v)
    BY <1>1, <1>2, <1>3 DEF Calling, Finished
<1>5. UsesForm'
    BY <1>1, <1>2, <1>3
<1>6. AloneIsAlone' /\ NoneBesideRefresh' /\ RefreshedListNormal'
    BY <1>1, <1>2, <1>3, <1>4 DEF AloneIsAlone, NoneBesideRefresh, RefreshedListNormal
<1>7. InstallsTheFile'
    BY <1>1, <1>2, <1>3, <1>4 DEF InstallsTheFile, AloneIsAlone, NoneBesideRefresh, Calling, Finished, UseForm
<1>8. AgreesBetween'
    BY <1>1, <1>2, <1>3 DEF AgreesBetween
<1> QED BY <1>1, <1>5, <1>6, <1>7, <1>8

\* An OSError ends the call and changes nothing.
LEMMA RefreshFailsKeeps ==
    ASSUME CacheInv, NEW t \in Users, RefreshFails(t)
    PROVE  CacheInv'
<1> USE DEF CacheInv, UsesForm, GetSteps, RefreshSteps, Agrees, NormalTerms, Holds
<1> DEFINE u == Ends(use[t], "raised")
<1>1. /\ use' = [use EXCEPT ![t] = u] /\ file' = file /\ raced' = raced /\ memory' = memory
      /\ use[t].call = "refresh" /\ use[t].step = "replace"
    BY DEF RefreshFails
<1>2. u.call = "refresh" /\ u.step = "raised" /\ u.alone = FALSE /\ UseForm(u)
    BY <1>1 DEF Ends, UseForm
<1> HIDE DEF u
<1>3. use'[t] = u /\ \A v \in Users \ {t} : use'[v] = use[v]
    BY <1>1
<1>4. Calling(t) /\ \A v \in Users : Calling(v)' => Calling(v) /\ v # t
    BY <1>1, <1>2, <1>3 DEF Calling, Finished
<1>5. UsesForm'
    BY <1>1, <1>2, <1>3
<1>6. AloneIsAlone' /\ NoneBesideRefresh' /\ RefreshedListNormal'
    BY <1>1, <1>2, <1>3, <1>4 DEF AloneIsAlone, NoneBesideRefresh, RefreshedListNormal
<1>7. InstallsTheFile'
    BY <1>1, <1>2, <1>3 DEF InstallsTheFile
<1>8. AgreesBetween'
    BY <1>1, <1>2, <1>3 DEF AgreesBetween
<1> QED BY <1>1, <1>5, <1>6, <1>7, <1>8

\* A refresh that ends alone has put one list in both places, and nobody holds another.
LEMMA RefreshInstallKeeps ==
    ASSUME CacheInv, NEW t \in Users, RefreshInstall(t)
    PROVE  CacheInv'
<1> USE DEF CacheInv, UsesForm, GetSteps, RefreshSteps, Agrees, NormalTerms, Holds
<1> DEFINE u == Ends(use[t], "answered")
<1>1. /\ use' = [use EXCEPT ![t] = u] /\ file' = file /\ raced' = (raced /\ ~use[t].alone)
      /\ memory' = Holds(use[t].terms)
      /\ use[t].call = "refresh" /\ use[t].step = "install"
    BY DEF RefreshInstall
<1>2. u.call = "refresh" /\ u.step = "answered" /\ u.alone = FALSE /\ UseForm(u)
    BY <1>1 DEF Ends, UseForm
<1> HIDE DEF u
<1>3. use'[t] = u /\ \A v \in Users \ {t} : use'[v] = use[v]
    BY <1>1
<1>4. Calling(t) /\ \A v \in Users : Calling(v)' => Calling(v) /\ v # t
    BY <1>1, <1>2, <1>3 DEF Calling, Finished
<1>5. UsesForm'
    BY <1>1, <1>2, <1>3
<1>6. ~raced' => ~\E v \in Users : Calling(v)'
    BY <1>1, <1>4 DEF AloneIsAlone, NoneBesideRefresh
<1>7. AloneIsAlone' /\ NoneBesideRefresh' /\ RefreshedListNormal'
    BY <1>1, <1>2, <1>3, <1>4, <1>6 DEF AloneIsAlone, NoneBesideRefresh, RefreshedListNormal
<1>8. InstallsTheFile'
    BY <1>1, <1>2, <1>3, <1>4, <1>6 DEF InstallsTheFile, AloneIsAlone, Calling, Finished, UseForm
<1>9. AgreesBetween'
    <2> SUFFICES ASSUME ~raced' PROVE Agrees'
        BY DEF AgreesBetween
    <2>1. file = Holds(use[t].terms)
        BY <1>1 DEF InstallsTheFile
    <2>2. NormalTerms(use[t].terms) = use[t].terms
        BY <1>1, <1>4 DEF RefreshedListNormal
    <2>3. file'.kind = "list" /\ file'.terms = use[t].terms /\ memory' = Holds(use[t].terms)
        BY <2>1, <1>1
    <2> QED BY <2>2, <2>3
<1> QED BY <1>1, <1>5, <1>7, <1>8, <1>9

\* A call that is over leaves.
LEMMA TakeAnswerKeeps ==
    ASSUME CacheInv, NEW t \in Users, ~Calling(t), TakeAnswer(t),
           file' = file, memory' = memory, raced' = raced
    PROVE  CacheInv'
<1> USE DEF CacheInv, UsesForm, GetSteps, RefreshSteps, Agrees, NormalTerms, Holds
<1>1. use' = [use EXCEPT ![t] = NoUse]
    BY DEF TakeAnswer
<1>2. NoUse.call = "none" /\ NoUse.step = "idle" /\ NoUse.alone = FALSE /\ UseForm(NoUse)
    BY DEF NoUse, UseForm
<1>3. use'[t] = NoUse /\ \A v \in Users \ {t} : use'[v] = use[v]
    BY <1>1
<1>4. \A v \in Users : Calling(v)' = Calling(v)
    BY <1>2, <1>3 DEF Calling
<1>5. UsesForm'
    BY <1>1, <1>2, <1>3
<1>6. AloneIsAlone' /\ NoneBesideRefresh' /\ RefreshedListNormal'
    BY <1>2, <1>3, <1>4 DEF AloneIsAlone, NoneBesideRefresh, RefreshedListNormal
<1>7. InstallsTheFile'
    BY <1>2, <1>3 DEF InstallsTheFile
<1>8. use[t].step # "install"
    BY DEF Calling, Finished, UseForm
<1>9. AgreesBetween'
    BY <1>2, <1>3, <1>8 DEF AgreesBetween
<1> QED BY <1>5, <1>6, <1>7, <1>9

\* A new process has only the file.
LEMMA CacheRestartKeeps ==
    ASSUME CacheInv, CacheRestart
    PROVE  CacheInv'
<1>1. \A t \in Users : use'[t] = NoUse
    BY DEF CacheRestart
<1>2. NoUse.call = "none" /\ NoUse.step = "idle" /\ NoUse.alone = FALSE /\ UseForm(NoUse)
    BY DEF NoUse, UseForm
<1>3. \A t \in Users : ~Calling(t)'
    BY <1>1, <1>2 DEF Calling
<1>4. UsesForm'
    BY <1>1, <1>2 DEF UsesForm, CacheRestart
<1> QED
    BY <1>1, <1>2, <1>3, <1>4
    DEF CacheRestart, CacheInv, AloneIsAlone, NoneBesideRefresh, RefreshedListNormal,
        InstallsTheFile, AgreesBetween, Agrees, Holds

\* get() begins, in a request thread's or a worker's name.
LEMMA GetStartKeeps ==
    ASSUME CacheInv, NEW t \in Users, GetStart(t)
    PROVE  CacheInv'
<1> DEFINE u == IF memory = Missing THEN [NoUse EXCEPT !.call = "get", !.step = "read"]
                ELSE [NoUse EXCEPT !.call = "get", !.step = "answered"]
<1>1. Begin(t, u) /\ file' = file /\ memory' = memory
    BY DEF GetStart
<1>2. u.call = "get" /\ u.step \in {"answered", "read"} /\ u.alone = FALSE /\ UseForm(u)
    BY DEF NoUse, UseForm, GetSteps
<1> HIDE DEF u
<1> QED BY <1>1, <1>2, BeginKeeps

\* refresh() begins, with a list that is its own normal form.
LEMMA RefreshRequestKeeps ==
    ASSUME CacheInv, NEW c \in Refreshers, NEW key \in Keys, NEW r \in Refreshes,
           RefreshRequest(c, key, r)
    PROVE  CacheInv'
<1> DEFINE T == NormalTerms(RequestedTerms[r])
           u == [call |-> "refresh", step |-> "compare", terms |-> T, alone |-> FALSE]
<1>1. Begin(c, u) /\ file' = file /\ memory' = memory
    BY DEF RefreshRequest, RefreshStart
<1>2. NormalTerms(T) = T
    <2>1. \A x \in RequestedTerms[r] : Normal(Normal(x)) = Normal(x)
        BY NormalAssumption
    <2> QED BY <2>1, NormalTwice
<1> HIDE DEF T
<1>3. /\ u.call = "refresh" /\ u.step = "compare" /\ u.terms = T /\ u.alone = FALSE
      /\ UseForm(u)
    BY DEF UseForm, RefreshSteps
<1> HIDE DEF u
<1>4. c \in Users
    BY RefreshersAssumption, UsersAssumption
<1> QED BY <1>1, <1>2, <1>3, <1>4, BeginKeeps

\* A step that leaves the cache alone.
LEMMA CacheUntouched ==
    ASSUME CacheInv, UNCHANGED cacheVars
    PROVE  CacheInv'
BY DEF cacheVars, CacheInv, UsesForm, UseForm, AloneIsAlone, NoneBesideRefresh, RefreshedListNormal,
       InstallsTheFile, AgreesBetween, Agrees, Calling, Holds, NormalTerms

\* Every step of the service keeps it.
LEMMA CacheStepKeeps ==
    ASSUME CacheInv, [Next]_vars
    PROVE  CacheInv'
<1> USE DEF Audit, Cached
<1>1. CASE \/ Start
           \/ \E c \in Callers, key \in Keys : AuditRequest(c, key)
           \/ \E c \in Callers : DeadlinePasses(c)
           \/ \E f \in FutureIds : CallbackStep(f)
           \/ Audit(Close)
           \/ PoolStep
           \/ UNCHANGED vars
    BY <1>1, CacheUntouched DEF Start, AuditRequest, DeadlinePasses, CallbackStep, PoolStep, vars
<1>2. CASE \E c \in Refreshers, key \in Keys, r \in Refreshes : RefreshRequest(c, key, r)
    BY <1>2, RefreshRequestKeeps
<1>3. ASSUME NEW c \in Callers, CallerStep(c)
      PROVE  CacheInv'
    <2>1. CASE RefreshReturns(c)
        BY <2>1, UsersAssumption, TakeAnswerKeeps DEF RefreshReturns
    <2>2. CASE ~RefreshReturns(c)
        BY <2>2, <1>3, CacheUntouched DEF CallerStep, DeadlineRefused
    <2> QED BY <2>1, <2>2
<1>4. ASSUME NEW t \in Users, CacheStep(t) \/ Cached(RefreshFails(t))
      PROVE  CacheInv'
    BY <1>4, GetReadKeeps, GetInstallKeeps, RefreshCompareKeeps, RefreshReplaceKeeps,
       RefreshInstallKeeps, RefreshFailsKeeps DEF CacheStep
<1>5. ASSUME NEW w \in Workers, WorkerStep(w)
      PROVE  CacheInv'
    <2>1. w \in Users
        BY UsersAssumption
    <2>2. CASE WorkerAsksCache(w)
        BY <2>1, <2>2, GetStartKeeps DEF WorkerAsksCache
    <2>3. CASE WorkerHasList(w)
        <3>1. ~Calling(w)
            BY <2>3 DEF WorkerHasList, Calling, Finished
        <3> QED BY <2>1, <2>3, <3>1, TakeAnswerKeeps DEF WorkerHasList
    <2>4. CASE WorkerHasError(w)
        <3>1. ~Calling(w)
            BY <2>4 DEF WorkerHasError, Calling, Finished
        <3> QED BY <2>1, <2>4, <3>1, TakeAnswerKeeps DEF WorkerHasError
    <2>5. CASE Audit(Take(w)) \/ WorkerReplays(w)
        BY <2>5, CacheUntouched DEF WorkerReplays
    <2> QED BY <1>5, <2>2, <2>3, <2>4, <2>5 DEF WorkerStep
<1>6. CASE Restart
    BY <1>6, CacheRestartKeeps DEF Restart
<1> QED BY <1>1, <1>2, <1>3, <1>4, <1>5, <1>6 DEF Next

\* The service starts with it, whatever list is in the file.
LEMMA CacheInitial == ServiceInit => CacheInv
<1> SUFFICES ASSUME ServiceInit PROVE CacheInv
    OBVIOUS
<1>1. file = Missing \/ file = Holds(file.terms)
    BY HoldsFacts DEF ServiceInit, CacheInit
<1> QED BY <1>1, CacheStarts DEF ServiceInit, CacheInit

\* The allowlist in memory is the one in the file whenever no call is at work and no
\* calls have overlapped since a refresh that ran alone (LocalAllowlistCache.get and
\* refresh): for every number of threads, every deployment and every list.
THEOREM ServiceCopiesAgree == Spec => []CopiesAgree
<1>1. ServiceInit => CacheInv
    BY CacheInitial
<1>2. CacheInv /\ [Next]_vars => CacheInv'
    BY CacheStepKeeps
<1>3. CacheInv => CopiesAgree
    BY DEF CacheInv, AgreesBetween, Agrees, CopiesAgree, Calling, Finished
<1> QED BY <1>1, <1>2, <1>3, PTL DEF Spec

--------------------------------------------------------------------------------
(* The bound on the lists.                                                     *)

\* A list that fits: normal, and no longer than allowed.
Settled(terms) == NormalTerms(NormalTerms(terms)) = NormalTerms(terms)
Fits(terms) == Settled(terms) /\ ~TooMany(terms)

\* The lists in flight: a refresh carries one from its start, a get once it has read.
CarriesList(u) == u.step = "install" \/ (u.call = "refresh" /\ u.step \notin Finished)

\* The file may hold more than this deployment allows: an earlier one wrote it.
ListsInv ==
    /\ file # Missing => Settled(file.terms)
    /\ memory # Missing => Fits(memory.terms)
    /\ \A t \in Users : CarriesList(use[t]) => Fits(use[t].terms)

\* The normal form of a list is settled, and as long as the list.
LEMMA NormalFits ==
    ASSUME NEW T, Settled(T), ~TooMany(T)
    PROVE  Fits(NormalTerms(T))
BY DEF Fits, Settled, TooMany

\* A step of the cache after which memory and file have what they had or the list of
\* the thread that acts, and every thread what it had or a list that fits.
LEMMA ListsMove ==
    ASSUME ListsInv, NEW t \in Users,
           \/ file' = file
           \/ file' = Holds(use[t].terms) /\ CarriesList(use[t])
           \/ file' = Missing,
           \/ memory' = memory
           \/ memory' = Holds(use[t].terms) /\ CarriesList(use[t])
           \/ memory' = Missing,
           \A v \in Users : CarriesList(use'[v]) =>
               \/ CarriesList(use[v]) /\ use'[v].terms = use[v].terms
               \/ Fits(use'[v].terms)
    PROVE  ListsInv'
<1>1. file' # Missing => Settled(file'.terms)
    BY HoldsFacts DEF ListsInv, Fits
<1>2. memory' # Missing => Fits(memory'.terms)
    BY HoldsFacts DEF ListsInv
<1>3. \A v \in Users : CarriesList(use'[v]) => Fits(use'[v].terms)
    BY DEF ListsInv
<1> QED BY <1>1, <1>2, <1>3 DEF ListsInv, Fits, Settled, TooMany, NormalTerms, CarriesList, Finished

\* A call that begins carries no list, or one that fits.
LEMMA BeginLists ==
    ASSUME UsesForm, ListsInv, NEW t \in Users, NEW u, UseForm(u), Begin(t, u),
           file' = file, memory' = memory, CarriesList(u) => Fits(u.terms)
    PROVE  ListsInv'
<1>1. CASE u.step \in Finished
    <2>1. use' = [use EXCEPT ![t] = u]
        BY <1>1 DEF Begin
    <2>2. use'[t] = u /\ \A v \in Users \ {t} : use'[v] = use[v]
        BY <2>1 DEF UsesForm
    <2> QED BY <2>2, ListsMove
<1>2. CASE u.step \notin Finished
    <2> DEFINE b == u.call = "refresh" /\ \A w \in Users \ {t} : ~Calling(w)
    <2>1. use' = [v \in Users |-> IF v = t THEN [u EXCEPT !.alone = b]
                                  ELSE [use[v] EXCEPT !.alone = FALSE]]
        BY <1>2 DEF Begin
    <2>2. b \in BOOLEAN /\ use'[t] = [u EXCEPT !.alone = b]
        BY <2>1
    <2> HIDE DEF b
    <2>3. use'[t].call = u.call /\ use'[t].step = u.step /\ use'[t].terms = u.terms
        BY <2>2, AloneFacts
    <2>4. ASSUME NEW v \in Users \ {t}
          PROVE  use'[v].call = use[v].call /\ use'[v].step = use[v].step /\ use'[v].terms = use[v].terms
        <3>1. use'[v] = [use[v] EXCEPT !.alone = FALSE] /\ UseForm(use[v])
            BY <2>1 DEF UsesForm
        <3> QED BY <3>1, DisturbedFacts
    <2>5. \A v \in Users : CarriesList(use'[v]) =>
               \/ CarriesList(use[v]) /\ use'[v].terms = use[v].terms
               \/ Fits(use'[v].terms)
        BY <2>3, <2>4 DEF CarriesList
    <2> QED BY <2>5, ListsMove
<1> QED BY <1>1, <1>2

\* The steps of the calls: what a get has read fits, what a refresh writes and
\* installs is the list it began with.
LEMMA CallLists ==
    ASSUME UsesForm, ListsInv, NEW t \in Users, CacheStep(t) \/ Cached(RefreshFails(t))
    PROVE  ListsInv'
<1> USE DEF Cached
<1>1. \A u, step : step \in Finished => ~CarriesList(Ends(u, step))
    BY DEF CarriesList, Ends, Finished
<1>2. ASSUME NEW u, use' = [use EXCEPT ![t] = u]
      PROVE  use'[t] = u /\ \A v \in Users \ {t} : use'[v] = use[v]
    BY <1>2 DEF UsesForm
<1>3. CASE GetRead(t)
    <2> DEFINE u == ReadOutcome(use[t], file)
    <2>1. use' = [use EXCEPT ![t] = u] /\ file' = file /\ memory' = memory
        BY <1>3 DEF GetRead
    <2>2. CarriesList(u) => Fits(u.terms)
        <3>1. CASE file = Missing \/ TooMany(file.terms)
            BY <3>1, <1>1 DEF ReadOutcome, Finished
        <3>2. CASE file # Missing /\ ~TooMany(file.terms)
            <4>1. u = [call |-> use[t].call, step |-> "install", terms |-> NormalTerms(file.terms),
                       alone |-> FALSE]
                BY <3>2 DEF ReadOutcome, Ends
            <4>2. u.terms = NormalTerms(file.terms)
                BY <4>1
            <4> QED BY <3>2, <4>2, NormalFits DEF ListsInv
        <3> QED BY <3>1, <3>2
    <2> HIDE DEF u
    <2> QED BY <1>2, <2>1, <2>2, ListsMove
<1>4. CASE GetInstall(t) \/ RefreshInstall(t)
    <2> DEFINE u == Ends(use[t], "answered")
    <2>1. /\ use' = [use EXCEPT ![t] = u] /\ file' = file /\ memory' = Holds(use[t].terms)
          /\ use[t].step = "install"
        BY <1>4 DEF GetInstall, RefreshInstall
    <2>2. ~CarriesList(u) /\ CarriesList(use[t])
        BY <1>1, <2>1 DEF Finished, CarriesList
    <2> HIDE DEF u
    <2> QED BY <1>2, <2>1, <2>2, ListsMove
<1>5. CASE RefreshCompare(t)
    <2> DEFINE s == IF file = Holds(use[t].terms) THEN "install" ELSE "replace"
               u == [use[t] EXCEPT !.step = s]
    <2>1. /\ use' = [use EXCEPT ![t] = u] /\ file' = file /\ memory' = memory
          /\ use[t].call = "refresh" /\ use[t].step = "compare" /\ UseForm(use[t])
        BY <1>5 DEF RefreshCompare, UsesForm
    <2>2. u.terms = use[t].terms
        BY <2>1, StepFacts
    <2>3. CarriesList(use[t])
        BY <2>1 DEF CarriesList, Finished
    <2> HIDE DEF u
    <2> QED BY <1>2, <2>1, <2>2, <2>3, ListsMove
<1>6. CASE RefreshReplace(t)
    <2> DEFINE u == [use[t] EXCEPT !.step = "install"]
    <2>1. /\ use' = [use EXCEPT ![t] = u] /\ file' = Holds(use[t].terms) /\ memory' = memory
          /\ use[t].call = "refresh" /\ use[t].step = "replace" /\ UseForm(use[t])
        BY <1>6 DEF RefreshReplace, UsesForm
    <2>2. u.terms = use[t].terms
        BY <2>1, StepFacts
    <2>3. CarriesList(use[t])
        BY <2>1 DEF CarriesList, Finished
    <2> HIDE DEF u
    <2> QED BY <1>2, <2>1, <2>2, <2>3, ListsMove
<1>7. CASE RefreshFails(t)
    <2> DEFINE u == Ends(use[t], "raised")
    <2>1. use' = [use EXCEPT ![t] = u] /\ file' = file /\ memory' = memory
        BY <1>7 DEF RefreshFails
    <2>2. ~CarriesList(u)
        BY <1>1 DEF Finished
    <2> HIDE DEF u
    <2> QED BY <1>2, <2>1, <2>2, ListsMove
<1> QED BY <1>3, <1>4, <1>5, <1>6, <1>7 DEF CacheStep

\* Every step of the service keeps the lists within the bound.
LEMMA ListsStepKeeps ==
    ASSUME CacheInv, ListsInv, [Next]_vars
    PROVE  ListsInv'
<1>1. UsesForm
    BY DEF CacheInv
<1>2. CASE UNCHANGED cacheVars
    BY <1>2 DEF cacheVars, ListsInv, Fits, Settled, TooMany, NormalTerms, CarriesList, Finished
<1>3. ASSUME NEW t \in Users, GetStart(t)
      PROVE  ListsInv'
    <2> DEFINE u == IF memory = Missing THEN [NoUse EXCEPT !.call = "get", !.step = "read"]
                    ELSE [NoUse EXCEPT !.call = "get", !.step = "answered"]
    <2>1. Begin(t, u) /\ file' = file /\ memory' = memory
        BY <1>3 DEF GetStart
    <2>2. UseForm(u) /\ ~CarriesList(u)
        BY DEF NoUse, UseForm, GetSteps, CarriesList
    <2> HIDE DEF u
    <2> QED BY <1>1, <2>1, <2>2, BeginLists
<1>4. ASSUME NEW c \in Refreshers, NEW key \in Keys, NEW r \in Refreshes, RefreshRequest(c, key, r)
      PROVE  ListsInv'
    <2> DEFINE R == RequestedTerms[r]
               T == NormalTerms(R)
               u == [call |-> "refresh", step |-> "compare", terms |-> T, alone |-> FALSE]
    <2>1. Begin(c, u) /\ file' = file /\ memory' = memory /\ ~TooMany(R)
        BY <1>4 DEF RefreshRequest, RefreshStart
    <2>2. Settled(R)
        <3>1. \A x \in R : Normal(Normal(x)) = Normal(x)
            BY NormalAssumption
        <3> QED BY <3>1, NormalTwice DEF Settled
    <2> HIDE DEF R
    <2>3. Fits(T)
        BY <2>1, <2>2, NormalFits
    <2> HIDE DEF T
    <2>4. UseForm(u) /\ u.terms = T
        BY DEF UseForm, RefreshSteps
    <2> HIDE DEF u
    <2>5. c \in Users
        BY RefreshersAssumption, UsersAssumption
    <2> QED BY <1>1, <2>1, <2>3, <2>4, <2>5, BeginLists
<1>5. ASSUME NEW t \in Users, TakeAnswer(t), file' = file, memory' = memory
      PROVE  ListsInv'
    <2>1. use'[t] = NoUse /\ \A v \in Users \ {t} : use'[v] = use[v]
        BY <1>1, <1>5 DEF TakeAnswer, UsesForm
    <2>2. ~CarriesList(NoUse)
        BY DEF NoUse, CarriesList
    <2> QED BY <1>5, <2>1, <2>2, ListsMove
<1>6. CASE CacheRestart
    <2>1. /\ memory' = Missing /\ file' = file /\ \A v \in Users : use'[v] = NoUse
        BY <1>6 DEF CacheRestart
    <2>2. ~CarriesList(NoUse)
        BY DEF NoUse, CarriesList
    <2> QED BY <2>1, <2>2 DEF ListsInv, Fits, Settled, TooMany, NormalTerms
<1>7. Callers \subseteq Users /\ Workers \subseteq Users
    BY UsersAssumption
<1>8. \/ UNCHANGED cacheVars
      \/ \E t \in Users : GetStart(t)
      \/ \E c \in Refreshers, key \in Keys, r \in Refreshes : RefreshRequest(c, key, r)
      \/ \E t \in Users : TakeAnswer(t) /\ file' = file /\ memory' = memory
      \/ \E t \in Users : CacheStep(t) \/ Cached(RefreshFails(t))
      \/ CacheRestart
    <2> USE DEF Audit
    <2>1. ASSUME NEW c \in Callers, CallerStep(c)
          PROVE  UNCHANGED cacheVars \/ \E t \in Users : TakeAnswer(t) /\ file' = file /\ memory' = memory
        BY <2>1, <1>7 DEF CallerStep, RefreshReturns, DeadlineRefused
    <2>2. ASSUME NEW w \in Workers, WorkerStep(w)
          PROVE  \/ UNCHANGED cacheVars
                 \/ \E t \in Users : GetStart(t)
                 \/ \E t \in Users : TakeAnswer(t) /\ file' = file /\ memory' = memory
        BY <2>2, <1>7 DEF WorkerStep, WorkerAsksCache, WorkerHasList, WorkerHasError, WorkerReplays
    <2> QED BY <2>1, <2>2 DEF Next, Start, AuditRequest, DeadlinePasses, CallbackStep, PoolStep, Restart, vars
<1> QED BY <1>2, <1>3, <1>4, <1>5, <1>6, <1>8, <1>1, CallLists

\* A service starts with no list but the file's.
LEMMA ListsStart == ServiceInit => ListsInv
<1> SUFFICES ASSUME ServiceInit PROVE ListsInv
    OBVIOUS
<1>1. memory = Missing /\ \A t \in Users : use[t] = NoUse
    BY DEF ServiceInit, CacheInit
<1>2. ~CarriesList(NoUse)
    BY DEF NoUse, CarriesList
<1>3. ASSUME file # Missing
      PROVE  Settled(file.terms)
    <2>1. PICK terms \in StoredLists : file = Holds(terms)
        BY <1>3 DEF ServiceInit, CacheInit
    <2>2. \A x \in terms : Normal(Normal(x)) = Normal(x)
        BY NormalAssumption
    <2> QED BY <2>1, <2>2, HoldsFacts, NormalTwice DEF Settled
<1> QED BY <1>1, <1>2, <1>3 DEF ListsInv

--------------------------------------------------------------------------------
(* The configuration.                                                          *)

\* A limit of the environment is usable whatever its text.
LEMMA LimitFacts ==
    ASSUME NEW v, v.text = "number" => v.n \in Int, NEW default \in Nat
    PROVE  AtLeast(1, EnvInt(v, default)) \in Nat \ {0}
<1>1. EnvInt(v, default) \in Int
    BY DEF EnvInt
<1> QED BY <1>1 DEF AtLeast

\* The number of slots among the settings.
LEMMA LimitRead ==
    ASSUME NEW e
    PROVE  GetSettings(e).auditConcurrency = AtLeast(1, EnvInt(e.AUDIT_MAX_CONCURRENCY, 2))
BY SMTT(60) DEF GetSettings

\* So the number of slots a deployment runs with is at least one.
LEMMA SettingsFacts ==
    ASSUME NEW d \in Deployments
    PROVE  SettingsOf[d].auditConcurrency \in Nat \ {0}
<1> DEFINE v == Envs[d].AUDIT_MAX_CONCURRENCY
<1>1. SettingsOf[d].auditConcurrency = AtLeast(1, EnvInt(v, 2))
    <2>1. SettingsOf[d] = GetSettings(Envs[d])
        BY DEF SettingsOf
    <2> QED BY <2>1, LimitRead
<1>2. v.text = "number" => v.n \in Int
    BY EnvsAssumption
<1> HIDE DEF v
<1> QED BY <1>1, <1>2, LimitFacts

--------------------------------------------------------------------------------
(* The slots and the count of the transcript audit, for every number of callers, *)
(* workers and futures and every limit: no slot is lost or given back twice, and *)
(* the count is exact.                                                           *)

(* The inductive invariant.                                                    *)

FutureStates == {"free", "pending", "running", "finished", "cancelled"}
Callbacks == {"none", "left", "due", "counted", "done"}
Futures == [state : FutureStates, callback : Callbacks]
CallerSteps == {"idle", "acquire", "refresh", "submit", "count", "register", "wait", "cancel", "callback"}
WorkerSteps == {"idle", "list", "replay", "callback"}

\* The steps at which a caller holds a future, and those at which a worker runs one.
Holding == {"count", "register", "wait", "cancel", "callback"}
Running == {"list", "replay"}

AuditType ==
    /\ maxConcurrency \in Nat /\ slots \in Int /\ active \in Int
    /\ fut \in [FutureIds -> Futures]
    /\ caller \in [Callers -> [step : CallerSteps, fut : FutureIds \cup {NoFuture}]]
    /\ worker \in [Workers -> [step : WorkerSteps, fut : FutureIds \cup {NoFuture}]]
    /\ pending \in Seq(FutureIds)

\* The queue holds pending futures, each once.
QueueInv ==
    /\ \A i \in DOMAIN pending : fut[pending[i]].state = "pending"
    /\ \A i, j \in DOMAIN pending : pending[i] = pending[j] => i = j

\* A worker runs a running future, its own.
WorkersInv ==
    /\ \A w \in Workers : worker[w].step \in Running =>
            worker[w].fut \in FutureIds /\ fut[worker[w].fut].state = "running"
    /\ \A v, w \in Workers :
            worker[v].step \in Running /\ worker[w].step \in Running /\ v # w =>
                worker[v].fut # worker[w].fut

\* A caller holds a future, its own; until it registers the callback there is none.
CallersInv ==
    /\ \A c \in Callers : caller[c].step \in Holding =>
            caller[c].fut \in FutureIds /\ fut[caller[c].fut].state # "free"
    /\ \A c \in Callers : caller[c].step \in {"count", "register"} =>
            fut[caller[c].fut].callback = "none"
    /\ \A c, d \in Callers :
            caller[c].step \in Holding /\ caller[d].step \in Holding /\ c # d =>
                caller[c].fut # caller[d].fut

\* A free future has no callback, and a callback is due only once its future is done.
CallbacksInv ==
    \A f \in FutureIds :
        /\ fut[f].state = "free" => fut[f].callback = "none"
        /\ fut[f].callback \in {"due", "counted", "done"} => Done(f)

\* What is counted: a future whose caller has come past the count and whose callback
\* has not.
Counted == {f \in FutureIds :
                /\ fut[f].state # "free" /\ fut[f].callback \notin {"counted", "done"}
                /\ \A c \in Callers : ~(caller[c].step = "count" /\ caller[c].fut = f)}

SlotsInv == slots + Cardinality(HeldByCallers) + Cardinality(HeldByFutures) = maxConcurrency
ActiveInv == active = Cardinality(Counted)

ShapeInv == AuditType /\ QueueInv /\ WorkersInv /\ CallersInv /\ CallbacksInv
AuditInv == ShapeInv /\ SlotsInv /\ ActiveInv

--------------------------------------------------------------------------------
(* Counting.                                                                   *)

\* Those that hold a slot can be counted.
LEMMA HoldersFinite ==
    /\ IsFiniteSet(HeldByCallers) /\ Cardinality(HeldByCallers) \in Nat
    /\ IsFiniteSet(HeldByFutures) /\ Cardinality(HeldByFutures) \in Nat
    /\ IsFiniteSet(Counted) /\ Cardinality(Counted) \in Nat
<1>1. HeldByCallers \subseteq Callers /\ HeldByFutures \subseteq FutureIds /\ Counted \subseteq FutureIds
    BY DEF HeldByCallers, HeldByFutures, Counted
<1> QED BY <1>1, CallersAssumption, FutureIdsAssumption, FS_Subset, FS_CardinalityType

\* One more, one fewer.
LEMMA JoinOne ==
    ASSUME NEW S, IsFiniteSet(S), NEW x, x \notin S
    PROVE  Cardinality(S \cup {x}) = Cardinality(S) + 1
BY FS_AddElement

\* The same for the one that leaves.
LEMMA LeaveOne ==
    ASSUME NEW S, IsFiniteSet(S), NEW x \in S
    PROVE  Cardinality(S \ {x}) = Cardinality(S) - 1
BY FS_RemoveElement

--------------------------------------------------------------------------------
(* The steps of a caller.                                                      *)

\* A caller takes a slot: what it waits for is its own from here on.
LEMMA AcquireKeeps ==
    ASSUME AuditInv, NEW c \in Callers, Acquire(c)
    PROVE  AuditInv'
<1> USE DEF AuditInv, ShapeInv, AuditType, Futures, CallerSteps, WorkerSteps, Holding, Running
<1>1. /\ caller' = [caller EXCEPT ![c].step = "submit"] /\ caller[c].step = "acquire"
      /\ slots' = slots - 1
      /\ UNCHANGED <<maxConcurrency, active, pool, pending, fut, worker>>
    BY DEF Acquire, Go, At
<1>2. AuditType'
    BY <1>1
<1>3. QueueInv' /\ WorkersInv' /\ CallbacksInv'
    BY <1>1 DEF QueueInv, WorkersInv, CallbacksInv, Done
<1>4. CallersInv'
    BY <1>1 DEF CallersInv
<1>5. SlotsInv'
    <2>1. HeldByCallers' = HeldByCallers \cup {c} /\ c \notin HeldByCallers
        BY <1>1 DEF HeldByCallers, At
    <2>2. HeldByFutures' = HeldByFutures
        BY <1>1 DEF HeldByFutures
    <2> QED BY <1>1, <2>1, <2>2, HoldersFinite, JoinOne DEF SlotsInv
<1>6. ActiveInv'
    <2>1. Counted' = Counted
        BY <1>1 DEF Counted
    <2> QED BY <1>1, <2>1 DEF ActiveInv
<1> QED BY <1>2, <1>3, <1>4, <1>5, <1>6

\* A caller goes on, holding what it held, to a step at which nothing is handed over.
LEMMA CallerMoves ==
    ASSUME AuditInv, NEW c \in Callers, NEW s \in CallerSteps,
           caller' = [caller EXCEPT ![c].step = s],
           caller[c].step \notin {"submit", "count"}, s \notin {"submit", "count", "register"},
           s \in Holding => caller[c].step \in Holding,
           UNCHANGED <<maxConcurrency, slots, active, pending, fut, worker>>
    PROVE  AuditInv'
<1> USE DEF AuditInv, ShapeInv, AuditType, Futures, CallerSteps, WorkerSteps, Holding, Running
<1>1. /\ caller'[c].step = s /\ caller'[c].fut = caller[c].fut
      /\ \A d \in Callers \ {c} : caller'[d] = caller[d]
    OBVIOUS
<1>2. AuditType' /\ QueueInv' /\ WorkersInv' /\ CallbacksInv'
    BY DEF QueueInv, WorkersInv, CallbacksInv, Done
<1>3. CallersInv'
    BY <1>1 DEF CallersInv
<1>4. HeldByCallers' = HeldByCallers /\ HeldByFutures' = HeldByFutures /\ Counted' = Counted
    BY <1>1 DEF HeldByCallers, HeldByFutures, Counted, At
<1> QED BY <1>2, <1>3, <1>4 DEF SlotsInv, ActiveInv

\* A caller leaves that holds nothing.
LEMMA CallerLeaves ==
    ASSUME AuditInv, NEW c \in Callers, Return(c), caller[c].step \notin {"submit", "count"},
           UNCHANGED <<maxConcurrency, slots, active, pending, fut, worker>>
    PROVE  AuditInv'
<1> USE DEF AuditInv, ShapeInv, AuditType, Futures, CallerSteps, WorkerSteps, Holding, Running
<1>1. /\ caller'[c] = IdleCaller /\ \A d \in Callers \ {c} : caller'[d] = caller[d]
      /\ caller' = [caller EXCEPT ![c] = IdleCaller]
    BY DEF Return
<1>2. AuditType' /\ QueueInv' /\ WorkersInv' /\ CallbacksInv'
    BY <1>1 DEF IdleCaller, QueueInv, WorkersInv, CallbacksInv, Done
<1>3. CallersInv'
    BY <1>1 DEF IdleCaller, CallersInv
<1>4. HeldByCallers' = HeldByCallers /\ HeldByFutures' = HeldByFutures /\ Counted' = Counted
    BY <1>1 DEF HeldByCallers, HeldByFutures, Counted, At, IdleCaller
<1> QED BY <1>2, <1>3, <1>4 DEF SlotsInv, ActiveInv

\* It hands the slot over to the future it submits.
LEMMA SubmitKeeps ==
    ASSUME AuditInv, NEW c \in Callers, Submit(c)
    PROVE  AuditInv'
<1> USE DEF AuditInv, ShapeInv, AuditType, Futures, CallerSteps, WorkerSteps, Holding, Running
<1>1. PICK f \in FutureIds :
        /\ fut[f].state = "free"
        /\ fut' = [fut EXCEPT ![f].state = "pending"]
        /\ pending' = Append(pending, f)
        /\ caller' = [caller EXCEPT ![c].step = "count", ![c].fut = f]
    BY DEF Submit, Unused
<1>2. /\ caller[c].step = "submit"
      /\ UNCHANGED <<maxConcurrency, slots, active, pool, worker>>
    BY DEF Submit, At
<1>3. /\ fut'[f].state = "pending" /\ fut'[f].callback = fut[f].callback
      /\ \A g \in FutureIds \ {f} : fut'[g] = fut[g]
    BY <1>1 DEF FutureStates
<1>4. /\ caller'[c].step = "count" /\ caller'[c].fut = f
      /\ \A d \in Callers \ {c} : caller'[d] = caller[d]
    BY <1>1
<1>5. AuditType'
    <2>1. fut' \in [FutureIds -> Futures]
        BY <1>1 DEF FutureStates
    <2>2. caller' \in [Callers -> [step : CallerSteps, fut : FutureIds \cup {NoFuture}]]
        BY <1>1
    <2>3. pending' \in Seq(FutureIds)
        BY <1>1
    <2> QED BY <1>2, <2>1, <2>2, <2>3
<1>6. QueueInv'
    BY <1>1, <1>3 DEF QueueInv
<1>7. WorkersInv'
    BY <1>1, <1>2, <1>3 DEF WorkersInv
<1>8. CallersInv'
    BY <1>1, <1>2, <1>3, <1>4 DEF CallersInv, CallbacksInv
<1>9. CallbacksInv'
    BY <1>1, <1>3 DEF CallbacksInv, Done
<1>10. SlotsInv'
    <2>1. HeldByCallers' = HeldByCallers \ {c} /\ c \in HeldByCallers
        BY <1>2, <1>4 DEF HeldByCallers, At
    <2>2. HeldByFutures' = HeldByFutures \cup {f} /\ f \notin HeldByFutures
        BY <1>1, <1>3 DEF HeldByFutures, CallbacksInv
    <2>3. Cardinality(HeldByCallers') = Cardinality(HeldByCallers) - 1
        BY <2>1, HoldersFinite, LeaveOne
    <2>4. Cardinality(HeldByFutures') = Cardinality(HeldByFutures) + 1
        BY <2>2, HoldersFinite, JoinOne
    <2> QED BY <1>2, <2>3, <2>4, HoldersFinite DEF SlotsInv
<1>11. ActiveInv'
    <2>1. Counted' = Counted
        <3>1. f \notin Counted /\ f \notin Counted'
            BY <1>1, <1>4 DEF Counted
        <3>2. ASSUME NEW g \in FutureIds \ {f}
              PROVE  g \in Counted <=> g \in Counted'
            <4>1. \A d \in Callers :
                      caller'[d].step = "count" /\ caller'[d].fut = g <=>
                      caller[d].step = "count" /\ caller[d].fut = g
                BY <1>2, <1>4
            <4> QED BY <1>3, <4>1 DEF Counted
        <3> QED BY <3>1, <3>2 DEF Counted
    <2> QED BY <1>2, <2>1 DEF ActiveInv
<1> QED BY <1>5, <1>6, <1>7, <1>8, <1>9, <1>10, <1>11

\* The pool is shut down: the caller gives its slot back itself.
LEMMA SubmitRefusedKeeps ==
    ASSUME AuditInv, NEW c \in Callers, SubmitRefused(c)
    PROVE  AuditInv'
<1> USE DEF AuditInv, ShapeInv, AuditType, Futures, CallerSteps, WorkerSteps, Holding, Running
<1>1. /\ caller' = [caller EXCEPT ![c] = IdleCaller] /\ caller[c].step = "submit"
      /\ slots' = slots + 1
      /\ UNCHANGED <<maxConcurrency, active, pool, pending, fut, worker>>
    BY DEF SubmitRefused, Return, At
<1>2. caller'[c] = IdleCaller /\ \A d \in Callers \ {c} : caller'[d] = caller[d]
    BY <1>1
<1>3. AuditType' /\ QueueInv' /\ WorkersInv' /\ CallbacksInv'
    BY <1>1 DEF IdleCaller, QueueInv, WorkersInv, CallbacksInv, Done
<1>4. CallersInv'
    BY <1>1, <1>2 DEF IdleCaller, CallersInv
<1>5. SlotsInv'
    <2>1. HeldByCallers' = HeldByCallers \ {c} /\ c \in HeldByCallers
        BY <1>1, <1>2 DEF HeldByCallers, At, IdleCaller
    <2>2. HeldByFutures' = HeldByFutures
        BY <1>1 DEF HeldByFutures
    <2>3. Cardinality(HeldByCallers') = Cardinality(HeldByCallers) - 1
        BY <2>1, HoldersFinite, LeaveOne
    <2> QED BY <1>1, <2>2, <2>3, HoldersFinite DEF SlotsInv
<1>6. ActiveInv'
    <2>1. Counted' = Counted
        BY <1>1, <1>2 DEF Counted, IdleCaller
    <2> QED BY <1>1, <2>1 DEF ActiveInv
<1> QED BY <1>3, <1>4, <1>5, <1>6

\* The caller counts its future.
LEMMA CountKeeps ==
    ASSUME AuditInv, NEW c \in Callers, Count(c)
    PROVE  AuditInv'
<1> USE DEF AuditInv, ShapeInv, AuditType, Futures, CallerSteps, WorkerSteps, Holding, Running
<1>1. /\ caller' = [caller EXCEPT ![c].step = "register"] /\ caller[c].step = "count"
      /\ active' = active + 1
      /\ UNCHANGED <<maxConcurrency, slots, pool, pending, fut, worker>>
    BY DEF Count, Go, At
<1>2. /\ caller'[c].step = "register" /\ caller'[c].fut = caller[c].fut
      /\ \A d \in Callers \ {c} : caller'[d] = caller[d]
    BY <1>1
<1>3. AuditType' /\ QueueInv' /\ WorkersInv' /\ CallbacksInv'
    BY <1>1 DEF QueueInv, WorkersInv, CallbacksInv, Done
<1>4. CallersInv'
    BY <1>1, <1>2 DEF CallersInv
<1>5. SlotsInv'
    <2>1. HeldByCallers' = HeldByCallers /\ HeldByFutures' = HeldByFutures
        BY <1>1, <1>2 DEF HeldByCallers, HeldByFutures, At
    <2> QED BY <1>1, <2>1 DEF SlotsInv
<1>6. ActiveInv'
    <2> DEFINE f == caller[c].fut
    <2>1. f \in FutureIds /\ fut[f].state # "free" /\ fut[f].callback = "none"
        BY <1>1 DEF CallersInv
    <2>2. \A d \in Callers \ {c} : ~(caller[d].step = "count" /\ caller[d].fut = f)
        BY <1>1 DEF CallersInv
    <2>3. f \notin Counted
        BY <1>1 DEF Counted
    <2>4. f \in Counted'
        BY <1>1, <1>2, <2>1, <2>2 DEF Counted
    <2>5. ASSUME NEW g \in FutureIds \ {f}
          PROVE  g \in Counted <=> g \in Counted'
        BY <1>1, <1>2 DEF Counted
    <2>6. Counted' = Counted \cup {f}
        BY <2>1, <2>4, <2>5 DEF Counted
    <2> QED BY <1>1, <2>3, <2>6, HoldersFinite, JoinOne DEF ActiveInv
<1> QED BY <1>3, <1>4, <1>5, <1>6

\* It leaves its callback: the first and only one of its future.
LEMMA AddCallbackKeeps ==
    ASSUME AuditInv, NEW c \in Callers, AddCallback(c)
    PROVE  AuditInv'
<1> USE DEF AuditInv, ShapeInv, AuditType, Futures, CallerSteps, WorkerSteps, Holding, Running
<1> DEFINE f == caller[c].fut
           cb == Callback(f)
           s == IF cb = "due" THEN "callback" ELSE "wait"
<1>1. /\ fut' = [fut EXCEPT ![f].callback = cb]
      /\ caller' = [caller EXCEPT ![c].step = s] /\ caller[c].step = "register"
      /\ UNCHANGED <<maxConcurrency, slots, active, pool, pending, worker>>
    BY DEF AddCallback, Go, At
<1>2. cb \in {"left", "due"} /\ (cb = "due" => Done(f)) /\ s \in {"callback", "wait"}
    BY DEF Callback
<1>3. f \in FutureIds /\ fut[f].state # "free" /\ fut[f].callback = "none"
    BY <1>1 DEF CallersInv
<1> HIDE DEF cb, s
<1>4. /\ fut'[f].state = fut[f].state /\ fut'[f].callback = cb
      /\ \A g \in FutureIds \ {f} : fut'[g] = fut[g]
    BY <1>1, <1>3
<1>5. /\ caller'[c].step = s /\ caller'[c].fut = f
      /\ \A d \in Callers \ {c} : caller'[d] = caller[d]
    BY <1>1
<1>6. AuditType'
    <2>1. fut' \in [FutureIds -> Futures]
        BY <1>1, <1>2 DEF Callbacks
    <2>2. caller' \in [Callers -> [step : CallerSteps, fut : FutureIds \cup {NoFuture}]]
        BY <1>1, <1>2
    <2> QED BY <1>1, <2>1, <2>2
<1>7. \A g \in FutureIds : fut'[g].state = fut[g].state
    BY <1>4
<1>8. QueueInv' /\ WorkersInv'
    BY <1>1, <1>7 DEF QueueInv, WorkersInv
<1>9. CallersInv'
    BY <1>1, <1>2, <1>3, <1>4, <1>5 DEF CallersInv
<1>10. CallbacksInv'
    BY <1>2, <1>3, <1>4 DEF CallbacksInv, Done
<1>11. SlotsInv'
    <2>1. HeldByCallers' = HeldByCallers
        BY <1>1, <1>2, <1>5 DEF HeldByCallers, At
    <2>2. HeldByFutures' = HeldByFutures
        BY <1>2, <1>3, <1>4 DEF HeldByFutures
    <2> QED BY <1>1, <2>1, <2>2 DEF SlotsInv
<1>12. ActiveInv'
    <2>1. \A g \in FutureIds, d \in Callers :
              caller'[d].step = "count" /\ caller'[d].fut = g <=>
              caller[d].step = "count" /\ caller[d].fut = g
        BY <1>1, <1>2, <1>5
    <2>2. Counted' = Counted
        BY <1>2, <1>3, <1>4, <2>1 DEF Counted
    <2> QED BY <1>1, <2>2 DEF ActiveInv
<1> QED BY <1>6, <1>8, <1>9, <1>10, <1>11, <1>12

\* Only a future is forgotten whose callback is over and that nobody holds.
LEMMA KeptFacts ==
    ASSUME NEW fs \in [FutureIds -> Futures], NEW callers
    PROVE  /\ Kept(fs, callers) \in [FutureIds -> Futures]
           /\ \A f \in FutureIds :
                 \/ Kept(fs, callers)[f] = fs[f]
                 \/ /\ Kept(fs, callers)[f].state = "free" /\ Kept(fs, callers)[f].callback = "none"
                    /\ fs[f].callback = "done" /\ \A c \in Callers : callers[c].fut # f
<1>1. FreeFuture \in Futures /\ FreeFuture.state = "free" /\ FreeFuture.callback = "none"
    BY DEF FreeFuture, Futures, FutureStates, Callbacks
<1> QED BY <1>1 DEF Kept

\* A caller lets go of its future: nothing changes hands.
LEMMA CallerLetsGo ==
    ASSUME AuditInv, NEW c \in Callers, caller[c].step \in {"wait", "cancel"}, Return(c),
           fut' = Kept(fut, caller'),
           UNCHANGED <<maxConcurrency, slots, active, pool, pending, worker>>
    PROVE  AuditInv'
<1> USE DEF AuditInv, ShapeInv, AuditType, Futures, CallerSteps, WorkerSteps, Holding, Running
<1>1. caller' = [caller EXCEPT ![c] = IdleCaller]
    BY DEF Return
<1>2. caller'[c] = IdleCaller /\ \A d \in Callers \ {c} : caller'[d] = caller[d]
    BY <1>1
<1>3. /\ fut' \in [FutureIds -> Futures]
      /\ \A f \in FutureIds :
            \/ fut'[f] = fut[f]
            \/ /\ fut'[f].state = "free" /\ fut'[f].callback = "none"
               /\ fut[f].callback = "done" /\ \A d \in Callers : caller'[d].fut # f
    BY KeptFacts
<1>4. \A f \in FutureIds : fut[f].state \in {"pending", "running"} => fut'[f] = fut[f]
    BY <1>3 DEF CallbacksInv, Done
<1>5. AuditType'
    BY <1>1, <1>3 DEF IdleCaller
<1>6. QueueInv' /\ WorkersInv'
    <2>1. /\ \A i \in DOMAIN pending : fut'[pending[i]] = fut[pending[i]]
          /\ \A w \in Workers : worker[w].step \in Running =>
                fut'[worker[w].fut] = fut[worker[w].fut]
        BY <1>4 DEF QueueInv, WorkersInv
    <2>2. QueueInv'
        BY <2>1 DEF QueueInv
    <2>3. WorkersInv'
        BY <2>1 DEF WorkersInv
    <2> QED BY <2>2, <2>3
<1>7. CallersInv'
    <2>1. \A d \in Callers : caller'[d].step \in Holding =>
              /\ d # c /\ caller'[d] = caller[d] /\ caller[d].fut \in FutureIds
              /\ fut'[caller[d].fut] = fut[caller[d].fut]
        BY <1>2, <1>3 DEF IdleCaller, CallersInv
    <2> QED BY <2>1 DEF CallersInv
<1>8. CallbacksInv'
    BY <1>3 DEF CallbacksInv, Done
<1>9. SlotsInv'
    <2>1. HeldByCallers' = HeldByCallers
        BY <1>1, <1>2 DEF HeldByCallers, At, IdleCaller
    <2>2. HeldByFutures' = HeldByFutures
        BY <1>3 DEF HeldByFutures
    <2> QED BY <1>1, <2>1, <2>2 DEF SlotsInv
<1>10. ActiveInv'
    <2>1. \A d \in Callers : caller'[d].step = "count" <=> caller[d].step = "count"
        BY <1>2 DEF IdleCaller
    <2>2. \A d \in Callers : caller'[d].step = "count" => caller'[d].fut = caller[d].fut
        BY <1>2 DEF IdleCaller
    <2>3. ASSUME NEW g \in FutureIds
          PROVE  g \in Counted <=> g \in Counted'
        BY <1>3, <2>1, <2>2 DEF Counted
    <2>4. Counted' = Counted
        BY <2>3 DEF Counted
    <2> QED BY <2>4 DEF ActiveInv
<1> QED BY <1>5, <1>6, <1>7, <1>8, <1>9, <1>10

\* The answer.
LEMMA ResultKeeps ==
    ASSUME AuditInv, NEW c \in Callers, Result(c)
    PROVE  AuditInv'
BY CallerLetsGo DEF Result, At

\* No answer, and the future keeps its slot.
LEMMA WaitRefusedKeeps ==
    ASSUME AuditInv, NEW c \in Callers, WaitRefused(c)
    PROVE  AuditInv'
BY CallerLetsGo DEF WaitRefused, At

\* A future that ends, ends with its callback due or with none left.
LEMMA EndedFacts ==
    ASSUME NEW g \in Futures, NEW state \in FutureStates
    PROVE  /\ Ended(g, state) \in Futures /\ Ended(g, state).state = state
           /\ Ended(g, state).callback = IF g.callback = "left" THEN "due" ELSE g.callback
BY DEF Ended, Futures, Callbacks

\* The caller gives up: a pending future ends and leaves the queue.
LEMMA CancelPendingKeeps ==
    ASSUME AuditInv, NEW c \in Callers, Cancel(c), fut[caller[c].fut].state = "pending"
    PROVE  AuditInv'
<1> USE DEF AuditInv, ShapeInv, AuditType, Futures, CallerSteps, WorkerSteps, Holding, Running
<1> DEFINE f == caller[c].fut
           fs == [fut EXCEPT ![f] = Ended(fut[f], "cancelled")]
<1>1. /\ caller' = [caller EXCEPT ![c] = [caller[c] EXCEPT !.step = "callback"]]
      /\ caller[c].step = "cancel"
      /\ fut' = Kept(fs, caller')
      /\ UNCHANGED <<maxConcurrency, slots, active, pool, worker>>
    BY DEF Cancel, At, Cancelled
<1>2. PICK i \in DOMAIN pending :
        /\ pending[i] = f
        /\ pending' = SubSeq(pending, 1, i - 1) \o SubSeq(pending, i + 1, Len(pending))
    BY DEF Cancel
<1>3. /\ caller'[c].step = "callback" /\ caller'[c].fut = f
      /\ \A d \in Callers \ {c} : caller'[d] = caller[d]
    BY <1>1
<1>4. f \in FutureIds /\ fut[f] \in Futures /\ fut[f].callback \in {"none", "left"}
    BY <1>1 DEF CallersInv, CallbacksInv, Done, Callbacks
<1>5. /\ Ended(fut[f], "cancelled") \in Futures
      /\ Ended(fut[f], "cancelled").state = "cancelled"
      /\ Ended(fut[f], "cancelled").callback \in {"none", "due"}
    BY <1>4, EndedFacts DEF FutureStates
<1>6. /\ fs \in [FutureIds -> Futures]
      /\ fs[f].state = "cancelled" /\ fs[f].callback \in {"none", "due"}
      /\ \A g \in FutureIds \ {f} : fs[g] = fut[g]
    BY <1>4, <1>5
<1> HIDE DEF fs
<1>7. /\ fut' \in [FutureIds -> Futures]
      /\ \A g \in FutureIds :
            \/ fut'[g] = fs[g]
            \/ /\ fut'[g].state = "free" /\ fut'[g].callback = "none"
               /\ fs[g].callback = "done" /\ \A d \in Callers : caller'[d].fut # g
    <2>1. fs \in [FutureIds -> Futures] /\ fut' = Kept(fs, caller')
        BY <1>1, <1>6
    <2> DEFINE callers == caller'
    <2> HIDE DEF callers
    <2>2. /\ Kept(fs, callers) \in [FutureIds -> Futures]
          /\ \A g \in FutureIds :
                \/ Kept(fs, callers)[g] = fs[g]
                \/ /\ Kept(fs, callers)[g].state = "free" /\ Kept(fs, callers)[g].callback = "none"
                   /\ fs[g].callback = "done" /\ \A d \in Callers : callers[d].fut # g
        BY <2>1, KeptFacts
    <2> QED BY <2>1, <2>2 DEF callers
<1>8. /\ fut'[f].state = "cancelled" /\ fut'[f].callback \in {"none", "due"}
      /\ \A g \in FutureIds \ {f} :
            \/ fut'[g] = fut[g]
            \/ /\ fut'[g].state = "free" /\ fut'[g].callback = "none"
               /\ fut[g].callback = "done" /\ \A d \in Callers : caller'[d].fut # g
    BY <1>4, <1>6, <1>7
<1>9. \A g \in FutureIds \ {f} : fut[g].state \in {"pending", "running"} => fut'[g] = fut[g]
    BY <1>8 DEF CallbacksInv, Done
<1>10. /\ pending' \in Seq(FutureIds) /\ Len(pending') = Len(pending) - 1
       /\ \A j \in 1 .. Len(pending') : pending'[j] = IF j < i THEN pending[j] ELSE pending[j + 1]
    <2> DEFINE a == SubSeq(pending, 1, i - 1)
               b == SubSeq(pending, i + 1, Len(pending))
    <2>1. i \in 1 .. Len(pending) /\ Len(pending) \in Nat
        BY <1>2
    <2>2. /\ a \in Seq(FutureIds) /\ Len(a) = i - 1
          /\ \A j \in 1 .. i - 1 : a[j] = pending[j]
        BY <2>1
    <2>3. /\ b \in Seq(FutureIds) /\ Len(b) = Len(pending) - i
          /\ \A j \in 1 .. Len(pending) - i : b[j] = pending[j + i]
        BY <2>1
    <2> HIDE DEF a, b
    <2>4. pending' = a \o b
        BY <1>2 DEF a, b
    <2>5. pending' \in Seq(FutureIds) /\ Len(pending') = Len(pending) - 1
        BY <2>1, <2>2, <2>3, <2>4
    <2>6. ASSUME NEW j \in 1 .. Len(pending')
          PROVE  pending'[j] = IF j < i THEN pending[j] ELSE pending[j + 1]
        <3>1. pending'[j] = IF j <= i - 1 THEN a[j] ELSE b[j - (i - 1)]
            BY <2>1, <2>2, <2>3, <2>4, <2>5, ConcatProperties
        <3>2. CASE j < i
            BY <2>1, <2>2, <2>5, <3>1, <3>2
        <3>3. CASE j >= i
            <4>1. j - (i - 1) \in 1 .. Len(pending) - i
                BY <2>1, <2>5, <3>3
            <4>2. b[j - (i - 1)] = pending[(j - (i - 1)) + i]
                BY <2>3, <4>1
            <4>3. (j - (i - 1)) + i = j + 1
                BY <2>1, <2>5
            <4> QED BY <2>1, <2>5, <3>1, <3>3, <4>2, <4>3
        <3> QED BY <2>1, <2>5, <3>2, <3>3
    <2> QED BY <2>5, <2>6
<1>11. AuditType'
    <2>1. caller' \in [Callers -> [step : CallerSteps, fut : FutureIds \cup {NoFuture}]]
        BY <1>1
    <2> QED BY <1>1, <1>7, <1>10, <2>1
<1>12. QueueInv'
    <2> DEFINE at(j) == IF j < i THEN j ELSE j + 1
    <2>1. /\ DOMAIN pending' = 1 .. Len(pending) - 1 /\ DOMAIN pending = 1 .. Len(pending)
          /\ Len(pending) \in Nat
        BY <1>10
    <2>2. ASSUME NEW j \in DOMAIN pending'
          PROVE  at(j) \in DOMAIN pending \ {i} /\ pending'[j] = pending[at(j)]
        <3>1. at(j) \in DOMAIN pending \ {i}
            BY <2>1, <1>2
        <3>2. pending'[j] = IF j < i THEN pending[j] ELSE pending[j + 1]
            BY <2>1, <1>10
        <3> QED BY <3>1, <3>2
    <2>3. \A j, k \in DOMAIN pending' : at(j) = at(k) => j = k
        <3>1. i \in Nat /\ \A j \in DOMAIN pending' : j \in Nat
            BY <2>1, <1>2
        <3>2. \A j, k \in Nat : at(j) = at(k) => j = k
            BY <3>1
        <3> HIDE DEF at
        <3> QED BY <3>1, <3>2
    <2> HIDE DEF at
    <2>4. ASSUME NEW j \in DOMAIN pending'
          PROVE  pending'[j] \in FutureIds \ {f} /\ fut[pending'[j]].state = "pending"
        <3>1. pending[at(j)] \in FutureIds
            BY <2>2
        <3>2. pending[at(j)] # f
            BY <1>2, <2>2 DEF QueueInv
        <3>3. fut[pending[at(j)]].state = "pending"
            BY <2>2 DEF QueueInv
        <3> QED BY <2>2, <3>1, <3>2, <3>3
    <2>5. \A j, k \in DOMAIN pending' : pending'[j] = pending'[k] => j = k
        BY <2>2, <2>3 DEF QueueInv
    <2> QED BY <1>9, <2>4, <2>5 DEF QueueInv
<1>13. WorkersInv'
    BY <1>1, <1>9 DEF WorkersInv
<1>14. CallersInv'
    <2>1. ASSUME NEW d \in Callers \ {c}, caller'[d].step \in Holding
          PROVE  /\ caller'[d] = caller[d] /\ caller[d].fut \in FutureIds \ {f}
                 /\ fut[caller[d].fut].state # "free" /\ fut'[caller[d].fut] = fut[caller[d].fut]
        <3>1. caller'[d] = caller[d]
            BY <1>3
        <3>2. caller[d].fut \in FutureIds \ {f} /\ fut[caller[d].fut].state # "free"
            BY <1>1, <2>1, <3>1 DEF CallersInv
        <3>3. fut'[caller[d].fut] = fut[caller[d].fut]
            BY <1>8, <3>1, <3>2
        <3> QED BY <3>1, <3>2, <3>3
    <2>2. \A d \in Callers : caller'[d].step \in Holding =>
              caller'[d].fut \in FutureIds /\ fut'[caller'[d].fut].state # "free"
        BY <1>3, <1>4, <1>8, <2>1
    <2>3. \A d \in Callers : caller'[d].step \in {"count", "register"} =>
              fut'[caller'[d].fut].callback = "none"
        BY <1>3, <2>1 DEF CallersInv
    <2>4. ASSUME NEW d \in Callers, NEW e \in Callers, d # e,
                 caller'[d].step \in Holding, caller'[e].step \in Holding
          PROVE  caller'[d].fut # caller'[e].fut
        <3>1. CASE d = c \/ e = c
            BY <1>3, <2>1, <2>4, <3>1
        <3>2. CASE d # c /\ e # c
            BY <2>1, <2>4, <3>2 DEF CallersInv
        <3> QED BY <3>1, <3>2
    <2> QED BY <2>2, <2>3, <2>4 DEF CallersInv
<1>15. CallbacksInv'
    BY <1>8 DEF CallbacksInv, Done
<1>16. SlotsInv'
    <2>1. HeldByCallers' = HeldByCallers
        BY <1>1, <1>3 DEF HeldByCallers, At
    <2>2. HeldByFutures' = HeldByFutures
        BY <1>4, <1>8 DEF HeldByFutures
    <2> QED BY <1>1, <2>1, <2>2 DEF SlotsInv
<1>17. ActiveInv'
    <2>1. \A g \in FutureIds, d \in Callers :
              caller'[d].step = "count" /\ caller'[d].fut = g <=>
              caller[d].step = "count" /\ caller[d].fut = g
        BY <1>1, <1>3
    <2>2. Counted' = Counted
        BY <1>4, <1>8, <2>1 DEF Counted
    <2> QED BY <1>1, <2>2 DEF ActiveInv
<1> QED BY <1>11, <1>12, <1>13, <1>14, <1>15, <1>16, <1>17

\* A running or finished one goes its own way.
LEMMA CancelTooLateKeeps ==
    ASSUME AuditInv, NEW c \in Callers, Cancel(c), fut[caller[c].fut].state # "pending"
    PROVE  AuditInv'
<1>1. fut \in [FutureIds -> Futures]
    BY DEF AuditInv, ShapeInv, AuditType
<1>2. [fut EXCEPT ![caller[c].fut] = fut[caller[c].fut]] = fut
    BY <1>1
<1> QED BY <1>2, CallerLetsGo DEF Cancel, At, Cancelled, Return

--------------------------------------------------------------------------------
(* The callback, and the workers.                                              *)

\* The first half of the callback takes the count back.
LEMMA ReleaseCountKeeps ==
    ASSUME AuditInv, NEW f \in FutureIds, ReleaseCount(f)
    PROVE  AuditInv'
<1> USE DEF AuditInv, ShapeInv, AuditType, Futures, CallerSteps, WorkerSteps, Holding, Running
<1>1. /\ fut' = [fut EXCEPT ![f].callback = "counted"] /\ fut[f].callback = "due"
      /\ active' = IF active = 0 THEN 0 ELSE active - 1
      /\ UNCHANGED <<maxConcurrency, slots, pool, pending, worker, caller>>
    BY DEF ReleaseCount
<1>2. /\ fut'[f].state = fut[f].state /\ fut'[f].callback = "counted"
      /\ \A g \in FutureIds \ {f} : fut'[g] = fut[g]
    BY <1>1
<1>3. Done(f) /\ fut[f].state # "free"
    BY <1>1 DEF CallbacksInv, Done
<1>4. \A c \in Callers : caller[c].step \in {"count", "register"} => caller[c].fut # f
    BY <1>1 DEF CallersInv
<1>5. fut' \in [FutureIds -> Futures] /\ \A g \in FutureIds : fut'[g].state = fut[g].state
    BY <1>1, <1>2 DEF Callbacks
<1>6. QueueInv' /\ WorkersInv'
    BY <1>1, <1>5 DEF QueueInv, WorkersInv
<1>7. CallersInv'
    BY <1>1, <1>2, <1>4, <1>5 DEF CallersInv
<1>8. CallbacksInv'
    BY <1>2, <1>3 DEF CallbacksInv, Done
<1>9. SlotsInv'
    <2>1. HeldByCallers' = HeldByCallers
        BY <1>1 DEF HeldByCallers, At
    <2>2. HeldByFutures' = HeldByFutures
        BY <1>1, <1>2 DEF HeldByFutures
    <2> QED BY <1>1, <2>1, <2>2 DEF SlotsInv
<1>10. f \in Counted /\ Counted' = Counted \ {f}
    <2>1. f \in Counted
        BY <1>1, <1>3, <1>4 DEF Counted
    <2>2. f \notin Counted'
        BY <1>2 DEF Counted
    <2>3. ASSUME NEW g \in FutureIds \ {f}
          PROVE  g \in Counted <=> g \in Counted'
        BY <1>1, <1>2 DEF Counted
    <2> QED BY <2>1, <2>2, <2>3 DEF Counted
<1>11. active' \in Int /\ ActiveInv'
    <2>1. Cardinality(Counted') = Cardinality(Counted) - 1
        BY <1>10, HoldersFinite, LeaveOne
    <2>2. Cardinality(Counted) # 0
        BY <1>10, HoldersFinite, FS_EmptySet
    <2> QED BY <1>1, <2>1, <2>2, HoldersFinite DEF ActiveInv
<1> QED BY <1>1, <1>5, <1>6, <1>7, <1>8, <1>9, <1>11

\* The second half gives the slot back.
LEMMA ReleaseSlotKeeps ==
    ASSUME AuditInv, NEW f \in FutureIds, ReleaseSlot(f)
    PROVE  AuditInv'
<1> USE DEF AuditInv, ShapeInv, AuditType, Futures, CallerSteps, WorkerSteps, Holding, Running
<1> DEFINE fs == [fut EXCEPT ![f].callback = "done"]
<1>1. /\ fut' = Kept(fs, caller') /\ fut[f].callback = "counted"
      /\ slots' = slots + 1
      /\ caller' = [c \in Callers |-> IF caller[c].fut = f /\ At(c, "callback")
                                     THEN [caller[c] EXCEPT !.step = "wait"] ELSE caller[c]]
      /\ worker' = [w \in Workers |-> IF worker[w] = [step |-> "callback", fut |-> f]
                                     THEN IdleWorker ELSE worker[w]]
      /\ UNCHANGED <<maxConcurrency, active, pending>>
    BY DEF ReleaseSlot
<1>2. Done(f) /\ fut[f].state # "free" /\ fut[f].state \notin {"pending", "running"}
    BY <1>1 DEF CallbacksInv, Done
<1>3. /\ fs \in [FutureIds -> Futures] /\ fs[f].state = fut[f].state /\ fs[f].callback = "done"
      /\ \A g \in FutureIds \ {f} : fs[g] = fut[g]
    BY DEF Callbacks
<1>4. \A c \in Callers :
          /\ caller'[c].fut = caller[c].fut
          /\ \/ caller'[c].step = caller[c].step
             \/ caller'[c].step = "wait" /\ caller[c].step = "callback"
    BY <1>1 DEF At
<1>5. \A w \in Workers : worker'[w].step \in Running => worker'[w] = worker[w]
    BY <1>1 DEF IdleWorker
<1> HIDE DEF fs
<1>6. /\ fut' \in [FutureIds -> Futures]
      /\ \A g \in FutureIds :
            \/ fut'[g] = fs[g]
            \/ /\ fut'[g].state = "free" /\ fut'[g].callback = "none"
               /\ fs[g].callback = "done" /\ \A d \in Callers : caller'[d].fut # g
    <2> DEFINE callers == caller'
    <2> HIDE DEF callers
    <2>1. /\ Kept(fs, callers) \in [FutureIds -> Futures]
          /\ \A g \in FutureIds :
                \/ Kept(fs, callers)[g] = fs[g]
                \/ /\ Kept(fs, callers)[g].state = "free" /\ Kept(fs, callers)[g].callback = "none"
                   /\ fs[g].callback = "done" /\ \A d \in Callers : callers[d].fut # g
        BY <1>3, KeptFacts
    <2> QED BY <1>1, <2>1 DEF callers
<1>7. \A g \in FutureIds :
          \/ fut'[g].state = fut[g].state
          \/ /\ fut'[g].state = "free" /\ fut'[g].callback = "none"
             /\ Done(g) /\ \A d \in Callers : caller[d].fut # g
    <2> SUFFICES ASSUME NEW g \in FutureIds, fut'[g] # fs[g]
                 PROVE  /\ fut'[g].state = "free" /\ fut'[g].callback = "none"
                        /\ Done(g) /\ \A d \in Callers : caller[d].fut # g
        BY <1>3
    <2>1. /\ fut'[g].state = "free" /\ fut'[g].callback = "none"
          /\ fs[g].callback = "done" /\ \A d \in Callers : caller'[d].fut # g
        BY <1>6
    <2>2. Done(g)
        BY <1>2, <1>3, <2>1 DEF CallbacksInv
    <2> QED BY <1>4, <2>1, <2>2
<1>8. AuditType'
    <2>1. caller' \in [Callers -> [step : CallerSteps, fut : FutureIds \cup {NoFuture}]]
        BY <1>1
    <2>2. worker' \in [Workers -> [step : WorkerSteps, fut : FutureIds \cup {NoFuture}]]
        BY <1>1 DEF IdleWorker
    <2>3. slots' \in Int /\ UNCHANGED <<maxConcurrency, active, pending>>
        BY <1>1
    <2> QED BY <1>6, <2>1, <2>2, <2>3
<1>9. \A g \in FutureIds : fut[g].state \in {"pending", "running"} => fut'[g].state = fut[g].state
    BY <1>7 DEF Done
<1>10. QueueInv'
    BY <1>1, <1>9 DEF QueueInv
<1>11. WorkersInv'
    BY <1>5, <1>9 DEF WorkersInv
<1>12. CallersInv'
    <2>1. \A c \in Callers : caller'[c].step \in Holding => caller[c].step \in Holding
        BY <1>4
    <2>2. \A c \in Callers : caller'[c].step \in Holding =>
              caller'[c].fut \in FutureIds /\ fut'[caller'[c].fut].state # "free"
        BY <1>4, <1>7, <2>1 DEF CallersInv
    <2>3. \A c \in Callers : caller'[c].step \in {"count", "register"} =>
              fut'[caller'[c].fut].callback = "none"
        <3> SUFFICES ASSUME NEW c \in Callers, caller'[c].step \in {"count", "register"}
                     PROVE  fut'[caller'[c].fut].callback = "none"
            OBVIOUS
        <3>1. /\ caller[c].step \in {"count", "register"} /\ caller'[c].fut = caller[c].fut
              /\ caller[c].fut \in FutureIds /\ fut[caller[c].fut].callback = "none"
            BY <1>4 DEF CallersInv
        <3>2. caller[c].fut # f
            BY <1>1, <3>1
        <3> QED BY <1>3, <1>6, <3>1, <3>2
    <2>4. \A c, d \in Callers :
              caller'[c].step \in Holding /\ caller'[d].step \in Holding /\ c # d =>
                  caller'[c].fut # caller'[d].fut
        BY <1>4, <2>1 DEF CallersInv
    <2> QED BY <2>2, <2>3, <2>4 DEF CallersInv
<1>13. CallbacksInv'
    <2>1. ASSUME NEW g \in FutureIds \ {f}
          PROVE  /\ fut'[g].state = "free" => fut'[g].callback = "none"
                 /\ fut'[g].callback \in {"due", "counted", "done"} => Done(g)'
        BY <1>3, <1>6 DEF CallbacksInv, Done
    <2>2. /\ fut'[f].state = "free" => fut'[f].callback = "none"
          /\ fut'[f].callback \in {"due", "counted", "done"} => Done(f)'
        BY <1>2, <1>3, <1>6 DEF Done
    <2> QED BY <2>1, <2>2 DEF CallbacksInv
<1>14. SlotsInv'
    <2>1. HeldByCallers' = HeldByCallers
        BY <1>4 DEF HeldByCallers, At
    <2>2. f \in HeldByFutures /\ f \notin HeldByFutures'
        BY <1>1, <1>2, <1>3, <1>6 DEF HeldByFutures
    <2>3. ASSUME NEW g \in FutureIds \ {f}
          PROVE  g \in HeldByFutures <=> g \in HeldByFutures'
        BY <1>3, <1>6 DEF HeldByFutures
    <2>4. HeldByFutures' = HeldByFutures \ {f}
        BY <2>2, <2>3 DEF HeldByFutures
    <2>5. Cardinality(HeldByFutures') = Cardinality(HeldByFutures) - 1
        BY <2>2, <2>4, HoldersFinite, LeaveOne
    <2> QED BY <1>1, <2>1, <2>5, HoldersFinite DEF SlotsInv
<1>15. ActiveInv'
    <2>1. f \notin Counted /\ f \notin Counted'
        BY <1>1, <1>3, <1>6 DEF Counted
    <2>2. ASSUME NEW g \in FutureIds \ {f}
          PROVE  g \in Counted <=> g \in Counted'
        <3>1. \A c \in Callers : caller'[c].step = "count" /\ caller'[c].fut = g <=>
                                caller[c].step = "count" /\ caller[c].fut = g
            BY <1>4
        <3>2. \/ fut'[g] = fut[g]
              \/ fut'[g].state = "free" /\ fut[g].callback = "done"
            BY <1>3, <1>6
        <3> QED BY <3>1, <3>2 DEF Counted
    <2>3. Counted' = Counted
        BY <2>1, <2>2 DEF Counted
    <2> QED BY <1>1, <2>3 DEF ActiveInv
<1> QED BY <1>8, <1>10, <1>11, <1>12, <1>13, <1>14, <1>15

\* A step that only changes what a future's end brings: its state, and that a
\* callback left there is due.
LEMMA FutureMoves ==
    ASSUME AuditInv, NEW f \in FutureIds, fut[f].state # "free",
           fut' \in [FutureIds -> Futures], fut'[f].state # "free",
           \A g \in FutureIds \ {f} : fut'[g] = fut[g],
           \/ fut'[f].callback = fut[f].callback
           \/ fut[f].callback = "left" /\ fut'[f].callback = "due",
           \/ fut'[f].state \in {"finished", "cancelled"}
           \/ fut'[f].callback \notin {"due", "counted", "done"},
           UNCHANGED <<maxConcurrency, slots, active, caller>>
    PROVE  CallersInv' /\ CallbacksInv' /\ SlotsInv' /\ ActiveInv'
<1> USE DEF AuditInv, ShapeInv, AuditType, Futures, CallerSteps, WorkerSteps, Holding, Running
<1>1. CallersInv'
    BY DEF CallersInv
<1>2. CallbacksInv'
    BY DEF CallbacksInv, Done
<1>3. HeldByCallers' = HeldByCallers /\ HeldByFutures' = HeldByFutures
    <2>1. HeldByCallers' = HeldByCallers
        BY DEF HeldByCallers, At
    <2>2. \A g \in FutureIds : g \in HeldByFutures <=> g \in HeldByFutures'
        BY DEF HeldByFutures
    <2> QED BY <2>1, <2>2 DEF HeldByFutures
<1>4. Counted' = Counted
    BY DEF Counted
<1> QED BY <1>1, <1>2, <1>3, <1>4 DEF SlotsInv, ActiveInv

\* The head of the queue, and what is behind it.
LEMMA HeadFacts ==
    ASSUME AuditInv, pending # <<>>
    PROVE  /\ Head(pending) \in FutureIds /\ fut[Head(pending)].state = "pending"
           /\ Tail(pending) \in Seq(FutureIds)
           /\ \A i \in DOMAIN Tail(pending) :
                 Tail(pending)[i] # Head(pending) /\ fut[Tail(pending)[i]].state = "pending"
           /\ \A i, j \in DOMAIN Tail(pending) : Tail(pending)[i] = Tail(pending)[j] => i = j
<1> USE DEF AuditInv, ShapeInv, AuditType
<1>1. Len(pending) \in Nat \ {0} /\ DOMAIN pending = 1 .. Len(pending)
    OBVIOUS
<1>2. /\ Tail(pending) \in Seq(FutureIds) /\ Len(Tail(pending)) = Len(pending) - 1
      /\ \A i \in 1 .. Len(pending) - 1 : Tail(pending)[i] = pending[i + 1]
    BY <1>1
<1>3. Head(pending) = pending[1] /\ 1 \in DOMAIN pending
    BY <1>1
<1>4. DOMAIN Tail(pending) = 1 .. Len(pending) - 1
    BY <1>2
<1>5. \A i \in DOMAIN Tail(pending) : i + 1 \in DOMAIN pending /\ i + 1 # 1
    BY <1>1, <1>4
<1>6. \A i \in DOMAIN Tail(pending) :
          Tail(pending)[i] # Head(pending) /\ fut[Tail(pending)[i]].state = "pending"
    BY <1>2, <1>3, <1>4, <1>5 DEF QueueInv
<1>7. \A i, j \in DOMAIN Tail(pending) : Tail(pending)[i] = Tail(pending)[j] => i = j
    <2> SUFFICES ASSUME NEW i \in DOMAIN Tail(pending), NEW j \in DOMAIN Tail(pending),
                        Tail(pending)[i] = Tail(pending)[j]
                 PROVE  i = j
        OBVIOUS
    <2>1. i + 1 = j + 1
        BY <1>2, <1>4, <1>5 DEF QueueInv
    <2> QED BY <1>1, <1>4, <2>1
<1> QED BY <1>2, <1>3, <1>6, <1>7 DEF QueueInv

\* A worker takes the first future.
LEMMA TakeKeeps ==
    ASSUME AuditInv, NEW w \in Workers, Take(w)
    PROVE  AuditInv'
<1> USE DEF AuditInv, ShapeInv, AuditType, Futures, CallerSteps, WorkerSteps, Holding, Running
<1> DEFINE f == Head(pending)
<1>1. /\ fut' = [fut EXCEPT ![f].state = "running"]
      /\ pending' = Tail(pending)
      /\ worker' = [worker EXCEPT ![w] = [step |-> "list", fut |-> f]]
      /\ UNCHANGED <<maxConcurrency, slots, active, pool, caller>>
    BY DEF Take
<1>2. pending # <<>>
    BY DEF Take
<1>3. f \in FutureIds /\ fut[f].state = "pending" /\ fut[f].callback \notin {"due", "counted", "done"}
    BY <1>2, HeadFacts DEF CallbacksInv, Done
<1>4. /\ fut' \in [FutureIds -> Futures] /\ fut'[f].state = "running"
      /\ fut'[f].callback = fut[f].callback
      /\ \A g \in FutureIds \ {f} : fut'[g] = fut[g]
    BY <1>1, <1>3 DEF FutureStates
<1>5. /\ worker' \in [Workers -> [step : WorkerSteps, fut : FutureIds \cup {NoFuture}]]
      /\ worker'[w].step = "list" /\ worker'[w].fut = f
      /\ \A v \in Workers \ {w} : worker'[v] = worker[v]
    BY <1>1, <1>3
<1>6. AuditType'
    BY <1>1, <1>2, <1>4, <1>5, HeadFacts
<1>7. QueueInv'
    <2>1. \A i \in DOMAIN pending' : fut'[pending'[i]].state = "pending"
        BY <1>1, <1>2, <1>4, HeadFacts
    <2> QED BY <1>1, <1>2, <2>1, HeadFacts DEF QueueInv
<1>8. WorkersInv'
    <2>1. ASSUME NEW v \in Workers \ {w}, worker'[v].step \in Running
          PROVE  worker'[v] = worker[v] /\ worker[v].fut \in FutureIds \ {f} /\ fut[worker[v].fut].state = "running"
        BY <1>3, <1>5, <2>1 DEF WorkersInv
    <2>2. \A v \in Workers : worker'[v].step \in Running =>
              worker'[v].fut \in FutureIds /\ fut'[worker'[v].fut].state = "running"
        BY <1>3, <1>4, <1>5, <2>1
    <2>3. \A u, v \in Workers :
              worker'[u].step \in Running /\ worker'[v].step \in Running /\ u # v =>
                  worker'[u].fut # worker'[v].fut
        BY <1>5, <2>1 DEF WorkersInv
    <2> QED BY <2>2, <2>3 DEF WorkersInv
<1> HIDE DEF f
<1>9. CallersInv' /\ CallbacksInv' /\ SlotsInv' /\ ActiveInv'
    BY <1>1, <1>3, <1>4, FutureMoves
<1> QED BY <1>6, <1>7, <1>8, <1>9

\* It has the list, and replays.
LEMMA ReplayKeeps ==
    ASSUME AuditInv, NEW w \in Workers, Replay(w)
    PROVE  AuditInv'
<1> USE DEF AuditInv, ShapeInv, AuditType, Futures, CallerSteps, WorkerSteps, Holding, Running
<1>1. /\ worker' = [worker EXCEPT ![w].step = "replay"] /\ worker[w].step = "list"
      /\ UNCHANGED <<maxConcurrency, slots, active, pool, pending, fut, caller>>
    BY DEF Replay
<1>2. \A v \in Workers : /\ worker'[v].fut = worker[v].fut
                         /\ worker'[v].step \in Running => worker[v].step \in Running
    BY <1>1
<1>3. AuditType'
    BY <1>1
<1>4. WorkersInv'
    BY <1>1, <1>2 DEF WorkersInv
<1>5. QueueInv' /\ CallersInv' /\ CallbacksInv'
    BY <1>1 DEF QueueInv, CallersInv, CallbacksInv, Done
<1>6. HeldByCallers' = HeldByCallers /\ HeldByFutures' = HeldByFutures /\ Counted' = Counted
    BY <1>1 DEF HeldByCallers, HeldByFutures, Counted, At
<1> QED BY <1>1, <1>3, <1>4, <1>5, <1>6 DEF SlotsInv, ActiveInv

\* A replay ends its future, which the worker was the only one to run.
LEMMA FinishKeeps ==
    ASSUME AuditInv, NEW w \in Workers, Finish(w)
    PROVE  AuditInv'
<1> USE DEF AuditInv, ShapeInv, AuditType, Futures, CallerSteps, WorkerSteps, Holding, Running
<1> DEFINE f == worker[w].fut
<1>1. /\ fut' = [fut EXCEPT ![f] = Ended(fut[f], "finished")]
      /\ worker[w].step \in Running
      /\ UNCHANGED <<maxConcurrency, slots, active, pool, pending, caller>>
    BY DEF Finish
<1>2. f \in FutureIds /\ fut[f] \in Futures /\ fut[f].state = "running"
    BY <1>1 DEF WorkersInv
<1>3. /\ Ended(fut[f], "finished") \in Futures
      /\ Ended(fut[f], "finished").state = "finished"
      /\ Ended(fut[f], "finished").callback = IF fut[f].callback = "left" THEN "due" ELSE fut[f].callback
    BY <1>2, EndedFacts DEF FutureStates
<1>4. /\ fut' \in [FutureIds -> Futures] /\ fut'[f].state = "finished"
      /\ fut'[f].callback = IF fut[f].callback = "left" THEN "due" ELSE fut[f].callback
      /\ \A g \in FutureIds \ {f} : fut'[g] = fut[g]
    BY <1>1, <1>2, <1>3
<1>5. /\ worker' \in [Workers -> [step : WorkerSteps, fut : FutureIds \cup {NoFuture}]]
      /\ worker'[w].step \notin Running
      /\ \A v \in Workers \ {w} : worker'[v] = worker[v]
    <2>1. worker' = [worker EXCEPT ![w] =
              IF fut[f].callback = "left" THEN [worker[w] EXCEPT !.step = "callback"] ELSE IdleWorker]
        BY DEF Finish
    <2> QED BY <2>1 DEF IdleWorker
<1>6. AuditType'
    BY <1>1, <1>4, <1>5
<1>7. QueueInv'
    BY <1>1, <1>2, <1>4 DEF QueueInv
<1>8. WorkersInv'
    <2>1. ASSUME NEW v \in Workers, worker'[v].step \in Running
          PROVE  /\ v # w /\ worker'[v] = worker[v] /\ worker[v].fut \in FutureIds \ {f}
                 /\ fut[worker[v].fut].state = "running"
        <3>1. v # w /\ worker'[v] = worker[v]
            BY <1>5, <2>1
        <3> QED BY <1>1, <2>1, <3>1 DEF WorkersInv
    <2> QED BY <1>4, <2>1 DEF WorkersInv
<1> HIDE DEF f
<1>9. CallersInv' /\ CallbacksInv' /\ SlotsInv' /\ ActiveInv'
    BY <1>1, <1>2, <1>4, FutureMoves
<1> QED BY <1>6, <1>7, <1>8, <1>9

\* The shutdown cancels the first future of the queue.
LEMMA DrainKeeps ==
    ASSUME AuditInv, Drain
    PROVE  AuditInv'
<1> USE DEF AuditInv, ShapeInv, AuditType, Futures, CallerSteps, WorkerSteps, Holding, Running
<1> DEFINE f == Head(pending)
<1>1. /\ fut' = [fut EXCEPT ![f] = Cancelled(fut[f])]
      /\ pending' = Tail(pending)
      /\ UNCHANGED <<maxConcurrency, slots, active, worker, caller>>
    BY DEF Drain
<1>2. pending # <<>>
    BY DEF Drain
<1>3. f \in FutureIds /\ fut[f] \in Futures /\ fut[f].state = "pending"
      /\ fut[f].callback \notin {"due", "counted", "done"}
    BY <1>2, HeadFacts DEF CallbacksInv, Done
<1>4. /\ Cancelled(fut[f]) \in Futures
      /\ Cancelled(fut[f]).state = "cancelled"
      /\ Cancelled(fut[f]).callback = IF fut[f].callback = "left" THEN "due" ELSE fut[f].callback
    BY <1>3, EndedFacts DEF FutureStates, Cancelled
<1>5. /\ fut' \in [FutureIds -> Futures] /\ fut'[f].state = "cancelled"
      /\ fut'[f].callback = IF fut[f].callback = "left" THEN "due" ELSE fut[f].callback
      /\ \A g \in FutureIds \ {f} : fut'[g] = fut[g]
    BY <1>1, <1>3, <1>4
<1>6. AuditType'
    BY <1>1, <1>2, <1>5, HeadFacts
<1>7. QueueInv'
    <2>1. \A i \in DOMAIN pending' : fut'[pending'[i]].state = "pending"
        BY <1>1, <1>2, <1>5, HeadFacts
    <2> QED BY <1>1, <1>2, <2>1, HeadFacts DEF QueueInv
<1>8. WorkersInv'
    <2>1. \A v \in Workers : worker[v].step \in Running =>
              worker[v].fut \in FutureIds \ {f} /\ fut'[worker[v].fut] = fut[worker[v].fut]
        BY <1>3, <1>5 DEF WorkersInv
    <2> QED BY <1>1, <2>1 DEF WorkersInv
<1> HIDE DEF f
<1>9. CallersInv' /\ CallbacksInv' /\ SlotsInv' /\ ActiveInv'
    BY <1>1, <1>3, <1>5, FutureMoves
<1> QED BY <1>6, <1>7, <1>8, <1>9

--------------------------------------------------------------------------------
(* The service.                                                                *)

\* A step that leaves callers, futures and workers alone.
LEMMA AuditUntouched ==
    ASSUME AuditInv, UNCHANGED <<maxConcurrency, slots, active, pending, fut, worker, caller>>
    PROVE  AuditInv'
<1> USE DEF AuditInv, ShapeInv, AuditType, Futures, CallerSteps, WorkerSteps, Holding, Running
<1>1. ShapeInv'
    BY DEF QueueInv, WorkersInv, CallersInv, CallbacksInv, Done
<1>2. HeldByCallers' = HeldByCallers /\ HeldByFutures' = HeldByFutures /\ Counted' = Counted
    BY DEF HeldByCallers, HeldByFutures, Counted, At
<1> QED BY <1>1, <1>2 DEF SlotsInv, ActiveInv

\* A process that starts has all its slots.
LEMMA AuditStarts ==
    ASSUME ServiceInit
    PROVE  AuditInv
<1> USE DEF AuditType, Futures, CallerSteps, WorkerSteps, Holding, Running
<1>1. /\ deployment \in Deployments
      /\ maxConcurrency = settings.auditConcurrency /\ slots = maxConcurrency /\ active = 0
      /\ pending = <<>>
      /\ fut = [f \in FutureIds |-> FreeFuture]
      /\ worker = [w \in Workers |-> IdleWorker]
      /\ caller = [c \in Callers |-> IdleCaller]
    BY DEF ServiceInit, AuditInit
<1>2. maxConcurrency \in Nat
    BY <1>1, SettingsFacts DEF settings
<1>3. AuditType
    BY <1>1, <1>2 DEF FreeFuture, IdleWorker, IdleCaller, FutureStates, Callbacks
<1>4. QueueInv /\ WorkersInv /\ CallersInv /\ CallbacksInv
    BY <1>1 DEF QueueInv, WorkersInv, CallersInv, CallbacksInv, Done, FreeFuture, IdleWorker, IdleCaller
<1>5. HeldByCallers = {} /\ HeldByFutures = {} /\ Counted = {}
    BY <1>1 DEF HeldByCallers, HeldByFutures, Counted, At, FreeFuture, IdleCaller
<1> QED BY <1>1, <1>2, <1>3, <1>4, <1>5, FS_EmptySet DEF AuditInv, ShapeInv, SlotsInv, ActiveInv

\* So has the one that follows it.
LEMMA AuditRestartKeeps ==
    ASSUME AuditInv, AuditRestart
    PROVE  AuditInv'
<1> USE DEF AuditType, Futures, CallerSteps, WorkerSteps, Holding, Running
<1>1. /\ maxConcurrency' = maxConcurrency /\ slots' = maxConcurrency' /\ active' = 0
      /\ pending' = <<>>
      /\ fut' = [f \in FutureIds |-> FreeFuture]
      /\ worker' = [w \in Workers |-> IdleWorker]
      /\ caller' = [c \in Callers |-> IdleCaller]
    BY DEF AuditRestart
<1>2. maxConcurrency' \in Nat
    BY <1>1 DEF AuditInv, ShapeInv
<1>3. AuditType'
    BY <1>1, <1>2 DEF FreeFuture, IdleWorker, IdleCaller, FutureStates, Callbacks
<1>4. QueueInv' /\ WorkersInv' /\ CallersInv' /\ CallbacksInv'
    BY <1>1 DEF QueueInv, WorkersInv, CallersInv, CallbacksInv, Done, FreeFuture, IdleWorker, IdleCaller
<1>5. HeldByCallers' = {} /\ HeldByFutures' = {} /\ Counted' = {}
    BY <1>1 DEF HeldByCallers, HeldByFutures, Counted, At, FreeFuture, IdleCaller
<1> QED BY <1>1, <1>2, <1>3, <1>4, <1>5, FS_EmptySet DEF AuditInv, ShapeInv, SlotsInv, ActiveInv

\* Every step of the service keeps it.
LEMMA AuditStepKeeps ==
    ASSUME AuditInv, [Next]_vars
    PROVE  AuditInv'
<1> USE DEF Audit
<1>1. CASE \/ Start
           \/ \E t \in Users : CacheStep(t)
           \/ \E t \in Users : Cached(RefreshFails(t))
           \/ Audit(Close)
           \/ Audit(Drained) \/ Audit(Joined)
           \/ UNCHANGED vars
    BY <1>1, AuditUntouched
    DEF Start, CacheStep, Cached, Close, Drained, Joined, vars, auditVars
<1>2. ASSUME NEW c \in Callers, NEW key \in Keys, AuditRequest(c, key)
      PROVE  AuditInv'
    BY <1>2, CallerMoves DEF AuditRequest, Accepts, At, Go, CallerSteps, Holding
<1>3. ASSUME NEW c \in Refreshers, NEW key \in Keys, NEW r \in Refreshes, RefreshRequest(c, key, r)
      PROVE  AuditInv'
    <2>1. c \in Callers
        BY RefreshersAssumption
    <2> QED BY <1>3, <2>1, CallerMoves DEF RefreshRequest, Accepts, At, Go, CallerSteps, Holding
<1>4. ASSUME NEW c \in Callers, CallerStep(c)
      PROVE  AuditInv'
    <2>1. CASE Audit(SaturatedAudit(c))
        BY <2>1, CallerLeaves DEF SaturatedAudit, At
    <2>2. CASE RefreshReturns(c)
        BY <2>2, CallerLeaves DEF RefreshReturns, At
    <2>3. CASE Audit(Cancel(c))
        BY <2>3, CancelPendingKeeps, CancelTooLateKeeps
    <2> QED BY <1>4, <2>1, <2>2, <2>3, AcquireKeeps, SubmitKeeps, SubmitRefusedKeeps, CountKeeps,
               AddCallbackKeeps, ResultKeeps, WaitRefusedKeeps DEF CallerStep, DeadlineRefused
<1>5. ASSUME NEW c \in Callers, DeadlinePasses(c)
      PROVE  AuditInv'
    BY <1>5, CallerMoves DEF DeadlinePasses, Timeout, At, Go, CallerSteps, Holding
<1>6. ASSUME NEW w \in Workers, WorkerStep(w)
      PROVE  AuditInv'
    <2>1. CASE WorkerAsksCache(w)
        BY <2>1, AuditUntouched DEF WorkerAsksCache, auditVars
    <2> QED BY <1>6, <2>1, TakeKeeps, ReplayKeeps, FinishKeeps
            DEF WorkerStep, WorkerHasList, WorkerHasError, WorkerReplays
<1>7. ASSUME NEW f \in FutureIds, CallbackStep(f)
      PROVE  AuditInv'
    BY <1>7, ReleaseCountKeeps, ReleaseSlotKeeps DEF CallbackStep
<1>8. CASE Audit(Drain)
    BY <1>8, DrainKeeps
<1>9. CASE Restart
    BY <1>9, AuditRestartKeeps DEF Restart
<1> QED BY <1>1, <1>2, <1>3, <1>4, <1>5, <1>6, <1>7, <1>8, <1>9 DEF Next, PoolStep

\* A slot of TranscriptAuditService is a caller's, then its future's, until the one
\* callback of that future has given it back; no replay waits or runs without one.
THEOREM ServiceSlotsConserved == Spec => []SlotsConserved
<1>1. AuditInv => SlotsConserved
    <2> SUFFICES ASSUME AuditInv PROVE SlotsConserved
        OBVIOUS
    <2>1. slots + Cardinality(HeldByCallers) + Cardinality(HeldByFutures) = maxConcurrency
        BY DEF AuditInv, SlotsInv
    <2>2. \A f \in FutureIds : fut[f].state \in {"pending", "running"} => f \in HeldByFutures
        BY DEF AuditInv, ShapeInv, CallbacksInv, Done, HeldByFutures
    <2>3. \A w \in Workers : worker[w].step \in {"list", "replay"} => fut[worker[w].fut].state = "running"
        BY DEF AuditInv, ShapeInv, WorkersInv, Running
    <2> QED BY <2>1, <2>2, <2>3 DEF SlotsConserved
<1> QED BY <1>1, AuditStarts, AuditStepKeeps, PTL DEF Spec

\* audit_active of /health is exact: _release_slot's max(0, ...) hides nothing.
THEOREM ServiceActiveExact == Spec => []ActiveExact
<1>1. AuditInv => ActiveExact
    <2> SUFFICES ASSUME AuditInv PROVE ActiveExact
        OBVIOUS
    <2> DEFINE Listed == {f \in HeldByFutures :
                            fut[f].callback # "counted" /\ ~\E c \in CallerOf(f) : At(c, "count")}
    <2>1. \A f \in FutureIds : f \in Listed <=> f \in Counted
        BY DEF Counted, HeldByFutures, CallerOf, At
    <2>2. Listed = Counted
        BY <2>1 DEF Counted, HeldByFutures
    <2> QED BY <2>2 DEF ActiveExact, AuditInv, ActiveInv
<1> QED BY <1>1, AuditStarts, AuditStepKeeps, PTL DEF Spec

\* The semaphore never goes below zero, and the process is in one of its phases.
CountsInv == phase \in {"starting", "serving", "refused"} /\ slots >= 0

\* Only Acquire takes a slot, and only when there is one.
LEMMA CountsStepKeeps ==
    ASSUME AuditInv, CountsInv, [Next]_vars
    PROVE  CountsInv'
<1> USE DEF Audit, Cached
<1>1. slots \in Int /\ maxConcurrency \in Nat
    BY DEF AuditInv, ShapeInv, AuditType
<1>2. ASSUME NEW c \in Callers, CallerStep(c)
      PROVE  phase' = phase /\ (slots' \in {slots, slots + 1} \/ (slots > 0 /\ slots' = slots - 1))
    BY <1>2 DEF CallerStep, Acquire, SaturatedAudit, Submit, SubmitRefused, Count, AddCallback,
                Result, DeadlineRefused, WaitRefused, Cancel, RefreshReturns
<1>3. ASSUME NEW w \in Workers, WorkerStep(w)
      PROVE  phase' = phase /\ slots' = slots
    BY <1>3 DEF WorkerStep, Take, WorkerAsksCache, WorkerHasList, WorkerHasError, WorkerReplays,
                Replay, Finish, auditVars
<1>4. ASSUME NEW f \in FutureIds, CallbackStep(f)
      PROVE  phase' = phase /\ slots' \in {slots, slots + 1}
    BY <1>4 DEF CallbackStep, ReleaseCount, ReleaseSlot
<1>5. CASE PoolStep \/ Audit(Close) \/ \E c \in Callers : DeadlinePasses(c)
    BY <1>5 DEF PoolStep, Drain, Drained, Joined, Close, DeadlinePasses, Timeout, CountsInv
<1>6. CASE \/ \E t \in Users : CacheStep(t) \/ Cached(RefreshFails(t))
           \/ UNCHANGED vars
    BY <1>6 DEF CacheStep, auditVars, vars, CountsInv
<1>7. CASE \/ \E c \in Callers, key \in Keys : AuditRequest(c, key)
           \/ \E c \in Refreshers, key \in Keys, r \in Refreshes : RefreshRequest(c, key, r)
    BY <1>7 DEF AuditRequest, RefreshRequest, CountsInv
<1>8. CASE Start \/ Restart
    BY <1>1, <1>8 DEF Start, Restart, AuditRestart, auditVars, CountsInv
<1> QED BY <1>1, <1>2, <1>3, <1>4, <1>5, <1>6, <1>7, <1>8 DEF Next, CountsInv

\* The service's values stay in their ranges: no more slots than the limit and never
\* fewer than none, no count beyond it, and no allowlist in memory longer than
\* allowlist_cache_max_terms, also when an earlier deployment left a longer file.
THEOREM ServiceTypeCorrect == Spec => []ServiceTypeOK
<1> DEFINE Inv == AuditInv /\ CacheInv /\ ListsInv /\ CountsInv
<1>1. ServiceInit => Inv
    <2> SUFFICES ASSUME ServiceInit PROVE Inv
        OBVIOUS
    <2>1. AuditInv
        BY AuditStarts
    <2>2. CountsInv
        BY <2>1 DEF CountsInv, ServiceInit, AuditInit, AuditInv, ShapeInv, AuditType
    <2>3. CacheInv
        BY CacheInitial
    <2> QED BY <2>1, <2>2, <2>3, ListsStart
<1>2. Inv /\ [Next]_vars => Inv'
    BY AuditStepKeeps, CacheStepKeeps, ListsStepKeeps, CountsStepKeeps
<1>3. Inv => ServiceTypeOK
    <2> SUFFICES ASSUME AuditInv, ListsInv, CountsInv PROVE ServiceTypeOK
        OBVIOUS
    <2>1. slots \in Int /\ active \in Int /\ maxConcurrency \in Nat
        BY DEF AuditInv, ShapeInv, AuditType
    <2>2. Cardinality(Counted) <= Cardinality(HeldByFutures)
        <3>1. Counted \subseteq HeldByFutures
            BY DEF Counted, HeldByFutures
        <3> QED BY <3>1, HoldersFinite, FS_Subset
    <2>3. slots \in 0 .. maxConcurrency /\ active \in 0 .. maxConcurrency
        BY <2>1, <2>2, HoldersFinite DEF CountsInv, AuditInv, SlotsInv, ActiveInv
    <2>4. \A f \in FutureIds : fut[f].state \in {"free", "pending", "running", "finished", "cancelled"}
        BY DEF AuditInv, ShapeInv, AuditType, Futures, FutureStates
    <2> QED BY <2>3, <2>4 DEF ServiceTypeOK, CountsInv, ListsInv, Fits
<1> QED BY <1>1, <1>2, <1>3, PTL DEF Spec

--------------------------------------------------------------------------------
(* What a selector selects.  Going through the nodes is a fold over the tokens, so *)
(* the claim is shown for the first k of them, for the least k it could fail at.   *)

\* The first k tokens can be cut into the first m steps of the path p.
StepCut(payload, token, p, l, m) ==
    IF token.kind = "descend" THEN l <= m
    ELSE m = l + 1 /\ Picks(payload, token, SubSeq(p, 1, m))
IsCut(payload, tokens, k, p, m, cut) ==
    /\ cut[0] = 0 /\ cut[k] = m
    /\ \A i \in 1 .. k : StepCut(payload, tokens[i], p, cut[i - 1], cut[i])
CutsTo(payload, tokens, k, p, m) ==
    \E cut \in [0 .. k -> 0 .. Len(p)] : IsCut(payload, tokens, k, p, m, cut)

\* The first steps of the first steps of a path, and what leads to them.
LEMMA FirstSteps ==
    ASSUME NEW S, NEW p \in Seq(S), NEW m \in 0 .. Len(p)
    PROVE  /\ SubSeq(p, 1, m) \in Seq(S) /\ Len(SubSeq(p, 1, m)) = m
           /\ \A l \in 0 .. m : SubSeq(SubSeq(p, 1, m), 1, l) = SubSeq(p, 1, l)
<1>1. /\ SubSeq(p, 1, m) \in Seq(S) /\ Len(SubSeq(p, 1, m)) = m
      /\ \A i \in 1 .. m : SubSeq(p, 1, m)[i] = p[i]
    BY SubSeqProperties
<1>2. ASSUME NEW l \in 0 .. m PROVE SubSeq(SubSeq(p, 1, m), 1, l) = SubSeq(p, 1, l)
    <2> DEFINE q == SubSeq(p, 1, m)
               a == SubSeq(q, 1, l)
               b == SubSeq(p, 1, l)
    <2>1. a \in Seq(S) /\ Len(a) = l /\ \A i \in 1 .. l : a[i] = q[i]
        <3> HIDE DEF q
        <3> QED BY <1>1, SubSeqProperties DEF q
    <2>2. b \in Seq(S) /\ Len(b) = l /\ \A i \in 1 .. l : b[i] = p[i]
        BY SubSeqProperties
    <2>3. \A i \in 1 .. l : a[i] = b[i]
        BY <1>1, <2>1, <2>2
    <2> HIDE DEF a, b
    <2>4. a = b
        BY <2>1, <2>2, <2>3, SeqEqual
    <2> QED BY <2>4 DEF a, b
<1> QED BY <1>1, <1>2

\* A cut of k + 1 tokens is a cut of k of them and one more piece.
LEMMA CutGrows ==
    ASSUME NEW payload, NEW tokens, NEW k \in Nat, NEW p, Len(p) \in Nat, NEW m \in 0 .. Len(p)
    PROVE  CutsTo(payload, tokens, k + 1, p, m) <=>
               \E l \in 0 .. Len(p) : /\ CutsTo(payload, tokens, k, p, l)
                                      /\ StepCut(payload, tokens[k + 1], p, l, m)
<1>1. ASSUME CutsTo(payload, tokens, k + 1, p, m)
      PROVE  \E l \in 0 .. Len(p) : /\ CutsTo(payload, tokens, k, p, l)
                                    /\ StepCut(payload, tokens[k + 1], p, l, m)
    <2>1. PICK cut \in [0 .. k + 1 -> 0 .. Len(p)] : IsCut(payload, tokens, k + 1, p, m, cut)
        BY <1>1 DEF CutsTo
    <2> DEFINE short == [i \in 0 .. k |-> cut[i]]
    <2>2. short \in [0 .. k -> 0 .. Len(p)] /\ cut[k] \in 0 .. Len(p)
        OBVIOUS
    <2>3. IsCut(payload, tokens, k, p, cut[k], short)
        <3>1. \A i \in 1 .. k : short[i - 1] = cut[i - 1] /\ short[i] = cut[i] /\ i \in 1 .. k + 1
            OBVIOUS
        <3>2. short[0] = 0 /\ short[k] = cut[k]
            BY <2>1 DEF IsCut
        <3>3. \A i \in 1 .. k : StepCut(payload, tokens[i], p, cut[i - 1], cut[i])
            BY <2>1, <3>1 DEF IsCut
        <3> HIDE DEF short
        <3>4. \A i \in 1 .. k : StepCut(payload, tokens[i], p, short[i - 1], short[i])
            BY <3>1, <3>3
        <3> QED BY <3>2, <3>4 DEF IsCut
    <2>4. StepCut(payload, tokens[k + 1], p, cut[k], m)
        <3>1. k + 1 \in 1 .. k + 1 /\ (k + 1) - 1 = k
            OBVIOUS
        <3>2. StepCut(payload, tokens[k + 1], p, cut[(k + 1) - 1], cut[k + 1]) /\ cut[k + 1] = m
            BY <2>1, <3>1 DEF IsCut
        <3> QED BY <3>1, <3>2
    <2> HIDE DEF short
    <2>5. CutsTo(payload, tokens, k, p, cut[k])
        BY <2>2, <2>3 DEF CutsTo
    <2> QED BY <2>2, <2>4, <2>5
<1>2. ASSUME NEW l \in 0 .. Len(p), CutsTo(payload, tokens, k, p, l),
             StepCut(payload, tokens[k + 1], p, l, m)
      PROVE  CutsTo(payload, tokens, k + 1, p, m)
    <2>1. PICK cut \in [0 .. k -> 0 .. Len(p)] : IsCut(payload, tokens, k, p, l, cut)
        BY <1>2 DEF CutsTo
    <2> DEFINE long == [i \in 0 .. k + 1 |-> IF i = k + 1 THEN m ELSE cut[i]]
    <2>2. long \in [0 .. k + 1 -> 0 .. Len(p)]
        OBVIOUS
    <2>3. long[k + 1] = m /\ \A i \in 0 .. k : long[i] = cut[i]
        OBVIOUS
    <2> HIDE DEF long
    <2>4. ASSUME NEW i \in 1 .. k + 1
          PROVE  StepCut(payload, tokens[i], p, long[i - 1], long[i])
        <3>1. CASE i = k + 1
            <4>1. long[i - 1] = l /\ long[i] = m
                BY <2>1, <2>3, <3>1 DEF IsCut
            <4> QED BY <1>2, <3>1, <4>1
        <3>2. CASE i # k + 1
            <4>1. i \in 1 .. k /\ i - 1 \in 0 .. k
                BY <3>2
            <4>2. long[i - 1] = cut[i - 1] /\ long[i] = cut[i]
                BY <2>3, <4>1
            <4> QED BY <2>1, <4>1, <4>2 DEF IsCut
        <3> QED BY <3>1, <3>2
    <2>5. IsCut(payload, tokens, k + 1, p, m, long)
        BY <2>1, <2>3, <2>4 DEF IsCut
    <2> QED BY <2>2, <2>5 DEF CutsTo
<1> QED BY <1>1, <1>2

\* One token leads from nodes to the paths one piece longer.
LEMMA TokenLeads ==
    ASSUME NEW payload, JsonDocument(payload), NEW nodes \in SUBSET DOMAIN payload, NEW token,
           NEW p \in DOMAIN payload, NEW m \in 0 .. Len(p)
    PROVE  SubSeq(p, 1, m) \in NextNodes(payload, nodes, token) <=>
               \E l \in 0 .. Len(p) : SubSeq(p, 1, l) \in nodes /\ StepCut(payload, token, p, l, m)
<1>1. p \in Seq(STRING) /\ Len(p) \in Nat /\ \A l \in 0 .. Len(p) : SubSeq(p, 1, l) \in DOMAIN payload
    BY DEF JsonDocument
<1>2. \A l \in 0 .. Len(p) :
        /\ SubSeq(p, 1, l) \in Seq(STRING) /\ Len(SubSeq(p, 1, l)) = l
        /\ \A j \in 0 .. l : SubSeq(SubSeq(p, 1, l), 1, j) = SubSeq(p, 1, j)
    BY <1>1, FirstSteps
<1> DEFINE q == SubSeq(p, 1, m)
<1>3. CASE token.kind = "descend"
    <2>1. ASSUME q \in NextNodes(payload, nodes, token)
          PROVE  \E l \in 0 .. Len(p) : SubSeq(p, 1, l) \in nodes /\ StepCut(payload, token, p, l, m)
        <3>1. PICK n \in nodes : IsPrefix(n, q)
            BY <1>3, <2>1 DEF NextNodes, Below
        <3>2. n \in Seq(STRING) /\ Len(n) \in Nat
            BY DEF JsonDocument
        <3>3. Len(n) \in 0 .. m /\ SubSeq(n, 1, Len(n)) = SubSeq(p, 1, Len(n))
            BY <1>2, <3>1, <3>2 DEF IsPrefix
        <3>4. SubSeq(n, 1, Len(n)) = n
            BY <3>2, SubSeqProperties, SeqEqual
        <3>5. Len(n) \in 0 .. Len(p) /\ SubSeq(p, 1, Len(n)) \in nodes
            <4> DEFINE a == SubSeq(n, 1, Len(n))
                       b == SubSeq(p, 1, Len(n))
            <4>1. a = b /\ a = n
                BY <3>3, <3>4
            <4> HIDE DEF a, b
            <4>2. b \in nodes
                BY <4>1
            <4> QED BY <1>1, <3>3, <4>2 DEF b
        <3>6. StepCut(payload, token, p, Len(n), m)
            BY <1>3, <3>3 DEF StepCut
        <3> QED BY <3>5, <3>6
    <2>2. ASSUME NEW l \in 0 .. Len(p), SubSeq(p, 1, l) \in nodes, StepCut(payload, token, p, l, m)
          PROVE  q \in NextNodes(payload, nodes, token)
        <3>1. l \in 0 .. m
            BY <1>3, <2>2 DEF StepCut
        <3>2. IsPrefix(SubSeq(p, 1, l), q)
            BY <1>1, <1>2, <3>1 DEF IsPrefix
        <3> QED BY <1>1, <1>3, <2>2, <3>2 DEF NextNodes, Below
    <2> QED BY <2>1, <2>2
<1>4. CASE token.kind # "descend"
    <2>1. ASSUME NEW l \in Nat, m = l + 1
          PROVE  l \in 0 .. Len(p) /\ q # <<>> /\ Parent(q) = SubSeq(p, 1, l)
        <3>1. l \in 0 .. m /\ Len(q) = m
            <4>1. m \in 0 .. Len(p) /\ Len(q) = m
                BY <1>2
            <4> HIDE DEF q
            <4> QED BY <1>1, <2>1, <4>1
        <3>2. q # <<>>
            BY <2>1, <3>1
        <3>3. Parent(q) = SubSeq(q, 1, l)
            BY <2>1, <3>1 DEF Parent
        <3> HIDE DEF q
        <3> QED BY <1>1, <1>2, <3>1, <3>2, <3>3 DEF q
    <2>2. q # <<>> => m # 0
        BY <1>2
    <2>3. ASSUME q \in NextNodes(payload, nodes, token)
          PROVE  \E l \in 0 .. Len(p) : SubSeq(p, 1, l) \in nodes /\ StepCut(payload, token, p, l, m)
        <3>1. q # <<>> /\ Parent(q) \in nodes /\ Picks(payload, token, q)
            BY <1>4, <2>3 DEF NextNodes, Children
        <3>2. m - 1 \in Nat /\ m = (m - 1) + 1
            BY <1>1, <2>2, <3>1
        <3> HIDE DEF q
        <3> QED BY <1>4, <2>1, <3>1, <3>2 DEF StepCut, q
    <2>4. ASSUME NEW l \in 0 .. Len(p), SubSeq(p, 1, l) \in nodes, StepCut(payload, token, p, l, m)
          PROVE  q \in NextNodes(payload, nodes, token)
        <3>1. m = l + 1 /\ Picks(payload, token, q)
            BY <1>4, <2>4 DEF StepCut
        <3>2. q # <<>> /\ Parent(q) = SubSeq(p, 1, l)
            BY <2>1, <3>1
        <3>3. q \in DOMAIN payload
            BY <1>1
        <3> HIDE DEF q
        <3> QED BY <1>4, <2>4, <3>1, <3>2, <3>3 DEF NextNodes, Children
    <2> QED BY <2>3, <2>4
<1> QED BY <1>3, <1>4

\* The nodes that k tokens lead to are the paths they can be cut into, for every k.
LEMMA NodesCovered ==
    ASSUME NEW payload, JsonDocument(payload), NEW n \in Nat, NEW tokens, NEW nodes,
           nodes[0] = {<<>>},
           \A k \in 1 .. n : nodes[k] = NextNodes(payload, nodes[k - 1], tokens[k])
    PROVE  \A k \in 0 .. n : /\ nodes[k] \subseteq DOMAIN payload
                             /\ \A p \in DOMAIN payload : \A m \in 0 .. Len(p) :
                                    SubSeq(p, 1, m) \in nodes[k] <=> CutsTo(payload, tokens, k, p, m)
<1> DEFINE Good(k) == /\ nodes[k] \subseteq DOMAIN payload
                      /\ \A p \in DOMAIN payload : \A m \in 0 .. Len(p) :
                             SubSeq(p, 1, m) \in nodes[k] <=> CutsTo(payload, tokens, k, p, m)
           G == {k \in 0 .. n : Good(k)}
<1>1. Good(0)
    <2>1. nodes[0] \subseteq DOMAIN payload
        BY DEF JsonDocument
    <2>2. ASSUME NEW p \in DOMAIN payload, NEW m \in 0 .. Len(p)
          PROVE  SubSeq(p, 1, m) \in nodes[0] <=> CutsTo(payload, tokens, 0, p, m)
        <3>1. p \in Seq(STRING) /\ Len(p) \in Nat
            BY DEF JsonDocument
        <3>2. SubSeq(p, 1, m) \in Seq(STRING) /\ Len(SubSeq(p, 1, m)) = m
            BY <3>1, FirstSteps
        <3>3. SubSeq(p, 1, m) = <<>> <=> m = 0
            <4> DEFINE q == SubSeq(p, 1, m)
            <4> HIDE DEF q
            <4>1. q \in Seq(STRING) /\ Len(q) = m
                BY <3>2 DEF q
            <4>2. q = <<>> <=> m = 0
                BY <4>1
            <4> QED BY <4>2 DEF q
        <3>4. CutsTo(payload, tokens, 0, p, m) => m = 0
            BY <3>1 DEF CutsTo, IsCut
        <3>5. CutsTo(payload, tokens, 0, p, 0)
            <4> DEFINE cut == [i \in 0 .. 0 |-> 0]
            <4>1. cut \in [0 .. 0 -> 0 .. Len(p)] /\ IsCut(payload, tokens, 0, p, 0, cut)
                BY <3>1 DEF IsCut
            <4> QED BY <4>1 DEF CutsTo
        <3> QED BY <3>3, <3>4, <3>5
    <2> QED BY <2>1, <2>2
<1>2. ASSUME NEW k \in 1 .. n, Good(k - 1) PROVE Good(k)
    <2> DEFINE j == k - 1
    <2>1. k = j + 1 /\ j \in Nat
        OBVIOUS
    <2>2. nodes[k] = NextNodes(payload, nodes[j], tokens[k])
        OBVIOUS
    <2>3. Good(j)
        BY <1>2
    <2> HIDE DEF j
    <2>4. nodes[k] \subseteq DOMAIN payload
        BY <2>2 DEF NextNodes, Below, Children
    <2>5. ASSUME NEW p \in DOMAIN payload, NEW m \in 0 .. Len(p)
          PROVE  SubSeq(p, 1, m) \in nodes[k] <=> CutsTo(payload, tokens, k, p, m)
        <3>1. p \in Seq(STRING) /\ Len(p) \in Nat
            BY DEF JsonDocument
        <3>2. SubSeq(p, 1, m) \in nodes[k] <=>
                  \E l \in 0 .. Len(p) : SubSeq(p, 1, l) \in nodes[j] /\ StepCut(payload, tokens[k], p, l, m)
            <4>1. nodes[j] \in SUBSET DOMAIN payload
                BY <2>3
            <4>2. SubSeq(p, 1, m) \in NextNodes(payload, nodes[j], tokens[k]) <=>
                      \E l \in 0 .. Len(p) :
                          SubSeq(p, 1, l) \in nodes[j] /\ StepCut(payload, tokens[k], p, l, m)
                BY <4>1, TokenLeads
            <4> QED BY <2>2, <4>2
        <3>3. CutsTo(payload, tokens, k, p, m) <=>
                  \E l \in 0 .. Len(p) : /\ CutsTo(payload, tokens, j, p, l)
                                         /\ StepCut(payload, tokens[k], p, l, m)
            BY <2>1, <3>1, CutGrows
        <3> QED BY <2>3, <3>2, <3>3
    <2> QED BY <2>4, <2>5
<1> HIDE DEF Good
<1>3. 0 \in G /\ \A k \in 1 .. n : k - 1 \in G => k \in G
    BY <1>1, <1>2
<1>4. \A k \in 0 .. n : k \in G
    <2> HIDE DEF G
    <2> QED BY <1>3, StepByStep
<1> QED BY <1>4 DEF Good

\* Selecting is going through the tokens: the nodes after each of them.
LEMMA SelectSteps ==
    ASSUME NEW payload, JsonDocument(payload), NEW tokens \in Seq(Token)
    PROVE  \E nodes : /\ nodes[0] = {<<>>}
                      /\ \A k \in 1 .. Len(tokens) : nodes[k] = NextNodes(payload, nodes[k - 1], tokens[k])
                      /\ nodes[Len(tokens)] = Select(payload, tokens)
<1> DEFINE n == Len(tokens)
           A == SUBSET DOMAIN payload
           base == {<<>>}
           F == [x \in (1 .. n) \X A |-> NextNodes(payload, x[2], tokens[x[1]])]
           Is(it) == it = [s \in SUBSET (1 .. n) |->
                              IF s = {} THEN {<<>>}
                              ELSE NextNodes(payload, it[s \ {Greatest(s)}], tokens[Greatest(s)])]
<1>1. n \in Nat /\ DOMAIN tokens = 1 .. n /\ base \in A
    BY DEF JsonDocument
<1>2. \A N : \A t : NextNodes(payload, N, t) \in A
    BY DEF NextNodes, Below, Children
<1>3. F \in [(1 .. n) \X A -> A]
    BY <1>2
<1>4. \A x \in 1 .. n, N \in A : F[<<x, N>>] = NextNodes(payload, N, tokens[x])
    OBVIOUS
<1> HIDE DEF n, F, A
<1>5. PICK it0 \in [SUBSET (1 .. n) -> A] : Goes(it0, 1 .. n, base, F)
    BY <1>1, <1>3, GoingExists
<1>6. Is(it0)
    <2>1. ASSUME NEW s \in SUBSET (1 .. n), s # {}
          PROVE  F[<<Greatest(s), it0[s \ {Greatest(s)}]>>] = NextNodes(payload, it0[s \ {Greatest(s)}], tokens[Greatest(s)])
        <3>1. Greatest(s) \in s
            BY <1>1, <2>1, GreatestFacts
        <3>2. it0[s \ {Greatest(s)}] \in A
            BY <1>5
        <3> QED BY <1>4, <3>1, <3>2
    <2> QED BY <1>5, <2>1 DEF Goes
<1> DEFINE it == CHOOSE i : Is(i)
<1>7. Is(it)
    BY <1>6
<1>8. Select(payload, tokens) = it[1 .. n]
    BY <1>1 DEF Select, FoldLeft, MapThenFoldSet, Max, Greatest
<1> HIDE DEF it
<1>9. it[{}] = base
    BY <1>7
<1>10. ASSUME NEW k \in 1 .. n
       PROVE  it[1 .. k] = NextNodes(payload, it[1 .. k - 1], tokens[k])
    <2>1. /\ 1 .. k \in SUBSET (1 .. n) /\ 1 .. k # {}
          /\ Greatest(1 .. k) = k /\ (1 .. k) \ {k} = 1 .. k - 1
        BY <1>1, FirstPositions
    <2>2. it[1 .. k] = NextNodes(payload, it[(1 .. k) \ {Greatest(1 .. k)}], tokens[Greatest(1 .. k)])
        BY <1>7, <2>1
    <2> QED BY <2>1, <2>2
<1> DEFINE nodes == [k \in 0 .. n |-> it[1 .. k]]
<1>11. nodes[0] = {<<>>}
    <2>1. 1 .. 0 = {}
        OBVIOUS
    <2> QED BY <1>1, <1>9, <2>1
<1>12. \A k \in 1 .. n : nodes[k] = it[1 .. k] /\ nodes[k - 1] = it[1 .. k - 1]
    BY <1>1
<1>13. nodes[n] = it[1 .. n]
    BY <1>1
<1> HIDE DEF nodes
<1>14. \A k \in 1 .. n : nodes[k] = NextNodes(payload, nodes[k - 1], tokens[k])
    BY <1>10, <1>12
<1> QED BY <1>8, <1>11, <1>13, <1>14 DEF n

\* Whatever the document and the tokens, a selector selects what its tokens cover.
LEMMA SelectsWhatItCovers ==
    ASSUME NEW payload, JsonDocument(payload), NEW selector, selector.tokens \in Seq(Token)
    PROVE  SelectsExactly(payload, selector)
<1> DEFINE tokens == selector.tokens
           n == Len(tokens)
<1>1. n \in Nat /\ DOMAIN tokens = 1 .. n
    OBVIOUS
<1>2. PICK nodes : /\ nodes[0] = {<<>>}
                   /\ \A k \in 1 .. Len(tokens) : nodes[k] = NextNodes(payload, nodes[k - 1], tokens[k])
                   /\ nodes[Len(tokens)] = Select(payload, tokens)
    <2> HIDE DEF tokens
    <2> QED BY SelectSteps DEF tokens
<1> HIDE DEF tokens
<1>3. \A k \in 0 .. n : /\ nodes[k] \subseteq DOMAIN payload
                        /\ \A p \in DOMAIN payload : \A m \in 0 .. Len(p) :
                               SubSeq(p, 1, m) \in nodes[k] <=> CutsTo(payload, tokens, k, p, m)
    BY <1>1, <1>2, NodesCovered
<1>4. ASSUME NEW p \in DOMAIN payload
      PROVE  p \in Select(payload, tokens) <=> Covers(payload, tokens, p)
    <2>1. p \in Seq(STRING) /\ Len(p) \in Nat /\ Len(p) \in 0 .. Len(p)
        BY DEF JsonDocument
    <2>2. SubSeq(p, 1, Len(p)) = p
        BY <2>1, SubSeqProperties, SeqEqual
    <2>3. p \in Select(payload, tokens) <=> CutsTo(payload, tokens, n, p, Len(p))
        <3>1. n \in 0 .. n
            BY <1>1
        <3>2. SubSeq(p, 1, Len(p)) \in nodes[n] <=> CutsTo(payload, tokens, n, p, Len(p))
            BY <1>3, <2>1, <3>1
        <3> QED BY <1>2, <2>2, <3>2
    <2>4. CutsTo(payload, tokens, n, p, Len(p)) <=> Covers(payload, tokens, p)
        BY <1>1 DEF CutsTo, IsCut, Covers, StepCut
    <2> QED BY <2>3, <2>4
<1>5. Select(payload, tokens) \subseteq DOMAIN payload
    <2>1. n \in 0 .. n
        BY <1>1
    <2> QED BY <1>2, <1>3, <2>1
<1> QED BY <1>4, <1>5 DEF SelectsExactly, tokens

\* Going through the nodes token by token selects the paths that the tokens of the
\* selector cover, no more and no fewer, for every JSON document and every selector
\* that parses: wildcards, indices, names and descents in any order and number.
THEOREM SelectionIsExact == Spec => []SelectsCovered
<1>1. SelectsCovered
    <2>1. ASSUME NEW payload \in Payloads, NEW s \in {x \in Selectors : x.parses}
          PROVE  SelectsExactly(payload, s)
        BY SelectorsAssumption, SelectsWhatItCovers
    <2> QED BY <2>1 DEF SelectsCovered
<1> QED BY <1>1, PTL
================================================================================
