-------------------------- MODULE ExtractionProofs ---------------------------
(***************************************************************************)
(* Theorems about Extraction, for any sessions, claims, limits, cooldown   *)
(* and bounds: the types; the semaphore counts the jobs that hold it; two  *)
(* extractions of one session start at least the cooldown apart; however   *)
(* often a claim is repeated, few points of its key are active; and the    *)
(* scan leaves every known key an active point.                            *)
(***************************************************************************)
EXTENDS Extraction, FiniteSetTheorems, WellFoundedInduction, TLAPS

Holding == {"asking", "next", "write"}

\* Every job belongs to a stored turn of its own, and the semaphore holds one
\* token for each job that is past its admission.
JobsInv ==
    /\ turns \in [Session -> Seq(Claim)]
    /\ jobs \subseteq Job /\ IsFiniteSet(jobs)
    /\ \A j \in jobs : j.turn \in 1 .. Len(turns[j.session])
    /\ \A j, k \in jobs : j.session = k.session /\ j.turn = k.turn => j = k
    /\ \A j \in jobs : j.pc = "write" => j.facts # <<>>
    /\ SlotsAreCounted

\* What the cooldown map remembers of a session is when it was last let through;
\* what it has forgotten is older than twice the interval.
CooldownInv ==
    /\ clock \in Time
    /\ last \in [Session -> Time \cup {Never}]
    /\ admitted \in [Session -> Time \cup {Never}]
    /\ \A s \in Session : admitted[s] # Never =>
          /\ admitted[s] <= clock
          /\ last[s] = admitted[s] \/ clock - admitted[s] > 2 * Interval

Inv == JobsInv /\ CooldownInv

-----------------------------------------------------------------------------
(* The semaphore.                                                             *)

Held == {j \in jobs : j.pc \in Holding}

LEMMA HeldIsFinite ==
  ASSUME IsFiniteSet(jobs)
  PROVE  IsFiniteSet(Held) /\ Cardinality(Held) \in Nat
  <1>1. Held \subseteq jobs  BY DEF Held
  <1> QED  BY <1>1, FS_Subset, FS_CardinalityType

LEMMA SlotsAreHeld == SlotsAreCounted <=> slots = Cardinality(Held)
  BY DEF SlotsAreCounted, Held, Holding

\* A job that returns gives back the slot it holds, if it holds one.
LEMMA JobLeaves ==
  ASSUME JobsInv, NEW j \in jobs, jobs' = jobs \ {j}, turns' = turns,
         slots' = IF j.pc \in Holding THEN slots - 1 ELSE slots
  PROVE  JobsInv'
  <1>1. IsFiniteSet(Held) /\ Cardinality(Held) \in Nat
      BY HeldIsFinite DEF JobsInv
  <1>2. IsFiniteSet(jobs')
      BY FS_RemoveElement DEF JobsInv
  <1>3. Held' = Held \ {j}
      BY DEF Held
  <1>4. Cardinality(Held') = IF j \in Held THEN Cardinality(Held) - 1 ELSE Cardinality(Held)
      BY <1>1, <1>3, FS_RemoveElement
  <1>5. slots' = Cardinality(Held')
      BY <1>4, SlotsAreHeld DEF JobsInv, Held
  <1>6. SlotsAreCounted'
      BY <1>5 DEF SlotsAreCounted, Held, Holding
  <1> QED  BY <1>2, <1>6 DEF JobsInv

\* A job that goes on stays the job of its turn.
LEMMA JobGoesOn ==
  ASSUME JobsInv, NEW j \in jobs, NEW k \in Job, Become(j, k), turns' = turns,
         k.session = j.session, k.turn = j.turn,
         slots' = IF j.pc \in Holding THEN slots
                  ELSE IF k.pc \in Holding THEN slots + 1 ELSE slots,
         j.pc \in Holding => k.pc \in Holding, k.pc = "write" => k.facts # <<>>
  PROVE  JobsInv'
  <1>1. jobs' = (jobs \ {j}) \cup {k}
      BY DEF Become
  <1>2. IsFiniteSet(Held) /\ Cardinality(Held) \in Nat
      BY HeldIsFinite DEF JobsInv
  <1>3. k \notin jobs \ {j}
      BY DEF JobsInv
  <1>4. IsFiniteSet(jobs')
      BY <1>1, FS_RemoveElement, FS_AddElement DEF JobsInv
  <1>5. /\ IsFiniteSet(Held \ {j})
        /\ Cardinality(Held \ {j}) = IF j \in Held THEN Cardinality(Held) - 1 ELSE Cardinality(Held)
      BY <1>2, FS_RemoveElement
  <1>6. Held' = IF k.pc \in Holding THEN (Held \ {j}) \cup {k} ELSE Held \ {j}
      BY <1>1 DEF Held
  <1>7. k \notin Held \ {j}
      BY <1>3 DEF Held
  <1>8. Cardinality(Held') = IF k.pc \in Holding THEN Cardinality(Held \ {j}) + 1
                             ELSE Cardinality(Held \ {j})
      BY <1>5, <1>6, <1>7, FS_AddElement
  <1>9. slots' = Cardinality(Held')
      BY <1>2, <1>5, <1>8, SlotsAreHeld DEF JobsInv, Held
  <1>10. SlotsAreCounted'
      BY <1>9 DEF SlotsAreCounted, Held, Holding
  <1>11. jobs' \subseteq Job
      BY <1>1 DEF JobsInv
  <1>12. \A a, b \in jobs' : a.session = b.session /\ a.turn = b.turn => a = b
      BY <1>1 DEF JobsInv
  <1>13. \A a \in jobs' : a.turn \in 1 .. Len(turns'[a.session])
      BY <1>1 DEF JobsInv
  <1>14. \A a \in jobs' : a.pc = "write" => a.facts # <<>>
      BY <1>1 DEF JobsInv
  <1> QED  BY <1>4, <1>10, <1>11, <1>12, <1>13, <1>14 DEF JobsInv

\* The turn that is stored, and the job that may be started for it, are new.
LEMMA JobStarts ==
  ASSUME JobsInv, NEW s \in Session, NEW c \in Claim, NEW extract \in BOOLEAN,
         AppendTurn(s, c, extract)
  PROVE  JobsInv'
  <1> DEFINE n == Len(turns[s]) + 1
             k == [session |-> s, turn |-> n, pc |-> "spawned", facts |-> <<>>,
                   over |-> NoKey]
  <1>1. /\ turns' = [turns EXCEPT ![s] = Append(@, c)]
        /\ jobs' = IF extract THEN jobs \cup {k} ELSE jobs
        /\ slots' = slots
      BY DEF AppendTurn
  <1>2. turns[s] \in Seq(Claim) /\ n \in Nat /\ turns \in [Session -> Seq(Claim)]
      BY DEF JobsInv
  <1>3. /\ turns' \in [Session -> Seq(Claim)]
        /\ Len(turns'[s]) = n
        /\ \A t \in Session : t # s => turns'[t] = turns[t]
      BY <1>1, <1>2
  <1>4. k \in Job
      BY <1>2 DEF Job
  <1>5. \A j \in jobs : j.session \in Session /\ j.turn \in Nat
      BY DEF JobsInv, Job
  <1>6. \A j \in jobs : j.turn \in 1 .. Len(turns'[j.session])
      <2> SUFFICES ASSUME NEW j \in jobs PROVE j.turn \in 1 .. Len(turns'[j.session])
          OBVIOUS
      <2>1. CASE j.session = s
          BY <1>2, <1>3, <1>5, <2>1 DEF JobsInv
      <2>2. CASE j.session # s
          BY <1>3, <1>5, <2>2 DEF JobsInv
      <2> QED  BY <2>1, <2>2
  <1>7. \A j \in jobs : ~(j.session = k.session /\ j.turn = k.turn)
      BY <1>2, <1>5 DEF JobsInv
  <1>8. k.turn \in 1 .. Len(turns'[k.session])
      BY <1>2, <1>3
  <1>9. IsFiniteSet(jobs') /\ jobs' \subseteq Job
      BY <1>1, <1>4, FS_AddElement DEF JobsInv
  <1>10. Held' = Held
      <2>1. k.pc \notin Holding  BY DEF Holding
      <2> QED  BY <1>1, <2>1 DEF Held
  <1>11. SlotsAreCounted'
      <2>1. slots' = Cardinality(Held')
          BY <1>1, <1>10, SlotsAreHeld DEF JobsInv
      <2> QED  BY <2>1 DEF SlotsAreCounted, Held, Holding
  <1> QED  BY <1>1, <1>3, <1>6, <1>7, <1>8, <1>9, <1>11 DEF JobsInv

\* JobsInv looks at turns, jobs and slots only.
LEMMA JobsUntouched ==
  ASSUME JobsInv, turns' = turns, jobs' = jobs, slots' = slots
  PROVE  JobsInv'
  BY DEF JobsInv, SlotsAreCounted

LEMMA JobFields ==
  ASSUME JobsInv, NEW j \in jobs
  PROVE  /\ j \in Job
         /\ turns[j.session] \in Seq(Claim) /\ j.turn \in 1 .. Len(turns[j.session])
         /\ Content(j) \subseteq Claim
         /\ j.pc = "write" => j.facts # <<>>
  <1>1. j \in Job /\ turns[j.session] \in Seq(Claim)
        /\ j.turn \in 1 .. Len(turns[j.session])
      BY DEF JobsInv, Job
  <1>2. \A i \in DOMAIN turns[j.session] : turns[j.session][i] \in Claim
      BY <1>1
  <1>3. turns[j.session][j.turn] \in Claim
      BY <1>1
  <1>4. Content(j) \subseteq {turns[j.session][j.turn]}
            \cup {turns[j.session][i] : i \in DOMAIN turns[j.session]}
      BY DEF Content
  <1> QED  BY <1>1, <1>2, <1>3, <1>4 DEF JobsInv

LEMMA AnswersAreClaims ==
  ASSUME NEW shown, shown \subseteq Claim, NEW facts \in BoundedSeq(shown, MaxFacts)
  PROVE  facts \in Seq(Claim)
  <1>1. PICK m \in 0 .. MaxFacts : facts \in [1 .. m -> shown]
      BY DEF BoundedSeq, SeqOf
  <1>2. facts \in [1 .. m -> Claim]
      BY <1>1
  <1> QED  BY <1>1, <1>2

LEMMA HeadIsAClaim ==
  ASSUME NEW s \in Seq(Claim), s # <<>>
  PROVE  Head(s) \in Claim
  OBVIOUS

\* One step of a job: it leaves, or goes on as the job of the same turn.
LEMMA JobStep ==
  ASSUME JobsInv, NEW j \in jobs, Extract(j)
  PROVE  JobsInv'
  <1> USE DEF Holding
  <1>1. /\ j \in Job /\ Content(j) \subseteq Claim
        /\ j.pc = "write" => j.facts # <<>>
      BY JobFields
  <1>2. CASE Refuse(j) \/ Drop(j) \/ AskFails(j) \/ Return(j)
      <2>1. /\ jobs' = jobs \ {j} /\ turns' = turns
            /\ slots' = IF j.pc \in Holding THEN slots - 1 ELSE slots
          BY <1>2 DEF Refuse, Drop, AskFails, Return
      <2> QED  BY <2>1, JobLeaves
  <1>3. CASE TryAcquire(j)
      <2>1. [j EXCEPT !.pc = "cooled"] \in Job  BY <1>1 DEF Job
      <2> QED  BY <1>1, <1>3, <2>1, JobGoesOn DEF TryAcquire, Job
  <1>4. CASE TakeSlot(j)
      <2>1. [j EXCEPT !.pc = "asking"] \in Job  BY <1>1 DEF Job
      <2> QED  BY <1>1, <1>4, <2>1, JobGoesOn DEF TakeSlot, Job
  <1>5. CASE Ask(j)
      <2>1. PICK facts \in BoundedSeq(Content(j), MaxFacts) :
               Become(j, [j EXCEPT !.pc = "next", !.facts = facts])
          BY <1>5 DEF Ask
      <2>2. facts \in Seq(Claim)
          BY <1>1, <2>1, AnswersAreClaims
      <2>3. [j EXCEPT !.pc = "next", !.facts = facts] \in Job
          BY <1>1, <2>2 DEF Job
      <2> QED  BY <1>1, <1>5, <2>1, <2>3, JobGoesOn DEF Ask, Job
  <1>6. CASE Skip(j)
      <2>1. [j EXCEPT !.facts = Tail(@)] \in Job  BY <1>1, <1>6 DEF Job, Skip
      <2> QED  BY <1>1, <1>6, <2>1, JobGoesOn DEF Skip, Job
  <1>7. CASE Keep(j) \/ KeepBlindly(j)
      <2>1. PICK over \in Key \cup {NoKey} :
               Become(j, [j EXCEPT !.pc = "write", !.over = over])
          <3>1. j.facts # <<>> /\ j.facts \in Seq(Claim)
              BY <1>1, <1>7 DEF Job, Keep, KeepBlindly
          <3>2. Head(j.facts) \in Claim  BY <3>1
          <3>3. Head(j.facts).key \in Key  BY <3>2 DEF Claim
          <3> QED  BY <1>7, <3>3 DEF Keep, KeepBlindly
      <2>2. [j EXCEPT !.pc = "write", !.over = over] \in Job  BY <1>1 DEF Job
      <2>3. j.facts # <<>>  BY <1>7 DEF Keep, KeepBlindly
      <2> QED  BY <1>1, <1>7, <2>1, <2>2, <2>3, JobGoesOn DEF Keep, KeepBlindly, Job
  <1>8. CASE WriteFact(j) \/ WriteFails(j)
      <2>1. j.facts # <<>>  BY <1>1, <1>8 DEF WriteFact, WriteFails
      <2>2. Tail(j.facts) \in Seq(Claim)
          BY <1>1, <2>1 DEF Job
      <2>3. [j EXCEPT !.pc = "next", !.facts = Tail(@), !.over = NoKey] \in Job
          BY <1>1, <2>2 DEF Job
      <2> QED  BY <1>1, <1>8, <2>3, JobGoesOn DEF WriteFact, WriteFails, Job
  <1> QED  BY <1>2, <1>3, <1>4, <1>5, <1>6, <1>7, <1>8 DEF Extract

-----------------------------------------------------------------------------
(* The cooldown.                                                              *)

LEMMA TimesAreNumbers == Time \subseteq Nat /\ Never \notin Time /\ Interval \in Nat
  BY ExtractionAssumption DEF Time

\* CooldownInv looks at the clock and the two maps only.
LEMMA CooldownUntouched ==
  ASSUME CooldownInv, UNCHANGED <<clock, last, admitted>>
  PROVE  CooldownInv'
  BY DEF CooldownInv

\* What TryAcquire keeps in the map is still right: it forgets only entries
\* older than twice the interval.
LEMMA ForgettingIsHarmless ==
  ASSUME CooldownInv
  PROVE  /\ Remembered \in [Session -> Time \cup {Never}]
         /\ \A s \in Session : admitted[s] # Never =>
               Remembered[s] = admitted[s] \/ clock - admitted[s] > 2 * Interval
  <1>1. Remembered \in [Session -> Time \cup {Never}]
      BY DEF Remembered, CooldownInv
  <1>2. ASSUME NEW s \in Session, admitted[s] # Never, Remembered[s] # admitted[s]
        PROVE  clock - admitted[s] > 2 * Interval
      <2>1. /\ admitted[s] \in Nat /\ clock \in Nat /\ Interval \in Nat
            /\ last[s] = admitted[s] \/ clock - admitted[s] > 2 * Interval
          BY <1>2, TimesAreNumbers DEF CooldownInv
      <2>2. last[s] = admitted[s] => s \in Stale
          BY <1>2 DEF Remembered
      <2>3. s \in Stale => last[s] < clock - 2 * Interval
          BY DEF Stale
      <2> QED  BY <2>1, <2>2, <2>3
  <1> QED  BY <1>1, <1>2

LEMMA CooldownStep ==
  ASSUME CooldownInv, JobsInv, [Next]_vars
  PROVE  CooldownInv'
  <1>1. CASE Tick
      <2>1. clock' = clock + 1 /\ clock < MaxTime /\ UNCHANGED <<last, admitted>>
          BY <1>1 DEF Tick
      <2>2. clock \in 0 .. MaxTime /\ MaxTime \in Nat
          BY ExtractionAssumption DEF CooldownInv, Time
      <2>3. clock' \in Time  BY <2>1, <2>2 DEF Time
      <2>4. ASSUME NEW s \in Session, admitted[s] # Never
            PROVE  /\ admitted[s] <= clock'
                   /\ last[s] = admitted[s] \/ clock' - admitted[s] > 2 * Interval
          <3>1. admitted[s] \in Nat /\ Interval \in Nat
              BY <2>4, TimesAreNumbers DEF CooldownInv
          <3> QED  BY <2>1, <2>2, <2>4, <3>1 DEF CooldownInv
      <2> QED  BY <2>1, <2>3, <2>4 DEF CooldownInv
  <1>2. ASSUME NEW j \in jobs, Refuse(j)
        PROVE  CooldownInv'
      <2>1. last' = Remembered /\ UNCHANGED <<clock, admitted>>
          BY <1>2 DEF Refuse
      <2> QED  BY <2>1, ForgettingIsHarmless DEF CooldownInv
  <1>3. ASSUME NEW j \in jobs, TryAcquire(j)
        PROVE  CooldownInv'
      <2>1. j.session \in Session  BY DEF JobsInv, Job
      <2> DEFINE kept == IF Interval = 0 THEN last ELSE Remembered
      <2>2. /\ kept \in [Session -> Time \cup {Never}]
            /\ \A s \in Session : admitted[s] # Never =>
                  kept[s] = admitted[s] \/ clock - admitted[s] > 2 * Interval
          BY ForgettingIsHarmless DEF CooldownInv
      <2>3. /\ last' = [kept EXCEPT ![j.session] = clock]
            /\ admitted' = [admitted EXCEPT ![j.session] = clock] /\ clock' = clock
          BY <1>3 DEF TryAcquire
      <2> HIDE DEF kept
      <2>4. clock \in Nat /\ clock \in Time  BY TimesAreNumbers DEF CooldownInv
      <2>5. ASSUME NEW s \in Session, admitted'[s] # Never
            PROVE  /\ admitted'[s] <= clock'
                   /\ last'[s] = admitted'[s] \/ clock' - admitted'[s] > 2 * Interval
          <3>1. CASE s = j.session
              BY <2>2, <2>3, <2>4, <3>1 DEF CooldownInv
          <3>2. CASE s # j.session
              BY <2>2, <2>3, <2>5, <3>2 DEF CooldownInv
          <3> QED  BY <3>1, <3>2
      <2> QED  BY <2>2, <2>3, <2>4, <2>5 DEF CooldownInv
  <1>4. CASE UNCHANGED <<clock, last, admitted>>
      BY <1>4, CooldownUntouched
  <1>5. ASSUME NEW j \in jobs, Extract(j)
        PROVE  Refuse(j) \/ TryAcquire(j) \/ UNCHANGED <<clock, last, admitted>>
      BY <1>5 DEF Extract, Drop, TakeSlot, Ask, AskFails, Skip, Keep, KeepBlindly,
                  WriteFact, WriteFails, Return
  <1> QED  BY <1>1, <1>2, <1>3, <1>4, <1>5
           DEF Next, vars, AppendTurn, DeleteSession, Converse, StoreClaim,
               CrossReference, FindTarget, RetireTarget

-----------------------------------------------------------------------------
LEMMA InvAtFirst == Init => Inv
  <1> SUFFICES ASSUME Init PROVE Inv
      OBVIOUS
  <1>1. jobs = {} /\ slots = 0 /\ turns \in [Session -> Seq(Claim)]
      BY DEF Init
  <1>2. {j \in jobs : j.pc \in {"asking", "next", "write"}} = {}
      BY <1>1
  <1>3. SlotsAreCounted
      BY <1>1, <1>2, FS_EmptySet DEF SlotsAreCounted
  <1>4. JobsInv
      BY <1>1, <1>3, FS_EmptySet DEF JobsInv
  <1>5. 0 \in Time
      BY ExtractionAssumption DEF Time
  <1>6. CooldownInv
      BY <1>5 DEF Init, CooldownInv
  <1> QED  BY <1>4, <1>6 DEF Inv

LEMMA InvAfterStep == Inv /\ [Next]_vars => Inv'
  <1> SUFFICES ASSUME Inv, [Next]_vars PROVE Inv'
      OBVIOUS
  <1>1. JobsInv /\ CooldownInv
      BY DEF Inv
  <1>2. ASSUME NEW s \in Session, NEW c \in Claim, NEW extract \in BOOLEAN,
               AppendTurn(s, c, extract)
        PROVE  JobsInv'
      BY <1>1, <1>2, JobStarts
  <1>3. ASSUME NEW j \in jobs, Extract(j)
        PROVE  JobsInv'
      BY <1>1, <1>3, JobStep
  <1>4. turns' = turns /\ jobs' = jobs /\ slots' = slots => JobsInv'
      BY <1>1, JobsUntouched
  <1>5. JobsInv'
      BY <1>2, <1>3, <1>4 DEF Next, vars, DeleteSession, Tick, Converse, StoreClaim,
                              CrossReference, FindTarget, RetireTarget
  <1> QED  BY <1>1, <1>5, CooldownStep DEF Inv

LEMMA InvAlways == Spec => []Inv
  BY InvAtFirst, InvAfterStep, PTL DEF Spec

\* However jobs are refused, dropped, fail or run side by side, the tokens in
\* the semaphore are those of the jobs past admission (Extractor.Extract).
THEOREM SlotsAreAlwaysCounted == Spec => []SlotsAreCounted
  <1>1. Inv => SlotsAreCounted
      BY DEF Inv, JobsInv
  <1> QED  BY <1>1, InvAlways, PTL

\* A job that passes the cooldown is the one TryAcquire lets through.
LEMMA PassingIsTryAcquire ==
  ASSUME Inv, [Next]_vars, NEW j \in jobs, j.pc = "spawned",
         [j EXCEPT !.pc = "cooled"] \in jobs'
  PROVE  TryAcquire(j)
  <1> DEFINE k == [j EXCEPT !.pc = "cooled"]
  <1>1. /\ j \in Job /\ JobsInv
        /\ \A a, b \in jobs : a.session = b.session /\ a.turn = b.turn => a = b
      BY DEF Inv, JobsInv
  <1>2. k.session = j.session /\ k.turn = j.turn /\ k.pc = "cooled"
      BY <1>1 DEF Job
  <1>3. k \notin jobs
      BY <1>1, <1>2
  <1>4. PICK a \in jobs : Extract(a) \/ \E s \in Session, c \in Claim, x \in BOOLEAN : AppendTurn(s, c, x)
      <2>1. jobs' # jobs  BY <1>3
      <2> QED  BY <2>1 DEF Next, vars, DeleteSession, Tick, Converse, StoreClaim,
                           CrossReference, FindTarget, RetireTarget
  <1>5. ASSUME NEW s \in Session, NEW c \in Claim, NEW x \in BOOLEAN, AppendTurn(s, c, x)
        PROVE  FALSE
      BY <1>2, <1>3, <1>5 DEF AppendTurn
  <1>6. Extract(a)
      BY <1>4, <1>5
  <1>7. a \in Job
      BY <1>1 DEF JobsInv
  <1>8. TryAcquire(a)
      <2>1. ASSUME NEW b, Become(a, b), b.pc # "cooled"
            PROVE  FALSE
          BY <1>2, <1>3, <2>1 DEF Become
      <2>2. ASSUME Refuse(a) \/ Drop(a) \/ AskFails(a) \/ Return(a)
            PROVE  FALSE
          BY <1>3, <2>2 DEF Refuse, Drop, AskFails, Return
      <2>3. ~TakeSlot(a)
          BY <1>7, <2>1 DEF TakeSlot, Job
      <2>4. ~Ask(a)
          BY <1>7, <2>1 DEF Ask, Job
      <2>5. ~Skip(a)
          BY <1>7, <2>1 DEF Skip, Job
      <2>6. ~Keep(a) /\ ~KeepBlindly(a)
          BY <1>7, <2>1 DEF Keep, KeepBlindly, Job
      <2>7. ~WriteFact(a) /\ ~WriteFails(a)
          BY <1>7, <2>1 DEF WriteFact, WriteFails, Job
      <2> QED  BY <1>6, <2>2, <2>3, <2>4, <2>5, <2>6, <2>7 DEF Extract
  <1>9. k = [a EXCEPT !.pc = "cooled"]
      BY <1>3, <1>8 DEF TryAcquire, Become
  <1>10. a.session = j.session /\ a.turn = j.turn
      BY <1>2, <1>7, <1>9 DEF Job
  <1> QED  BY <1>1, <1>8, <1>10

LEMMA PassingIsLate ==
  ASSUME Inv, [Next]_vars, NEW j \in jobs, TryAcquire(j), admitted[j.session] # Never
  PROVE  clock - admitted[j.session] >= Interval
  <1> DEFINE s == j.session
  <1>1. s \in Session /\ CooldownInv
      BY DEF Inv, JobsInv, Job
  <1>2. /\ clock \in Nat /\ Interval \in Nat /\ admitted[s] \in Nat
        /\ admitted[s] <= clock
      BY <1>1, TimesAreNumbers DEF CooldownInv
  <1>3. CASE Interval = 0
      BY <1>2, <1>3
  <1>4. CASE ~CoolingDown(s)
      <2>1. Remembered[s] = admitted[s] \/ clock - admitted[s] > 2 * Interval
          BY <1>1, ForgettingIsHarmless
      <2> QED  BY <1>2, <1>4, <2>1 DEF CoolingDown
  <1> QED  BY <1>3, <1>4 DEF TryAcquire

\* Two extractions of one session start at least the cooldown apart, whatever
\* the map has forgotten in between (CooldownTracker.TryAcquire).
THEOREM ExtractionsKeepTheirDistance == Spec => CooldownHolds
  <1> DEFINE Late == \A j \in jobs :
               (/\ j.pc = "spawned" /\ [j EXCEPT !.pc = "cooled"] \in jobs'
                /\ admitted[j.session] # Never)
               => clock - admitted[j.session] >= Interval
  <1>1. Inv /\ [Next]_vars => [Late]_vars
      BY PassingIsTryAcquire, PassingIsLate
  <1> HIDE DEF Late
  <1>2. Spec => [][Late]_vars
      BY <1>1, InvAlways, PTL DEF Spec
  <1> QED  BY <1>2 DEF Late, CooldownHolds

-----------------------------------------------------------------------------
(* The points, and the scan that retires some of them.                        *)

\* An active point of the key stands behind another: the one the scan finds
\* first can be retired.
HasSpare(k) ==
    \E p, q \in points : /\ p.key = k /\ q.key = k
                         /\ p.id < q.id /\ q.status = "active"

\* What the scan, a job or a stored mark is about to have retired can be spared.
SpareInv ==
    /\ points \subseteq Point /\ conv \in Seq(Claim)
    /\ \A p, q \in points : p.id = q.id => p = q
    /\ \A p \in points : p.supersedes # NoKey => HasSpare(p.supersedes)
    /\ scan \subseteq Id \X Key
    /\ \A e \in scan : HasSpare(e[2])
    /\ mark \in Id \cup {0}
    /\ mark # 0 => \E p, q \in points : /\ p.id = mark /\ q.key = p.key
                                        /\ mark < q.id /\ q.status = "active"
    /\ \A j \in jobs : j.pc = "write" /\ j.over # NoKey =>
                          j.over = Head(j.facts).key /\ Known(j.over)

\* Ids are numbers; a key with a spare point is known.
LEMMA IdsAreNumbers == Id \subseteq Nat \ {0} /\ NoKey \notin Key
  BY ExtractionAssumption DEF Id

\* A new point disturbs nothing: the others keep their places.
LEMMA PointArrives ==
  ASSUME JobsInv, SpareInv, NEW c \in Claim, NEW status \in Statuses,
         NEW over \in Key \cup {NoKey}, NewPoint(c, status, over),
         over # NoKey => over = c.key /\ Known(over) /\ status = "active",
         UNCHANGED <<scan, mark>>, conv' \in Seq(Claim),
         \A j \in jobs' : j.pc = "write" => j \in jobs
  PROVE  SpareInv'
  <1>1. PICK i \in Id \ {p.id : p \in points} :
           points' = points \cup {[id |-> i, key |-> c.key, value |-> c.value,
                                   status |-> status, supersedes |-> over]}
      BY DEF NewPoint
  <1> DEFINE n == [id |-> i, key |-> c.key, value |-> c.value,
                   status |-> status, supersedes |-> over]
  <1>2. n \in Point /\ points' = points \cup {n} /\ points' \subseteq Point
      BY <1>1 DEF Claim, Point, SpareInv
  <1>3. \A p, q \in points' : p.id = q.id => p = q
      BY <1>1 DEF SpareInv
  <1>4. \A k : (HasSpare(k) => HasSpare(k)') /\ (Known(k) => Known(k)')
      BY <1>2 DEF HasSpare, Known
  <1>5. ASSUME NEW p \in points', p.supersedes # NoKey
        PROVE  HasSpare(p.supersedes)'
      <2>1. CASE p \in points
          BY <1>4, <1>5, <2>1 DEF SpareInv
      <2>2. CASE p = n
          <3>1. over = c.key /\ status = "active" /\ Known(c.key)
              BY <1>5, <2>2
          <3>2. PICK q \in points : q.key = c.key /\ q.status = "active"
              BY <3>1 DEF Known
          <3>3. q.id # i /\ q.id \in Nat /\ i \in Nat
              BY <1>1, IdsAreNumbers DEF SpareInv, Point
          <3>4. n.id < q.id \/ q.id < n.id
              BY <3>3
          <3> QED  BY <1>2, <2>2, <3>1, <3>2, <3>4 DEF HasSpare
      <2> QED  BY <1>2, <2>1, <2>2
  <1>6. scan' \subseteq Id \X Key /\ \A e \in scan' : HasSpare(e[2])'
      BY <1>4 DEF SpareInv
  <1>7. /\ mark' \in Id \cup {0}
        /\ mark' # 0 => \E p, q \in points' : /\ p.id = mark' /\ q.key = p.key
                                              /\ mark' < q.id /\ q.status = "active"
      BY <1>2 DEF SpareInv
  <1>8. \A j \in jobs' : j.pc = "write" /\ j.over # NoKey =>
                          j.over = Head(j.facts).key /\ Known(j.over)'
      BY <1>4 DEF SpareInv
  <1> QED  BY <1>2, <1>3, <1>5, <1>6, <1>7, <1>8 DEF SpareInv

\* Steps that leave the collection alone.
LEMMA SparesStay ==
  ASSUME SpareInv, points' = points, conv' \in Seq(Claim),
         scan' \subseteq Id \X Key, \A e \in scan' : HasSpare(e[2]),
         mark' = mark,
         \A j \in jobs' : j.pc = "write" /\ j.over # NoKey =>
             j \in jobs \/ (j.over = Head(j.facts).key /\ Known(j.over))
  PROVE  SpareInv'
  <1>1. \A k : (HasSpare(k)' <=> HasSpare(k)) /\ (Known(k)' <=> Known(k))
      BY DEF HasSpare, Known
  <1> QED  BY <1>1 DEF SpareInv

\* A point that decides without being similar is active.
LEMMA DecidersAreActive ==
  ASSUME NEW c, ~IsDuplicate(c), Deciding(c) # {}
  PROVE  Known(c.key)
  <1>1. PICK p \in Deciding(c) : TRUE
      OBVIOUS
  <1>2. p \in points /\ p.key = c.key /\ p.status = "active"
      BY <1>1 DEF Deciding, IsDuplicate, OfKey
  <1> QED  BY <1>2 DEF Known

LEMMA JobSpares ==
  ASSUME JobsInv, SpareInv, NEW j \in jobs, Extract(j)
  PROVE  SpareInv'
  <1>1. j \in Job /\ (j.pc = "write" => j.facts # <<>>)
      BY JobFields
  <1>2. CASE WriteFact(j)
      <2>1. j.facts # <<>> /\ j.facts \in Seq(Claim) /\ j.over \in Key \cup {NoKey}
          BY <1>1, <1>2 DEF WriteFact, Job
      <2>2. Head(j.facts) \in Claim
          BY <2>1
      <2>3. j.over # NoKey => j.over = Head(j.facts).key /\ Known(j.over)
          BY <1>2 DEF WriteFact, SpareInv
      <2>4. \A a \in jobs' : a.pc = "write" => a \in jobs
          BY <1>1, <1>2 DEF WriteFact, Become, Job
      <2>5. NewPoint(Head(j.facts), "active", j.over) /\ UNCHANGED <<scan, mark, conv>>
          BY <1>2 DEF WriteFact
      <2>6. conv' \in Seq(Claim)  BY <2>5 DEF SpareInv
      <2> QED  BY <2>1, <2>2, <2>3, <2>4, <2>5, <2>6, PointArrives DEF Statuses
  <1>3. CASE Keep(j)
      <2>1. \A a \in jobs' : a \in jobs \/
               (a.over # NoKey => a.over = Head(a.facts).key /\ Known(a.over))
          <3> DEFINE k == [j EXCEPT !.pc = "write",
                             !.over = IF Deciding(Head(j.facts)) = {} THEN NoKey
                                      ELSE Head(j.facts).key]
          <3>1. jobs' = (jobs \ {j}) \cup {k} /\ ~IsDuplicate(Head(j.facts))
              BY <1>3 DEF Keep, Become
          <3>2. k.facts = j.facts /\ (k.over # NoKey =>
                   k.over = Head(j.facts).key /\ Deciding(Head(j.facts)) # {})
              BY <1>1 DEF Job
          <3> HIDE DEF k
          <3> QED  BY <3>1, <3>2, DecidersAreActive
      <2>2. UNCHANGED <<points, scan, mark, conv>>
          BY <1>3 DEF Keep
      <2> QED  BY <2>1, <2>2, SparesStay DEF SpareInv
  <1>4. CASE ~WriteFact(j) /\ ~Keep(j)
      <2>1. UNCHANGED <<points, scan, mark, conv>>
          BY <1>4 DEF Extract, Refuse, TryAcquire, Drop, TakeSlot, Ask, AskFails, Skip,
                      KeepBlindly, WriteFails, Return
      <2>2. \A a \in jobs' : a.pc = "write" /\ a.over # NoKey => a \in jobs
          <3>1. CASE Refuse(j) \/ Drop(j) \/ AskFails(j) \/ Return(j)
              BY <3>1 DEF Refuse, Drop, AskFails, Return
          <3>2. CASE TryAcquire(j) \/ TakeSlot(j)
              BY <1>1, <3>2 DEF TryAcquire, TakeSlot, Become, Job
          <3>3. CASE Ask(j)
              BY <1>1, <3>3 DEF Ask, Become, Job
          <3>4. CASE Skip(j)
              BY <1>1, <3>4 DEF Skip, Become, Job
          <3>5. CASE KeepBlindly(j)
              BY <1>1, <3>5 DEF KeepBlindly, Become, Job
          <3>6. CASE WriteFails(j)
              BY <1>1, <3>6 DEF WriteFails, Become, Job
          <3> QED  BY <1>4, <3>1, <3>2, <3>3, <3>4, <3>5, <3>6 DEF Extract
      <2> QED  BY <2>1, <2>2, SparesStay DEF SpareInv
  <1> QED  BY <1>2, <1>3, <1>4

\* The target is the key's first point: whatever spares it stands behind it.
LEMMA TargetIsSpared ==
  ASSUME SpareInv, FindTarget
  PROVE  SpareInv'
  <1>1. PICK e \in scan :
           /\ mark' = LET hit == {p \in OfKey(e[2], 1) : p.status = "active"} IN
                      IF hit = {} THEN 0 ELSE (CHOOSE p \in hit : TRUE).id
           /\ scan' = scan \ {e}
      BY DEF FindTarget
  <1> DEFINE hit == {p \in OfKey(e[2], 1) : p.status = "active"}
  <1>2. UNCHANGED <<points, conv, jobs>>
      BY DEF FindTarget
  <1>3. CASE hit = {}
      <2>1. mark' = 0  BY <1>1, <1>3
      <2>2. \A k : (HasSpare(k)' <=> HasSpare(k)) /\ (Known(k)' <=> Known(k))
          BY <1>2 DEF HasSpare, Known
      <2> QED  BY <1>1, <1>2, <2>1, <2>2 DEF SpareInv
  <1>4. CASE hit # {}
      <2> DEFINE t == CHOOSE p \in hit : TRUE
      <2>1. t \in hit /\ mark' = t.id
          BY <1>1, <1>4
      <2> HIDE DEF t
      <2>2. t \in points /\ t.key = e[2] /\ Cardinality({i \in IdsOf(e[2]) : i < t.id}) < 1
          BY <2>1 DEF OfKey
      <2>3. PICK p, q \in points : /\ p.key = e[2] /\ q.key = e[2]
                                   /\ p.id < q.id /\ q.status = "active"
          BY DEF SpareInv, HasSpare
      <2>4. t.id \in Id /\ t.id \in Nat \ {0} /\ p.id \in Nat /\ q.id \in Nat
          BY <2>2, IdsAreNumbers DEF SpareInv, Point
      <2>5. ~(p.id < t.id)
          <3> DEFINE lower == {i \in IdsOf(e[2]) : i < t.id}
          <3>0. IdsOf(e[2]) \subseteq Nat
              BY IdsAreNumbers DEF IdsOf, SpareInv, Point
          <3>1. lower \subseteq Nat /\ \A i \in lower : i <= t.id
              BY <2>4, <3>0
          <3>2. IsFiniteSet(lower)
              BY <2>4, <3>1, FS_BoundedSetOfNaturals
          <3>3. Cardinality(lower) = 0
              BY <2>2, <3>2, FS_CardinalityType
          <3>4. lower = {}
              BY <3>2, <3>3, FS_EmptySet
          <3> QED  BY <2>3, <3>4 DEF IdsOf
      <2>6. t.id < q.id
          BY <2>3, <2>4, <2>5
      <2>7. mark' \in Id \cup {0}
          BY <2>1, <2>4
      <2>8. \A k : (HasSpare(k)' <=> HasSpare(k)) /\ (Known(k)' <=> Known(k))
          BY <1>2 DEF HasSpare, Known
      <2> QED  BY <1>1, <1>2, <2>1, <2>2, <2>3, <2>6, <2>7, <2>8 DEF SpareInv
  <1> QED  BY <1>3, <1>4

\* What Retired(mark) becomes, and that it leaves everybody a spare.
LEMMA RetirementSpares ==
  ASSUME SpareInv, RetireTarget
  PROVE  SpareInv' /\ \A k : Known(k) => Known(k)'
  <1> USE IdsAreNumbers
  <1>1. UNCHANGED <<conv, jobs, scan>> /\ mark' = 0 /\ mark # 0
      BY DEF RetireTarget
  <1>2. CASE points' = points
      <2>1. \A k : (HasSpare(k)' <=> HasSpare(k)) /\ (Known(k)' <=> Known(k))
          BY <1>2 DEF HasSpare, Known
      <2> QED  BY <1>1, <1>2, <2>1 DEF SpareInv
  <1>3. CASE points' # points
      <2>1. points' = (points \ Retired(mark))
                        \cup {[p EXCEPT !.status = "superseded"] : p \in Retired(mark)}
          BY <1>3 DEF RetireTarget
      <2>2. PICK t, s \in points : /\ t.id = mark /\ s.key = t.key
                                   /\ mark < s.id /\ s.status = "active"
          BY <1>1 DEF SpareInv
      <2>3. Retired(mark) = {t}
          BY <2>2 DEF Retired, SpareInv
      <2> DEFINE u == [t EXCEPT !.status = "superseded"]
      <2>4. points' = (points \ {t}) \cup {u}
          BY <2>1, <2>3
      <2>5. /\ t \in Point /\ s \in Point /\ u \in Point
            /\ u.id = t.id /\ u.key = t.key /\ u.supersedes = t.supersedes
          BY <2>2 DEF SpareInv, Point, Statuses
      <2>6. s \in points' /\ u \in points' /\ u.id < s.id
          BY <2>2, <2>4, <2>5 DEF Point
      <2> HIDE DEF u
      <2>7. points' \subseteq Point /\ \A p, q \in points' : p.id = q.id => p = q
          BY <2>2, <2>4, <2>5 DEF SpareInv
      <2>8. HasSpare(t.key)' /\ Known(t.key)'
          BY <2>2, <2>5, <2>6 DEF HasSpare, Known
      <2>9. ASSUME NEW k, HasSpare(k)
            PROVE  HasSpare(k)'
          <3>1. CASE k = t.key  BY <2>8, <3>1
          <3>2. CASE k # t.key
              BY <2>4, <2>9, <3>2 DEF HasSpare
          <3> QED  BY <3>1, <3>2
      <2>10. ASSUME NEW k, Known(k)
             PROVE  Known(k)'
          <3>1. CASE k = t.key  BY <2>8, <3>1
          <3>2. CASE k # t.key
              BY <2>4, <2>10, <3>2 DEF Known
          <3> QED  BY <3>1, <3>2
      <2>11. \A p \in points' : \E q \in points : p.supersedes = q.supersedes
          BY <2>4, <2>5, <2>2
      <2> QED  BY <1>1, <2>7, <2>9, <2>10, <2>11 DEF SpareInv
  <1> QED  BY <1>2, <1>3

LEMMA SparesAfterStep ==
  ASSUME JobsInv, SpareInv, [Next]_vars
  PROVE  SpareInv'
  <1>1. ASSUME NEW s \in Session, NEW c \in Claim, NEW x \in BOOLEAN, AppendTurn(s, c, x)
        PROVE  SpareInv'
      <2>1. UNCHANGED <<points, scan, mark, conv>> /\ \A j \in jobs' : j.pc = "write" => j \in jobs
          BY <1>1 DEF AppendTurn
      <2> QED  BY <2>1, SparesStay DEF SpareInv
  <1>2. CASE UNCHANGED <<points, jobs, scan, mark, conv>>
      BY <1>2, SparesStay DEF SpareInv
  <1>3. CASE Converse
      <2>1. PICK facts \in BoundedSeq(Claim, 1) : conv' = facts
          BY <1>3 DEF Converse
      <2>2. conv' \in Seq(Claim)
          <3>1. PICK m \in 0 .. 1 : facts \in [1 .. m -> Claim]
              BY DEF BoundedSeq, SeqOf
          <3> QED  BY <2>1, <3>1
      <2> QED  BY <1>3, <2>2, SparesStay DEF Converse, SpareInv
  <1>4. CASE StoreClaim
      <2>1. conv \in Seq(Claim) /\ conv # <<>> /\ conv' = Tail(conv)
          BY <1>4 DEF StoreClaim, SpareInv
      <2>2. conv' \in Seq(Claim) /\ Head(conv) \in Claim
          BY <2>1
      <2>3. CASE NewPoint(Head(conv), "needs_review", NoKey)
          BY <1>4, <2>2, <2>3, PointArrives DEF StoreClaim, Statuses
      <2>4. CASE UNCHANGED points
          BY <1>4, <2>2, <2>4, SparesStay DEF StoreClaim, SpareInv
      <2> QED  BY <1>4, <2>3, <2>4 DEF StoreClaim
  <1>5. CASE CrossReference
      <2>1. UNCHANGED <<points, jobs, mark, conv>>
            /\ scan' = {<<p.id, p.supersedes>> : p \in {p \in points : p.supersedes # NoKey}}
          BY <1>5 DEF CrossReference
      <2>2. \A e \in scan' : \E p \in points :
               p.supersedes # NoKey /\ e = <<p.id, p.supersedes>>
          BY <2>1
      <2>3. scan' \subseteq Id \X Key /\ \A e \in scan' : HasSpare(e[2])
          BY <2>2 DEF SpareInv, Point
      <2> QED  BY <2>1, <2>3, SparesStay DEF SpareInv
  <1> QED  BY <1>1, <1>2, <1>3, <1>4, <1>5, JobSpares, TargetIsSpared, RetirementSpares
           DEF Next, vars, DeleteSession, Tick

LEMMA SparesAlways == Spec => []SpareInv
  <1>1. Init => SpareInv
      BY DEF Init, SpareInv
  <1>2. Inv /\ SpareInv /\ [Next]_vars => SpareInv'
      BY SparesAfterStep DEF Inv
  <1> QED  BY <1>1, <1>2, InvAlways, PTL DEF Spec

\* Only the scan changes a point.
LEMMA OnlyTheScanRetires ==
  ASSUME [Next]_vars
  PROVE  RetireTarget \/ points \subseteq points'
  <1>1. ASSUME NEW j \in jobs, Extract(j)
        PROVE  points \subseteq points'
      BY <1>1 DEF Extract, Refuse, TryAcquire, Drop, TakeSlot, Ask, AskFails, Skip,
                  Keep, KeepBlindly, WriteFact, NewPoint, WriteFails, Return
  <1>2. StoreClaim => points \subseteq points'
      BY DEF StoreClaim, NewPoint
  <1> QED  BY <1>1, <1>2 DEF Next, vars, AppendTurn, DeleteSession, Tick, Converse,
                             CrossReference, FindTarget

\* No key loses its last active point to the scan, wherever in its order new
\* points turn up (supersedeCrossReference).
THEOREM KnownKeysStayKnown == Spec => KeysStayKnown
  <1> DEFINE Stay == \A k \in Key : Known(k) => Known(k)'
  <1>1. ASSUME Inv, SpareInv, [Next]_vars
        PROVE  Stay
      <2>1. CASE points \subseteq points'
          BY <2>1 DEF Known
      <2>2. CASE RetireTarget
          BY <1>1, <2>2, RetirementSpares
      <2> QED  BY <1>1, <2>1, <2>2, OnlyTheScanRetires
  <1>2. Inv /\ SpareInv /\ [Next]_vars => [Stay]_vars
      BY <1>1
  <1> HIDE DEF Stay
  <1>3. Spec => [][Stay]_vars
      BY <1>2, InvAlways, SparesAlways, PTL DEF Spec
  <1> QED  BY <1>3 DEF Stay, KeysStayKnown

-----------------------------------------------------------------------------
(* Repeated claims.                                                           *)

\* Of a non-empty set of numbers one is the least: the ordering of intervals by
\* inclusion is well founded.
LEMMA LeastExists ==
  ASSUME NEW S, S \subseteq Nat, S # {}
  PROVE  \E m \in S : \A n \in S : m <= n
  <1> PICK top \in S : TRUE
      OBVIOUS
  <1> DEFINE All == 0 .. top
             R == StrictSubsetOrdering(All)
             F == FiniteSubsetsOf(All)
             T == {0 .. n : n \in S \cap All}
  <1>1. IsFiniteSet(All) /\ F = SUBSET All
      <2>1. top \in Int  OBVIOUS
      <2>2. IsFiniteSet(All)  BY <2>1, FS_Interval
      <2> QED  BY <2>2, FS_FiniteSubsetsOfFinite
  <1>2. IsWellFoundedOn(R, F)
      BY FS_StrictSubsetOrderingWellFounded
  <1>3. T \subseteq F /\ T # {}
      BY <1>1
  <1>4. PICK X \in T : \A Y \in T : <<Y, X>> \notin R
      <2> HIDE DEF R, F, T
      <2> QED  BY <1>2, <1>3, WFMin
  <1>5. PICK m \in S \cap All : X = 0 .. m
      BY <1>4
  <1>6. ASSUME NEW n \in S, n < m
        PROVE  FALSE
      <2>1. n \in S \cap All  BY <1>6
      <2>2. 0 .. n \in T  BY <2>1
      <2>3. <<0 .. n, X>> \in R
          BY <1>5, <1>6, <2>1 DEF StrictSubsetOrdering
      <2> QED  BY <1>4, <2>2, <2>3
  <1> QED  BY <1>6

Active(k)  == {p \in points : p.key = k /\ p.status = "active"}
ClaimOf(p) == [key |-> p.key, value |-> p.value]

\* The cases RepeatsAreSkipped is about.
Repeats(k) ==
    /\ Vectors
    /\ \A c, d \in Said : c.key = k /\ d.key = k => c = d
    /\ Cardinality(IdsOf(k)) <= 10

\* The jobs about to store a point of the key.
Writers(k) == {j \in jobs : j.pc = "write" /\ Head(j.facts).key = k}

\* Points that are active and points about to be are few.
Few(k) == Cardinality(Active(k)) + Cardinality(Writers(k)) <= limit + blind[k]

\* What is active, and what jobs are about to store, was said.
HeardInv ==
    /\ limit \in Limits /\ slots <= limit /\ blind \in [Key -> Nat]
    /\ \A j \in jobs : j.facts \in Seq(Said)
    /\ \A p \in points : p.status = "active" => ClaimOf(p) \in Said
    /\ \A k \in Key : Repeats(k) => Few(k)

\* Sessions, points and their ids only ever grow.
LEMMA PointsAreKept ==
  ASSUME JobsInv, SpareInv, [Next]_vars
  PROVE  \A p \in points : \E q \in points' :
            q.id = p.id /\ q.key = p.key /\ q.value = p.value
  <1>1. ASSUME RetireTarget
        PROVE  \A p \in points : \E q \in points' :
                  q.id = p.id /\ q.key = p.key /\ q.value = p.value
      <2>1. CASE points' = points
          BY <2>1
      <2>2. CASE points' = (points \ Retired(mark))
                      \cup {[p EXCEPT !.status = "superseded"] : p \in Retired(mark)}
          <3> SUFFICES ASSUME NEW p \in points
                       PROVE  \E q \in points' :
                                 q.id = p.id /\ q.key = p.key /\ q.value = p.value
              OBVIOUS
          <3>1. CASE p \notin Retired(mark)
              BY <2>2, <3>1
          <3>2. CASE p \in Retired(mark)
              <4>1. [p EXCEPT !.status = "superseded"] \in points'
                  BY <2>2, <3>2
              <4>2. p \in Point  BY DEF SpareInv
              <4> QED  BY <4>1, <4>2 DEF Point
          <3> QED  BY <3>1, <3>2
      <2> QED  BY <1>1, <2>1, <2>2 DEF RetireTarget
  <1>2. CASE points \subseteq points'
      BY <1>2
  <1> QED  BY <1>1, <1>2, OnlyTheScanRetires

\* What was said stays said.
LEMMA SaidStays ==
  ASSUME JobsInv, turns' = turns \/ \E s \in Session, c \in Claim : turns' = [turns EXCEPT ![s] = Append(@, c)]
  PROVE  Said \subseteq Said'
  <1> SUFFICES ASSUME NEW s \in Session, NEW i \in DOMAIN turns[s]
               PROVE  i \in DOMAIN turns'[s] /\ turns'[s][i] = turns[s][i]
      BY DEF Said, ToSet
  <1>1. turns \in [Session -> Seq(Claim)] /\ turns[s] \in Seq(Claim)
      BY DEF JobsInv
  <1> QED  BY <1>1

LEMMA TurnsGrow ==
  ASSUME [Next]_vars
  PROVE  turns' = turns \/ \E s \in Session, c \in Claim : turns' = [turns EXCEPT ![s] = Append(@, c)]
  BY DEF Next, vars, AppendTurn, DeleteSession, Tick, Extract, Refuse, TryAcquire, Drop,
         TakeSlot, Ask, AskFails, Skip, Keep, KeepBlindly, WriteFact, WriteFails, Return,
         Converse, StoreClaim, CrossReference, FindTarget, RetireTarget

\* A repetition afterwards was one before.
LEMMA RepeatsBefore ==
  ASSUME JobsInv, SpareInv, [Next]_vars, SpareInv',
         NEW k \in Key, Repeats(k)'
  PROVE  Repeats(k)
  <1>2. Said \subseteq Said'
      BY TurnsGrow, SaidStays
  <1>3. IdsOf(k) \subseteq IdsOf(k)'
      BY PointsAreKept DEF IdsOf
  <1>4. IsFiniteSet(IdsOf(k)') /\ IsFiniteSet(IdsOf(k))
      <2>1. IdsOf(k)' \subseteq Id  BY DEF IdsOf, SpareInv, Point
      <2>2. IsFiniteSet(Id)  BY ExtractionAssumption, FS_Interval DEF Id
      <2> QED  BY <1>3, <2>1, <2>2, FS_Subset
  <1>5. Cardinality(IdsOf(k)) <= Cardinality(IdsOf(k)')
      BY <1>3, <1>4, FS_Subset
  <1>6. Cardinality(IdsOf(k)) \in Nat /\ Cardinality(IdsOf(k)') \in Nat
      BY <1>4, FS_CardinalityType
  <1> QED  BY <1>2, <1>5, <1>6 DEF Repeats

LEMMA ActiveIsFinite ==
  ASSUME SpareInv, NEW k
  PROVE  IsFiniteSet(Active(k)) /\ Cardinality(Active(k)) \in Nat
  <1> DEFINE f == [p \in Active(k) |-> p.id]
  <1>1. f \in [Active(k) -> Id] /\ IsFiniteSet(Id)
      BY ExtractionAssumption, FS_Interval DEF Active, SpareInv, Point, Id
  <1>2. \A p, q \in Active(k) : f[p] = f[q] => p = q
      BY DEF Active, SpareInv
  <1>3. f \in Injection(Active(k), Id)
      <2> HIDE DEF f
      <2> QED  BY <1>1, <1>2 DEF Injection, IsInjective
  <1> HIDE DEF f
  <1> QED  BY <1>1, <1>3, FS_Injection, FS_CardinalityType

\* Every job about to store a point holds a slot.
LEMMA WritersAreFew ==
  ASSUME JobsInv, NEW k
  PROVE  /\ IsFiniteSet(Writers(k)) /\ Cardinality(Writers(k)) \in Nat
         /\ slots \in Nat /\ Cardinality(Writers(k)) <= slots
  <1>1. IsFiniteSet(Held) /\ Cardinality(Held) \in Nat /\ slots = Cardinality(Held)
      BY HeldIsFinite, SlotsAreHeld DEF JobsInv
  <1>2. Writers(k) \in SUBSET Held
      BY DEF Writers, Held, Holding
  <1> QED  BY <1>1, <1>2, FS_Subset, FS_CardinalityType

\* Nothing new is active or about to be.
LEMMA FewStay ==
  ASSUME JobsInv, SpareInv, HeardInv, NEW k \in Key, Few(k),
         Active(k)' \subseteq Active(k), Writers(k)' \subseteq Writers(k),
         limit' = limit, blind'[k] \in Nat, blind[k] <= blind'[k]
  PROVE  Few(k)'
  <1>1. /\ IsFiniteSet(Active(k)) /\ Cardinality(Active(k)) \in Nat
        /\ IsFiniteSet(Writers(k)) /\ Cardinality(Writers(k)) \in Nat
      BY ActiveIsFinite, WritersAreFew
  <1>2. /\ IsFiniteSet(Active(k)') /\ Cardinality(Active(k)') <= Cardinality(Active(k))
        /\ IsFiniteSet(Writers(k)') /\ Cardinality(Writers(k)') <= Cardinality(Writers(k))
      BY <1>1, FS_Subset
  <1>3. Cardinality(Active(k)') \in Nat /\ Cardinality(Writers(k)') \in Nat
      BY <1>2, FS_CardinalityType
  <1>4. limit \in Nat /\ blind[k] \in Nat
      BY ExtractionAssumption DEF HeardInv
  <1> QED  BY <1>1, <1>2, <1>3, <1>4 DEF Few

\* A new value of a key that says one thing only has no active point: that
\* point would decide, or a similar one before it.
LEMMA NewValueIsUnknown ==
  ASSUME SpareInv, HeardInv, NEW c \in Said, c \in Claim, Repeats(c.key), ~IsDuplicate(c)
  PROVE  Active(c.key) = {}
  <1> SUFFICES ASSUME NEW p \in Active(c.key)
               PROVE  FALSE
      OBVIOUS
  <1>1. p \in points /\ p.key = c.key /\ p.status = "active" /\ p \in Point
      BY DEF Active, SpareInv
  <1>2. ClaimOf(p) \in Said /\ ClaimOf(p).key = c.key /\ ClaimOf(p).value = p.value
      BY <1>1 DEF HeardInv, ClaimOf
  <1>3. p.value = c.value
      BY <1>2 DEF Repeats
  <1>4. <<c.value, c.value>> \in Similar
      BY ExtractionAssumption DEF Claim
  <1> DEFINE seen == OfKey(c.key, 10)
             D == {q \in seen : <<c.value, q.value>> \in Similar \/ q.status = "active"}
             I == {q.id : q \in D}
  <1>5. IsFiniteSet(IdsOf(c.key)) /\ IdsOf(c.key) \subseteq Nat
      <2>1. IdsOf(c.key) \subseteq Id  BY DEF IdsOf, SpareInv, Point
      <2>2. IsFiniteSet(Id)  BY ExtractionAssumption, FS_Interval DEF Id
      <2> QED  BY <2>1, <2>2, FS_Subset, IdsAreNumbers
  <1>6. \A q \in points : q.key = c.key => q \in seen
      <2> SUFFICES ASSUME NEW q \in points, q.key = c.key
                   PROVE  Cardinality({i \in IdsOf(c.key) : i < q.id}) < 10
          BY DEF OfKey
      <2> DEFINE lower == {i \in IdsOf(c.key) : i < q.id}
      <2>1. q.id \in IdsOf(c.key) /\ q.id \in Nat
          BY <1>5 DEF IdsOf
      <2>2. /\ IsFiniteSet(IdsOf(c.key) \ {q.id})
            /\ Cardinality(IdsOf(c.key) \ {q.id}) = Cardinality(IdsOf(c.key)) - 1
          BY <1>5, <2>1, FS_RemoveElement
      <2>3. lower \in SUBSET (IdsOf(c.key) \ {q.id})
          BY <2>1
      <2>4. Cardinality(lower) <= Cardinality(IdsOf(c.key)) - 1 /\ IsFiniteSet(lower)
          BY <2>2, <2>3, FS_Subset
      <2>5. Cardinality(lower) \in Nat /\ Cardinality(IdsOf(c.key)) \in Nat
          BY <1>5, <2>4, FS_CardinalityType
      <2>6. Cardinality(IdsOf(c.key)) <= 10
          BY DEF Repeats
      <2> QED  BY <2>4, <2>5, <2>6
  <1>7. p \in D
      BY <1>1, <1>6
  <1>8. I \subseteq Nat /\ I # {}
      <2>1. \A q \in D : q.id \in Nat
          BY IdsAreNumbers DEF OfKey, SpareInv, Point
      <2> QED  BY <1>7, <2>1
  <1>9. PICK m \in I : \A n \in I : m <= n
      BY <1>8, LeastExists
  <1>10. PICK q \in D : q.id = m
      BY <1>9
  <1>11. \A s \in seen : s.id < q.id => s \notin D
      <2> SUFFICES ASSUME NEW s \in D, s.id < q.id  PROVE FALSE
          OBVIOUS
      <2>1. s.id \in I /\ s.id \in Nat /\ m \in Nat
          BY <1>8
      <2>2. m <= s.id  BY <1>9, <2>1
      <2> QED  BY <1>10, <2>1, <2>2
  <1>12. q \in Deciding(c)
      BY <1>10, <1>11 DEF Deciding, Repeats
  <1>13. <<c.value, q.value>> \notin Similar
      BY <1>12 DEF IsDuplicate
  <1>14. q \in points /\ q.key = c.key /\ q.status = "active"
      BY <1>10, <1>13 DEF OfKey
  <1>15. ClaimOf(q) \in Said /\ ClaimOf(q).key = c.key /\ ClaimOf(q).value = q.value
      BY <1>14 DEF HeardInv, ClaimOf
  <1>16. q.value = c.value
      BY <1>15 DEF Repeats
  <1> QED  BY <1>4, <1>13, <1>16

\* The parts of HeardInv that no step of a job disturbs by itself.
LEMMA FewStayFew ==
  ASSUME JobsInv, SpareInv, HeardInv, [Next]_vars, SpareInv',
         points' = points \/ RetireTarget, limit' = limit, blind' = blind,
         \A j \in jobs' : j.pc = "write" => j \in jobs
  PROVE  \A k \in Key : Repeats(k)' => Few(k)'
  <1> SUFFICES ASSUME NEW k \in Key, Repeats(k)'
               PROVE  Few(k)'
      OBVIOUS
  <1>1. Few(k)
      BY RepeatsBefore DEF HeardInv
  <1>2. Active(k)' \subseteq Active(k)
      <2>1. CASE points' = points
          BY <2>1 DEF Active
      <2>2. CASE points' # points
          <3>1. points' = (points \ Retired(mark))
                      \cup {[p EXCEPT !.status = "superseded"] : p \in Retired(mark)}
              BY <2>2 DEF RetireTarget
          <3>2. \A p \in points' : p \in points \/ p.status = "superseded"
              BY <3>1 DEF SpareInv, Point, Retired
          <3> QED  BY <3>2 DEF Active
      <2> QED  BY <2>1, <2>2
  <1>3. Writers(k)' \subseteq Writers(k)
      BY DEF Writers
  <1>4. blind'[k] \in Nat /\ blind[k] <= blind'[k]
      BY DEF HeardInv
  <1> QED  BY <1>1, <1>2, <1>3, <1>4, FewStay

LEMMA HeardAfterJob ==
  ASSUME JobsInv, SpareInv, HeardInv, JobsInv', SpareInv', NEW j \in jobs, Extract(j), [Next]_vars
  PROVE  HeardInv'
  <1>1. /\ j \in Job /\ (j.pc = "write" => j.facts # <<>>)
        /\ j.facts \in Seq(Said) /\ blind \in [Key -> Nat]
        /\ turns[j.session] \in Seq(Claim) /\ j.turn \in 1 .. Len(turns[j.session])
      BY JobFields DEF HeardInv
  <1>2. turns' = turns /\ limit' = limit
      BY DEF Extract, Refuse, TryAcquire, Drop, TakeSlot, Ask, AskFails, Skip,
             Keep, KeepBlindly, WriteFact, WriteFails, Return
  <1>3. Said' = Said
      BY <1>2 DEF Said
  <1>4. slots' <= limit'
      <2>1. slots \in Nat /\ limit \in Nat
          <3>1. Cardinality(Held) \in Nat  BY HeldIsFinite DEF JobsInv
          <3> QED  BY <3>1, SlotsAreHeld, ExtractionAssumption DEF JobsInv, HeardInv
      <2>2. slots <= limit  BY DEF HeardInv
      <2>3. CASE TakeSlot(j)
          BY <1>2, <2>1, <2>3 DEF TakeSlot
      <2>4. CASE ~TakeSlot(j)
          <3>1. slots' \in {slots, slots - 1}
              BY <2>4 DEF Extract, Refuse, TryAcquire, Drop, Ask, AskFails, Skip, Keep,
                          KeepBlindly, WriteFact, WriteFails, Return
          <3> QED  BY <1>2, <2>1, <2>2, <3>1
      <2> QED  BY <2>3, <2>4
  <1>5. /\ blind' \in [Key -> Nat]
        /\ \A k \in Key : blind[k] <= blind'[k] /\ limit \in Nat
        /\ ~KeepBlindly(j) => blind' = blind
      <2>1. CASE KeepBlindly(j)
          <3>1. j.facts # <<>> /\ j.facts \in Seq(Claim)
                /\ blind' = [blind EXCEPT ![Head(j.facts).key] = @ + 1]
              BY <1>1, <2>1 DEF KeepBlindly, Job
          <3>2. Head(j.facts).key \in Key
              BY <3>1, HeadIsAClaim DEF Claim
          <3> QED  BY <1>1, <2>1, <3>1, <3>2, ExtractionAssumption DEF HeardInv
      <2>2. CASE ~KeepBlindly(j)
          <3>1. blind' = blind
              BY <2>2 DEF Extract, Refuse, TryAcquire, Drop, TakeSlot, Ask, AskFails, Skip,
                          Keep, WriteFact, WriteFails, Return
          <3> QED  BY <1>1, <2>2, <3>1, ExtractionAssumption DEF HeardInv
      <2> QED  BY <2>1, <2>2
  <1>6. \A a \in jobs' : a.facts \in Seq(Said)
      <2>1. CASE Refuse(j) \/ Drop(j) \/ AskFails(j) \/ Return(j)
          BY <2>1 DEF Refuse, Drop, AskFails, Return, HeardInv
      <2>2. CASE Ask(j)
          <3>1. PICK facts \in BoundedSeq(Content(j), MaxFacts) :
                   Become(j, [j EXCEPT !.pc = "next", !.facts = facts])
              BY <2>2 DEF Ask
          <3>2. Content(j) \subseteq Said
              <4>1. j.session \in Session /\ j.turn \in DOMAIN turns[j.session]
                  BY <1>1 DEF Job
              <4> QED  BY <4>1 DEF Content, Said, ToSet
          <3>3. PICK m \in 0 .. MaxFacts : facts \in [1 .. m -> Content(j)]
              BY DEF BoundedSeq, SeqOf
          <3>4. facts \in [1 .. m -> Said]
              BY <3>2, <3>3
          <3>5. facts \in Seq(Said)
              BY <3>3, <3>4
          <3> QED  BY <1>1, <3>1, <3>5 DEF Become, Job, HeardInv
      <2>3. ASSUME NEW k, Become(j, k), k.facts = j.facts
            PROVE  \A a \in jobs' : a.facts \in Seq(Said)
          BY <2>3 DEF Become, HeardInv
      <2>4. ASSUME NEW k, Become(j, k), k.facts = Tail(j.facts), j.facts # <<>>
            PROVE  \A a \in jobs' : a.facts \in Seq(Said)
          <3>1. Tail(j.facts) \in Seq(Said)  BY <1>1, <2>4
          <3> QED  BY <2>4, <3>1 DEF Become, HeardInv
      <2>5. CASE TryAcquire(j) \/ TakeSlot(j)
          BY <1>1, <2>3, <2>5 DEF TryAcquire, TakeSlot, Job
      <2>6. CASE Keep(j) \/ KeepBlindly(j)
          BY <1>1, <2>3, <2>6 DEF Keep, KeepBlindly, Job
      <2>7. CASE Skip(j)
          BY <1>1, <2>4, <2>7 DEF Skip, Job
      <2>8. CASE WriteFact(j) \/ WriteFails(j)
          BY <1>1, <2>4, <2>8 DEF WriteFact, WriteFails, Job
      <2> QED  BY <2>1, <2>2, <2>5, <2>6, <2>7, <2>8 DEF Extract
  <1>7. CASE WriteFact(j)
      <2> DEFINE c == Head(j.facts)
      <2>1. /\ j.pc = "write" /\ j.facts # <<>> /\ c \in Said /\ c \in Claim
          BY <1>1, <1>7 DEF WriteFact, Job
      <2>2. PICK i \in Id : points' = points \cup
               {[id |-> i, key |-> c.key, value |-> c.value,
                 status |-> "active", supersedes |-> j.over]}
          BY <1>7 DEF WriteFact, NewPoint
      <2> DEFINE n == [id |-> i, key |-> c.key, value |-> c.value,
                       status |-> "active", supersedes |-> j.over]
      <2>3. ClaimOf(n) = c
          BY <2>1 DEF ClaimOf, Claim
      <2>4. \A p \in points' : p.status = "active" => ClaimOf(p) \in Said
          BY <2>1, <2>2, <2>3 DEF HeardInv
      <2>5. \A a \in jobs' : a.pc = "write" => a \in jobs \ {j}
          BY <1>1, <1>7 DEF WriteFact, Become, Job
      <2>6. ASSUME NEW k \in Key, Repeats(k)'
            PROVE  Few(k)'
          <3>1. Few(k)
              BY <2>6, RepeatsBefore DEF HeardInv
          <3>2. CASE k # c.key
              <4>1. Active(k)' \subseteq Active(k)
                  BY <2>2, <3>2 DEF Active
              <4>2. Writers(k)' \subseteq Writers(k)
                  BY <2>5 DEF Writers
              <4> QED  BY <1>2, <1>5, <3>1, <4>1, <4>2, FewStay
          \* The point that was to be written is written.
          <3>3. CASE k = c.key
              <4>1. /\ IsFiniteSet(Active(k)) /\ Cardinality(Active(k)) \in Nat
                    /\ IsFiniteSet(Writers(k)) /\ Cardinality(Writers(k)) \in Nat
                  BY ActiveIsFinite, WritersAreFew
              <4>2. Active(k)' \subseteq Active(k) \cup {n}
                  BY <2>2 DEF Active
              <4>3. j \in Writers(k) /\ Writers(k)' \subseteq Writers(k) \ {j}
                  BY <2>1, <2>5, <3>3 DEF Writers
              <4>4. /\ IsFiniteSet(Active(k) \cup {n})
                    /\ Cardinality(Active(k) \cup {n}) <= Cardinality(Active(k)) + 1
                    /\ Cardinality(Active(k) \cup {n}) \in Nat
                  <5> HIDE DEF n
                  <5>1. IsFiniteSet(Active(k) \cup {n})
                        /\ Cardinality(Active(k) \cup {n}) =
                             IF n \in Active(k) THEN Cardinality(Active(k))
                             ELSE Cardinality(Active(k)) + 1
                      BY <4>1, FS_AddElement
                  <5> QED  BY <4>1, <5>1
              <4>5. /\ IsFiniteSet(Writers(k) \ {j})
                    /\ Cardinality(Writers(k) \ {j}) = Cardinality(Writers(k)) - 1
                    /\ Cardinality(Writers(k) \ {j}) \in Nat
                  BY <4>1, <4>3, FS_RemoveElement, FS_CardinalityType
              <4>6. Cardinality(Active(k)') \in Nat
                    /\ Cardinality(Active(k)') <= Cardinality(Active(k) \cup {n})
                  <5> HIDE DEF n
                  <5> QED  BY <4>2, <4>4, FS_Subset, FS_CardinalityType
              <4>7. Cardinality(Writers(k)') \in Nat
                    /\ Cardinality(Writers(k)') <= Cardinality(Writers(k) \ {j})
                  BY <4>3, <4>5, FS_Subset, FS_CardinalityType
              <4>8. blind' = blind /\ limit' = limit /\ limit \in Nat /\ blind[k] \in Nat
                  BY <1>1, <1>2, <1>7, ExtractionAssumption DEF WriteFact, HeardInv
              <4> HIDE DEF n
              <4> QED  BY <3>1, <4>1, <4>4, <4>5, <4>6, <4>7, <4>8 DEF Few
          <3> QED  BY <3>2, <3>3
      <2> QED  BY <1>2, <1>3, <1>4, <1>5, <1>6, <2>4, <2>6 DEF HeardInv
  <1>8. CASE ~WriteFact(j)
      <2>1. points' = points
          BY <1>8 DEF Extract, Refuse, TryAcquire, Drop, TakeSlot, Ask, AskFails, Skip,
                      Keep, KeepBlindly, WriteFails, Return
      <2>2. CASE Keep(j)
          <3> DEFINE c == Head(j.facts)
          <3>1. /\ j.facts # <<>> /\ c \in Said /\ c \in Claim /\ ~IsDuplicate(c)
              BY <1>1, <2>2 DEF Keep, Job
          <3>2. PICK b \in Job : Become(j, b) /\ b.facts = j.facts
              <4>1. c.key \in Key  BY <3>1 DEF Claim
              <4>2. PICK over \in Key \cup {NoKey} :
                       Become(j, [j EXCEPT !.pc = "write", !.over = over])
                  BY <2>2, <4>1 DEF Keep
              <4>3. [j EXCEPT !.pc = "write", !.over = over] \in Job
                  BY <1>1 DEF Job
              <4>4. [j EXCEPT !.pc = "write", !.over = over].facts = j.facts
                  BY <1>1 DEF Job
              <4> QED  BY <4>2, <4>3, <4>4
          <3>3. ASSUME NEW k \in Key, Repeats(k)'
                PROVE  Few(k)'
              <4>1. Repeats(k) /\ Few(k)
                  BY <3>3, RepeatsBefore DEF HeardInv
              <4>2. Active(k)' = Active(k)
                  BY <2>1 DEF Active
              <4>3. CASE k = c.key
                  <5>1. Active(k)' = {}
                      BY <3>1, <4>1, <4>2, <4>3, NewValueIsUnknown
                  <5>2. /\ Cardinality(Writers(k)') \in Nat /\ slots' \in Nat
                        /\ Cardinality(Writers(k)') <= slots'
                      <6>1. slots' = Cardinality(Held') /\ IsFiniteSet(jobs')
                          BY DEF JobsInv, SlotsAreCounted, Held, Holding
                      <6>2. Held' \in SUBSET jobs'
                          BY DEF Held
                      <6>3. Writers(k)' \in SUBSET Held'
                          BY DEF Writers, Held, Holding
                      <6>4. IsFiniteSet(Held') /\ Cardinality(Held') \in Nat
                          BY <6>1, <6>2, FS_Subset, FS_CardinalityType
                      <6> QED  BY <6>1, <6>3, <6>4, FS_Subset, FS_CardinalityType
                  <5>3. limit' \in Nat /\ blind'[k] \in Nat
                      BY <1>2, <1>5
                  <5> QED  BY <1>4, <5>1, <5>2, <5>3, FS_EmptySet DEF Few
              <4>4. CASE k # c.key
                  <5>1. Writers(k)' \subseteq Writers(k)
                      BY <3>2, <4>4 DEF Writers, Become
                  <5> QED  BY <1>2, <1>5, <4>1, <4>2, <5>1, FewStay
              <4> QED  BY <4>3, <4>4
          <3> QED  BY <1>2, <1>3, <1>4, <1>5, <1>6, <2>1, <3>3 DEF HeardInv
      <2>3. CASE KeepBlindly(j)
          <3> DEFINE c == Head(j.facts)
          <3>1. /\ j.facts # <<>> /\ c \in Claim /\ c.key \in Key
                /\ blind' = [blind EXCEPT ![c.key] = @ + 1]
              <4>1. j.facts # <<>> /\ j.facts \in Seq(Claim)
                    /\ blind' = [blind EXCEPT ![c.key] = @ + 1]
                  BY <1>1, <2>3 DEF KeepBlindly, Job
              <4> QED  BY <4>1, HeadIsAClaim DEF Claim
          <3>2. PICK b \in Job : Become(j, b) /\ b.facts = j.facts
              <4>1. [j EXCEPT !.pc = "write", !.over = NoKey] \in Job
                    /\ [j EXCEPT !.pc = "write", !.over = NoKey].facts = j.facts
                  BY <1>1 DEF Job
              <4> QED  BY <2>3, <4>1 DEF KeepBlindly
          <3>3. ASSUME NEW k \in Key, Repeats(k)'
                PROVE  Few(k)'
              <4>1. Few(k)
                  BY <3>3, RepeatsBefore DEF HeardInv
              <4>2. Active(k)' = Active(k)
                  BY <2>1 DEF Active
              <4>3. CASE k = c.key
                  <5>1. Writers(k)' \subseteq Writers(k) \cup {b}
                      BY <3>2 DEF Writers, Become
                  <5>2. /\ Cardinality(Active(k)) \in Nat
                        /\ IsFiniteSet(Writers(k)) /\ Cardinality(Writers(k)) \in Nat
                      BY ActiveIsFinite, WritersAreFew
                  <5>3. /\ IsFiniteSet(Writers(k) \cup {b})
                        /\ Cardinality(Writers(k) \cup {b}) <= Cardinality(Writers(k)) + 1
                        /\ Cardinality(Writers(k) \cup {b}) \in Nat
                      <6>1. IsFiniteSet(Writers(k) \cup {b})
                            /\ Cardinality(Writers(k) \cup {b}) =
                                 IF b \in Writers(k) THEN Cardinality(Writers(k))
                                 ELSE Cardinality(Writers(k)) + 1
                          BY <5>2, FS_AddElement
                      <6> QED  BY <5>2, <6>1
                  <5>4. Cardinality(Writers(k)') \in Nat
                        /\ Cardinality(Writers(k)') <= Cardinality(Writers(k) \cup {b})
                      BY <5>1, <5>3, FS_Subset, FS_CardinalityType
                  <5>5. limit' = limit /\ limit \in Nat /\ blind[k] \in Nat
                        /\ blind'[k] = blind[k] + 1
                      BY <1>1, <1>2, <1>5, <3>1, <4>3
                  <5> QED  BY <4>1, <4>2, <5>2, <5>3, <5>4, <5>5 DEF Few
              <4>4. CASE k # c.key
                  <5>1. Writers(k)' \subseteq Writers(k)
                      BY <3>2, <4>4 DEF Writers, Become
                  <5> QED  BY <1>2, <1>5, <4>1, <4>2, <5>1, FewStay
              <4> QED  BY <4>3, <4>4
          <3> QED  BY <1>2, <1>3, <1>4, <1>5, <1>6, <2>1, <3>3 DEF HeardInv
      <2>4. CASE ~Keep(j) /\ ~KeepBlindly(j)
          <3>1. \A a \in jobs' : a.pc = "write" => a \in jobs
              <4>1. CASE Refuse(j) \/ Drop(j) \/ AskFails(j) \/ Return(j)
                  BY <4>1 DEF Refuse, Drop, AskFails, Return
              <4>2. CASE TryAcquire(j) \/ TakeSlot(j)
                  BY <1>1, <4>2 DEF TryAcquire, TakeSlot, Become, Job
              <4>3. CASE Ask(j)
                  BY <1>1, <4>3 DEF Ask, Become, Job
              <4>4. CASE Skip(j)
                  BY <1>1, <4>4 DEF Skip, Become, Job
              <4>5. CASE WriteFails(j)
                  BY <1>1, <4>5 DEF WriteFails, Become, Job
              <4> QED  BY <1>8, <2>4, <4>1, <4>2, <4>3, <4>4, <4>5 DEF Extract
          <3> QED  BY <1>2, <1>3, <1>4, <1>5, <1>6, <2>1, <2>4, <3>1, FewStayFew DEF HeardInv
      <2> QED  BY <2>2, <2>3, <2>4
  <1> QED  BY <1>7, <1>8

LEMMA HeardAfterStep ==
  ASSUME JobsInv, SpareInv, HeardInv, JobsInv', SpareInv', [Next]_vars
  PROVE  HeardInv'
  <1>1. CASE \E j \in jobs : Extract(j)
      BY <1>1, HeardAfterJob
  <1>2. CASE ~\E j \in jobs : Extract(j)
      <2>1. UNCHANGED <<limit, slots, blind>>
          BY <1>2 DEF Next, vars, AppendTurn, DeleteSession, Tick, Converse, StoreClaim,
                      CrossReference, FindTarget, RetireTarget
      <2>2. Said \subseteq Said'
          BY TurnsGrow, SaidStays
      <2>3. \A j \in jobs' : j \in jobs \/ (j.pc = "spawned" /\ j.facts = <<>>)
          BY <1>2 DEF Next, vars, AppendTurn, DeleteSession, Tick, Converse, StoreClaim,
                      CrossReference, FindTarget, RetireTarget
      <2>4. \A j \in jobs' : j.facts \in Seq(Said')
          <3>1. <<>> \in Seq(Said')  OBVIOUS
          <3>2. \A j \in jobs : j.facts \in Seq(Said')  BY <2>2 DEF HeardInv
          <3> QED  BY <2>3, <3>1, <3>2
      <2>5. CASE points' = points \/ RetireTarget
          <3>1. \A p \in points' : p \in points \/ p.status = "superseded"
              BY <2>5 DEF RetireTarget, Retired, SpareInv, Point
          <3>2. \A p \in points' : p.status = "active" => ClaimOf(p) \in Said'
              BY <2>2, <3>1 DEF HeardInv
          <3>3. \A k \in Key : Repeats(k)' => Few(k)'
              BY <2>1, <2>3, <2>5, FewStayFew
          <3> QED  BY <2>1, <2>4, <3>2, <3>3 DEF HeardInv
      <2>6. CASE StoreClaim /\ points' # points
          <3>1. \A p \in points' : p \in points \/ p.status = "needs_review"
              BY <2>6 DEF StoreClaim, NewPoint
          <3>2. points \subseteq points' /\ jobs' = jobs
              BY <2>6 DEF StoreClaim, NewPoint
          <3>3. \A p \in points' : p.status = "active" => ClaimOf(p) \in Said'
              BY <2>2, <3>1 DEF HeardInv
          <3>4. ASSUME NEW k \in Key, Repeats(k)'
                PROVE  Few(k)'
              <4>1. Few(k)
                  BY <3>4, RepeatsBefore DEF HeardInv
              <4>2. Active(k)' = Active(k)
                  BY <3>1, <3>2 DEF Active
              <4>3. Writers(k)' = Writers(k)
                  BY <3>2 DEF Writers
              <4>4. blind'[k] \in Nat /\ blind[k] <= blind'[k]
                  BY <2>1 DEF HeardInv
              <4> QED  BY <2>1, <4>1, <4>2, <4>3, <4>4, FewStay
          <3> QED  BY <2>1, <2>4, <3>3, <3>4 DEF HeardInv
      <2>7. points' = points \/ RetireTarget \/ StoreClaim
          BY <1>2 DEF Next, vars, AppendTurn, DeleteSession, Tick, Converse,
                      CrossReference, FindTarget
      <2> QED  BY <2>5, <2>6, <2>7
  <1> QED  BY <1>1, <1>2

LEMMA HeardAlways == Spec => []HeardInv
  <1>1. Init => HeardInv
      <2> SUFFICES ASSUME Init PROVE HeardInv
          OBVIOUS
      <2>1. limit \in Limits /\ limit \in Nat /\ slots = 0 /\ jobs = {} /\ points = {} /\ blind = [k \in Key |-> 0]
          BY ExtractionAssumption DEF Init
      <2>2. ASSUME NEW k \in Key
            PROVE  Few(k)
          <3>1. Active(k) = {} /\ Writers(k) = {} /\ blind[k] = 0
              BY <2>1 DEF Active, Writers
          <3> QED  BY <2>1, <3>1, FS_EmptySet DEF Few
      <2>3. slots <= limit
          BY <2>1
      <2>4. blind \in [Key -> Nat]
          BY <2>1
      <2> QED  BY <2>1, <2>2, <2>3, <2>4 DEF HeardInv
  <1>2. Inv /\ Inv' /\ SpareInv /\ SpareInv' /\ HeardInv /\ [Next]_vars => HeardInv'
      BY HeardAfterStep DEF Inv
  <1> QED  BY <1>1, <1>2, InvAlways, SparesAlways, PTL DEF Spec

\* However often a claim is repeated and however many extractions run at once, its
\* key has no more active points than they are, and one for each failed lookup, as
\* long as the key's points fit in a lookup of a store that returns vectors
\* (dedupCheck).
THEOREM RepeatsAreAlwaysSkipped == Spec => []RepeatsAreSkipped
  <1>1. ASSUME JobsInv, SpareInv, HeardInv
        PROVE  RepeatsAreSkipped
      <2> SUFFICES ASSUME Vectors, NEW k \in Key,
                          \A c, d \in Said : c.key = k /\ d.key = k => c = d,
                          Cardinality(IdsOf(k)) <= 10
                   PROVE  Cardinality(Active(k)) <= limit + blind[k]
          BY DEF RepeatsAreSkipped, FewRepeats, Active
      <2>1. Few(k)
          BY <1>1 DEF HeardInv, Repeats
      <2>2. Cardinality(Active(k)) \in Nat /\ Cardinality(Writers(k)) \in Nat
            /\ limit \in Nat /\ blind[k] \in Nat
          BY <1>1, ActiveIsFinite, WritersAreFew, ExtractionAssumption DEF HeardInv
      <2> QED  BY <2>1, <2>2 DEF Few
  <1> QED  BY <1>1, InvAlways, SparesAlways, HeardAlways, PTL DEF Inv

\* The variables keep their types, and the semaphore never holds more tokens than
\* it has room for.
THEOREM TypeCorrectness == Spec => []TypeOK
  <1> DEFINE Quiet == deleted \subseteq Session
  <1>1. Spec => []Quiet
      <2>1. Init => Quiet
          BY DEF Init
      <2>2. Quiet /\ [Next]_vars => Quiet'
          <3> SUFFICES ASSUME Quiet, [Next]_vars PROVE Quiet'
              OBVIOUS
          <3>1. ASSUME NEW j \in jobs, Extract(j)
                PROVE  deleted' = deleted
              BY <3>1 DEF Extract, Refuse, TryAcquire, Drop, TakeSlot, Ask, AskFails, Skip,
                          Keep, KeepBlindly, WriteFact, WriteFails, Return
          <3>2. ASSUME NEW s \in Session, DeleteSession(s)
                PROVE  Quiet'
              BY <3>2 DEF DeleteSession
          <3> QED  BY <3>1, <3>2 DEF Next, vars, AppendTurn, Tick, Converse, StoreClaim,
                                     CrossReference, FindTarget, RetireTarget
      <2> QED  BY <2>1, <2>2, PTL DEF Spec
  <1>2. ASSUME Inv, SpareInv, HeardInv, Quiet
        PROVE  TypeOK
      <2>1. slots \in 0 .. limit
          <3>1. Cardinality(Held) \in Nat  BY <1>2, HeldIsFinite DEF Inv, JobsInv
          <3>2. slots \in Nat /\ limit \in Nat /\ slots <= limit
              BY <1>2, <3>1, SlotsAreHeld, ExtractionAssumption DEF Inv, JobsInv, HeardInv
          <3> QED  BY <3>2
      <2> QED  BY <1>2, <2>1 DEF TypeOK, Inv, JobsInv, CooldownInv, SpareInv, HeardInv
  <1> HIDE DEF Quiet
  <1> QED  BY <1>1, <1>2, InvAlways, SparesAlways, HeardAlways, PTL
=============================================================================
