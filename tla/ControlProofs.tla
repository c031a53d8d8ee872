---------------------------- MODULE ControlProofs ----------------------------
(***************************************************************************)
(* The properties of Control, proved for any number of plugins, of grants  *)
(* of control and of mods: who may change the list, what the plan holds,   *)
(* and who is told what, how many times.                                   *)
(***************************************************************************)
EXTENDS Control, SequenceTheorems, TLAPS

Elements(seq) == {seq[i] : i \in DOMAIN seq}
Distinct(seq) == \A i, j \in DOMAIN seq : seq[i] = seq[j] => i = j
Notified == {"notifying", "over"}

-----------------------------------------------------------------------------
(* The inductive invariant.                                                *)

\* control.rs take_control: tokens are counted, so the next one is new.
TokensAreCounted ==
  /\ token \in 0..counter
  /\ \A p \in Plugins : \A t \in tokens[p] : t \in 1..counter

\* Where the merger's thread is tells the phase, and whether files are served.
PhaseFollowsTheThread ==
  /\ pc \in {"plugins", "polling", "settled"} => phase = "Waiting"
  /\ pc = "merging" => phase = "Merging"
  /\ pc = "finishing" => phase \in {"Waiting", "Merging"}
  /\ pc \in Notified => phase = outcome.phase /\ served = outcome.served
  /\ pc \in Notified \cup {"finishing"} =>
       /\ outcome.phase = "Done" => active = outcome.served
       /\ outcome.phase = "Failed" => outcome.served = 0

\* Nothing is planned while the list can change; without a plan nothing is served.
PlanFollowsTheThread ==
  /\ phase = "Waiting" => plan = NoPlan
  /\ pc = "merging" => plan # NoPlan
  /\ pc \in Notified \cup {"finishing"} /\ plan = NoPlan => outcome.phase = "Failed"

\* A listener is in one list or the other, once, until it is called.
Listeners ==
  /\ phase \in Over => callbacks = <<>>
  /\ pc # "notifying" => pending = <<>>
  /\ Distinct(callbacks) /\ Distinct(pending)
  /\ \A p \in Plugins :
       /\ p \in Elements(callbacks) \cup Elements(pending) => called[p] = <<>> /\ asked[p] = "yes"
       /\ asked[p] = "no" => called[p] = <<>>
       /\ asked[p] = "calling" =>
            /\ called[p] = <<>> /\ phase \in Over
            /\ answer[p] = [phase |-> phase, served |-> served]

Inv ==
  /\ TypeOK /\ NoOwnerNoTrace /\ TokensAreCounted /\ OnlyTheOwnerHoldsTheToken
  /\ PhaseFollowsTheThread /\ PlanFollowsTheThread /\ PlanIsTheList
  /\ Listeners /\ CalledOnceWithTheResult

-----------------------------------------------------------------------------
(* Type correctness.                                                       *)

\* What the plan is made of has the type of a plan, and is not NoPlan.
LEMMA PlanType ==
  ASSUME NEW who \in Plugins \cup {NoOwner}, NEW local \in BOOLEAN,
         NEW chosen \in Seq(ApiMods), NEW dir \in Dirs \cup {NoDir}
  PROVE  PlanOf(who, local, chosen, dir) \in Plans /\ PlanOf(who, local, chosen, dir) # NoPlan
<1>1. MergedDir(who, dir) \in {<<"usual">>} \cup ({"given"} \X Dirs) \cup ({"of"} \X Plugins)
  BY ControlAssumption DEF MergedDir
<1>2. MergedDir(who, dir) # <<"none">>
  BY ControlAssumption DEF MergedDir
<1>3. [i \in DOMAIN chosen |-> IF IsMod(chosen[i]) THEN chosen[i] ELSE Skipped] \in Seq(ApiMods \cup {Skipped})
  <2>1. Len(chosen) \in Nat /\ DOMAIN chosen = 1..Len(chosen) /\ \A i \in 1..Len(chosen) : chosen[i] \in ApiMods
    BY LenProperties, ElementOfSeq
  <2> QED
    BY <2>1
<1> QED
  BY <1>1, <1>2, <1>3 DEF PlanOf, Plans, NoPlan

\* An empty list is a list, and a short one.
LEMMA EmptyList == <<>> \in Seq(ApiMods) /\ Len(<<>>) = 0 /\ 0 <= MaxMods
BY ControlAssumption, EmptySeq

\* The owner's calls.
LEMMA OwnerTypes ==
  ASSUME TypeOK, NEW p \in Plugins, OwnerCalls(p)
  PROVE  TypeOK'
<1>1. ASSUME NEW list, list \in Seq(ApiMods), Len(list) <= MaxMods, NEW t \in tokens[p], SetMods(t, list)
      PROVE  TypeOK'
  BY <1>1 DEF SetMods, TypeOK, listeners, merger
<1>2. CASE TakeControl(p)
  <2>1. counter' \in 1..MaxTakes /\ counter' = counter + 1
    BY <1>2, ControlAssumption DEF TakeControl, TypeOK
  <2>2. tokens' \in [Plugins -> SUBSET (1..MaxTakes)]
    BY <1>2, <2>1 DEF TakeControl, TypeOK
  <2>3. mods' \in Seq(ApiMods) /\ Len(mods') <= MaxMods
    BY <1>2, EmptyList DEF TakeControl
  <2>4. counter' \in 0..MaxTakes /\ token' \in 0..MaxTakes
    BY <1>2, <2>1, ControlAssumption DEF TakeControl
  <2> QED
    BY <1>2, <2>2, <2>3, <2>4 DEF TakeControl, TypeOK, listeners, merger
<1>3. ASSUME NEW t \in tokens[p], ReleaseControl(t)
      PROVE  TypeOK'
  <2>1. mods' \in Seq(ApiMods) /\ Len(mods') <= MaxMods /\ token' \in 0..MaxTakes
    BY <1>3, EmptyList, ControlAssumption DEF ReleaseControl
  <2> QED
    BY <1>3, <2>1 DEF ReleaseControl, TypeOK, listeners, merger
<1>4. ASSUME NEW t \in tokens[p],
             (\E enabled \in BOOLEAN : SetLocalModsEnabled(t, enabled))
               \/ (\E dir \in Dirs : SetMergedDir(t, dir)) \/ Commit(t)
      PROVE  TypeOK'
  BY <1>4 DEF SetLocalModsEnabled, SetMergedDir, Commit, TypeOK, listeners, merger
<1>5. ASSUME NEW t \in tokens[p], ClearMods(t)
      PROVE  TypeOK'
  BY <1>1, <1>5, EmptyList DEF ClearMods
<1>6. ASSUME NEW t \in tokens[p], NEW path \in Paths, AddMod(t, path)
      PROVE  TypeOK'
  <2>1. [path |-> path, options |-> {}] \in ApiMods
    BY DEF ApiMods
  <2>2. Append(mods, [path |-> path, options |-> {}]) \in Seq(ApiMods)
        /\ Len(Append(mods, [path |-> path, options |-> {}])) <= MaxMods
    BY <1>6, <2>1, ControlAssumption, LenProperties, AppendProperties DEF AddMod, TypeOK
  <2> QED
    BY <1>1, <1>6, <2>2 DEF AddMod
<1>7. ASSUME NEW t \in tokens[p], NEW index \in 1..MaxMods, NEW option \in Options, SelectOption(t, index, option)
      PROVE  TypeOK'
  <2> DEFINE entry == [mods[index] EXCEPT !.options = @ \cup {option}]
  <2>1. index \in 1..Len(mods) /\ mods \in Seq(ApiMods) /\ mods[index] \in ApiMods
    BY <1>7, ElementOfSeq DEF SelectOption, TypeOK
  <2>2. entry \in ApiMods
    BY <2>1 DEF ApiMods
  <2>3. [mods EXCEPT ![index] = entry] \in Seq(ApiMods) /\ Len([mods EXCEPT ![index] = entry]) <= MaxMods
    BY <2>1, <2>2, ExceptSeq DEF TypeOK
  <2>4. SetMods(t, [mods EXCEPT ![index] = entry])
    BY <1>7 DEF SelectOption
  <2> QED
    BY <1>1, <2>3, <2>4
<1> QED
  BY <1>2, <1>3, <1>4, <1>5, <1>6, <1>7 DEF OwnerCalls

\* on_merged, and the calls that follow it.
LEMMA ListenerTypes ==
  ASSUME TypeOK, NEW p \in Plugins, OnMergedBefore(p) \/ OnMergedAfter(p) \/ CallRightAway(p)
  PROVE  TypeOK'
<1>1. CASE OnMergedBefore(p)
  <2>1. Append(callbacks, p) \in Seq(Plugins)
    BY AppendProperties DEF TypeOK
  <2> QED
    BY <1>1, <2>1 DEF OnMergedBefore, TypeOK, state, merger
<1>2. CASE OnMergedAfter(p)
  <2>1. [phase |-> phase, served |-> served] \in Results
    BY <1>2 DEF OnMergedAfter, TypeOK, Results, Over
  <2> QED
    BY <1>2, <2>1 DEF OnMergedAfter, TypeOK, state, merger
<1>3. CASE CallRightAway(p)
  <2>1. Append(called[p], answer[p]) \in Seq(Results)
    BY AppendProperties DEF TypeOK
  <2> QED
    BY <1>3, <2>1 DEF CallRightAway, TypeOK, state, merger
<1> QED
  BY <1>1, <1>2, <1>3

\* The merger's thread.
LEMMA MergerTypes ==
  ASSUME TypeOK, Merger
  PROVE  TypeOK'
<1>1. CASE StartWaiting \/ StopWaiting \/ EndNotify
  BY <1>1 DEF StartWaiting, StopWaiting, EndNotify, TypeOK, Steps, state, listeners
<1>2. CASE Disabled \/ MergeFails
  <2>1. outcome' \in Results
    BY <1>2, ControlAssumption DEF Disabled, MergeFails, Results
  <2>2. pc' \in Steps
    BY <1>2 DEF Disabled, MergeFails, Steps
  <2> QED
    BY <1>2, <2>1, <2>2 DEF Disabled, MergeFails, TypeOK, state, listeners
<1>3. CASE TakePlan
  <2>1. plan' \in Plans
    BY <1>3, PlanType DEF TakePlan, TypeOK
  <2> QED
    BY <1>3, <2>1 DEF TakePlan, TypeOK, Steps, state, listeners
<1>4. ASSUME NEW n \in 0..MaxServed, MergeServes(n)
      PROVE  TypeOK'
  BY <1>4 DEF MergeServes, TypeOK, Steps, Results, state, listeners
<1>5. CASE Finish
  BY <1>5, EmptySeq DEF Finish, TypeOK, Steps, Results, Over, state, listeners
<1>6. CASE Notify
  <2>1. Head(pending) \in Plugins /\ Tail(pending) \in Seq(Plugins)
    BY <1>6, HeadTailProperties DEF Notify, TypeOK
  <2>2. Append(called[Head(pending)], outcome) \in Seq(Results)
    BY <2>1, AppendProperties DEF TypeOK
  <2> QED
    BY <1>6, <2>1, <2>2 DEF Notify, TypeOK, state
<1> QED
  BY <1>1, <1>2, <1>3, <1>4, <1>5, <1>6 DEF Merger

\* Types of control.rs's state and of those around it, for every value of the
\* constants.
THEOREM TypeCorrect == Spec => []TypeOK
<1>1. Init => TypeOK
  <2>1. <<>> \in Seq(Plugins) /\ <<>> \in Seq(Results)
    BY EmptySeq
  <2>2. 0 \in 0..MaxTakes /\ 0 \in 0..MaxServed
    BY ControlAssumption
  <2>3. [phase |-> "Failed", served |-> 0] \in Results
    BY <2>2 DEF Results
  <2>4. [q \in Plugins |-> {}] \in [Plugins -> SUBSET (1..MaxTakes)]
    OBVIOUS
  <2> QED
    BY <2>1, <2>2, <2>3, <2>4, EmptyList DEF Init, TypeOK, Steps, Over
<1>2. TypeOK /\ [Next]_vars => TypeOK'
  <2>1. CASE UNCHANGED vars
    BY <2>1 DEF vars, state, listeners, merger, TypeOK
  <2>2. CASE Expire
    BY <2>2 DEF Expire, TypeOK, listeners, merger
  <2> QED
    BY <2>1, <2>2, OwnerTypes, ListenerTypes, MergerTypes DEF Next
<1> QED
  BY <1>1, <1>2, PTL DEF Spec

-----------------------------------------------------------------------------
(* Who has control.                                                        *)

\* A step that leaves the state behind the mutex alone, but for the phase.
LEMMA OwnerCallsOrNot ==
  ASSUME [Next]_vars
  PROVE  (\E p \in Plugins : OwnerCalls(p)) \/ Expire \/ UNCHANGED state
BY DEF Next, Merger, vars, OnMergedBefore, OnMergedAfter, CallRightAway, StartWaiting, Disabled, StopWaiting,
       TakePlan, MergeFails, MergeServes, Finish, Notify, EndNotify

\* A call that needs the token neither makes nor gives one, but for release.
LEMMA TokensStep ==
  ASSUME TypeOK, NoOwnerNoTrace, TokensAreCounted, OnlyTheOwnerHoldsTheToken, [Next]_vars
  PROVE  NoOwnerNoTrace' /\ TokensAreCounted' /\ OnlyTheOwnerHoldsTheToken'
<1> USE DEF NoOwnerNoTrace, TokensAreCounted, OnlyTheOwnerHoldsTheToken
<1>1. CASE UNCHANGED state
  BY <1>1 DEF state
<1>2. ASSUME NEW p \in Plugins, TakeControl(p)
      PROVE  NoOwnerNoTrace' /\ TokensAreCounted' /\ OnlyTheOwnerHoldsTheToken'
  <2>1. counter \in Nat /\ counter' = counter + 1 /\ token' = counter + 1 /\ owner' = p
    BY <1>2 DEF TakeControl, TypeOK
  <2>2. /\ tokens'[p] = tokens[p] \cup {counter + 1}
        /\ \A q \in Plugins : q # p => tokens'[q] = tokens[q]
    BY <1>2 DEF TakeControl, TypeOK
  <2>3. NoOwnerNoTrace'
    BY <2>1, ControlAssumption
  <2>4. \A q \in Plugins : \A t \in tokens[q] : t \in 1..counter + 1 /\ t # counter + 1
    BY <2>1
  <2>5. TokensAreCounted'
    BY <2>1, <2>2, <2>4
  <2>6. OnlyTheOwnerHoldsTheToken'
    BY <2>1, <2>2, <2>4
  <2> QED
    BY <2>3, <2>5, <2>6
<1>3. ASSUME NEW p \in Plugins, NEW t \in tokens[p], ReleaseControl(t)
      PROVE  NoOwnerNoTrace' /\ TokensAreCounted' /\ OnlyTheOwnerHoldsTheToken'
  BY <1>3 DEF ReleaseControl, TypeOK
<1>4. ASSUME NEW t, \/ \E enabled \in BOOLEAN : SetLocalModsEnabled(t, enabled)
                    \/ \E list : SetMods(t, list)
                    \/ \E dir \in Dirs : SetMergedDir(t, dir)
                    \/ Commit(t)
      PROVE  NoOwnerNoTrace' /\ TokensAreCounted' /\ OnlyTheOwnerHoldsTheToken'
  BY <1>4 DEF SetLocalModsEnabled, SetMods, SetMergedDir, Commit, WithOwner
<1>5. CASE Expire
  BY <1>5 DEF Expire
<1>6. ASSUME NEW p \in Plugins, OwnerCalls(p)
      PROVE  NoOwnerNoTrace' /\ TokensAreCounted' /\ OnlyTheOwnerHoldsTheToken'
  BY <1>2, <1>3, <1>4, <1>6 DEF OwnerCalls, ClearMods, AddMod, SelectOption
<1> QED
  BY <1>1, <1>5, <1>6, OwnerCallsOrNot

\* While nobody has control the list is the SD card's own (control.rs
\* take_control, release_control).
THEOREM ReleaseLeavesNoTrace == Spec => []NoOwnerNoTrace
<1>1. Init => NoOwnerNoTrace /\ TokensAreCounted /\ OnlyTheOwnerHoldsTheToken
  BY DEF Init, NoOwnerNoTrace, TokensAreCounted, OnlyTheOwnerHoldsTheToken
<1> QED
  BY <1>1, TokensStep, TypeCorrect, PTL DEF Spec

\* The token that changes the list was given to the owner and to nobody else
\* (control.rs with_owner).
THEOREM TokensAreTheOwners == Spec => []OnlyTheOwnerHoldsTheToken
<1>1. Init => NoOwnerNoTrace /\ TokensAreCounted /\ OnlyTheOwnerHoldsTheToken
  BY DEF Init, NoOwnerNoTrace, TokensAreCounted, OnlyTheOwnerHoldsTheToken
<1> QED
  BY <1>1, TokensStep, TypeCorrect, PTL DEF Spec

-----------------------------------------------------------------------------
(* The plan and the phase.                                                 *)

\* The owner's calls only exist while the phase is Waiting, and leave the
\* merger's thread where it is.
LEMMA OwnerCallsBeforeTheMerge ==
  ASSUME NEW p \in Plugins, OwnerCalls(p)
  PROVE  phase = "Waiting" /\ UNCHANGED <<phase, served, callbacks, listeners, merger>>
BY DEF OwnerCalls, TakeControl, ReleaseControl, SetLocalModsEnabled, ClearMods, AddMod, SelectOption,
       SetMods, SetMergedDir, Commit, WithOwner

ThreadInv == PhaseFollowsTheThread /\ PlanFollowsTheThread /\ PlanIsTheList

\* Each step of the merger's thread keeps the phase, the plan and the result in
\* step with it.
LEMMA ThreadStep ==
  ASSUME TypeOK, ThreadInv, [Next]_vars
  PROVE  ThreadInv'
<1> USE DEF ThreadInv, PhaseFollowsTheThread, PlanFollowsTheThread, PlanIsTheList, Notified
<1>1. CASE UNCHANGED vars
  BY <1>1 DEF vars, state, merger
<1>2. ASSUME NEW p \in Plugins, OwnerCalls(p)
      PROVE  ThreadInv'
  <2>1. phase = "Waiting" /\ UNCHANGED <<phase, served, merger>> /\ plan = NoPlan
    BY <1>2, OwnerCallsBeforeTheMerge
  <2> QED
    BY <2>1 DEF merger
<1>3. CASE Expire
  BY <1>3 DEF Expire, merger
<1>4. ASSUME NEW p \in Plugins, OnMergedBefore(p) \/ OnMergedAfter(p) \/ CallRightAway(p)
      PROVE  ThreadInv'
  BY <1>4 DEF OnMergedBefore, OnMergedAfter, CallRightAway, merger, state
<1>5. CASE StartWaiting \/ StopWaiting \/ EndNotify
  BY <1>5 DEF StartWaiting, StopWaiting, EndNotify, state
<1>6. CASE Disabled \/ MergeFails
  BY <1>6 DEF Disabled, MergeFails, state
<1>7. CASE TakePlan
  <2>1. plan' # NoPlan
    BY <1>7, PlanType DEF TakePlan, TypeOK
  <2> QED
    BY <1>7, <2>1 DEF TakePlan, state
<1>8. ASSUME NEW n \in 0..MaxServed, MergeServes(n)
      PROVE  ThreadInv'
  BY <1>8 DEF MergeServes, state
<1>9. CASE Finish
  <2>1. phase' \in Over
    BY <1>9 DEF Finish, TypeOK, Results, Over
  <2> QED
    BY <1>9, <2>1 DEF Finish, state, Over
<1>10. CASE Notify
  BY <1>10 DEF Notify, state
<1> QED
  BY <1>1, <1>2, <1>3, <1>4, <1>5, <1>6, <1>7, <1>8, <1>9, <1>10 DEF Next, Merger

\* The phase, the plan and the result follow the merger's thread.
LEMMA ThreadCorrect == Spec => []ThreadInv
<1>1. Init => ThreadInv
  BY DEF Init, ThreadInv, PhaseFollowsTheThread, PlanFollowsTheThread, PlanIsTheList, Notified
<1> QED
  BY <1>1, ThreadStep, TypeCorrect, PTL DEF Spec

\* The plan is the list as it stands once it is closed (control.rs wait_for_plan):
\* no call that was accepted is lost, and none comes after.
THEOREM NoCallIsLost == Spec => []PlanIsTheList
BY ThreadCorrect, PTL DEF ThreadInv

-----------------------------------------------------------------------------
(* Lists of listeners.                                                     *)

\* A newcomer at the end of a list of distinct listeners.
LEMMA DistinctAppend ==
  ASSUME NEW S, NEW seq \in Seq(S), NEW e \in S, Distinct(seq), e \notin Elements(seq)
  PROVE  Distinct(Append(seq, e)) /\ Elements(Append(seq, e)) = Elements(seq) \cup {e}
<1>1. /\ Len(seq) \in Nat /\ DOMAIN seq = 1..Len(seq)
      /\ DOMAIN Append(seq, e) = 1..(Len(seq) + 1)
      /\ \A i \in 1..Len(seq) : Append(seq, e)[i] = seq[i]
      /\ Append(seq, e)[Len(seq) + 1] = e
  BY LenProperties, AppendProperties
<1>2. Distinct(Append(seq, e))
  BY <1>1 DEF Distinct, Elements
<1>3. Elements(Append(seq, e)) = Elements(seq) \cup {e}
  BY <1>1 DEF Elements
<1> QED
  BY <1>2, <1>3

\* The first of a list of distinct listeners is not among the others.
LEMMA DistinctTail ==
  ASSUME NEW S, NEW seq \in Seq(S), seq # <<>>, Distinct(seq)
  PROVE  /\ Head(seq) \in Elements(seq) /\ Head(seq) \notin Elements(Tail(seq))
         /\ Distinct(Tail(seq)) /\ Elements(Tail(seq)) \subseteq Elements(seq)
<1>1. /\ Len(seq) \in Nat /\ Len(seq) # 0 /\ DOMAIN seq = 1..Len(seq)
      /\ DOMAIN Tail(seq) = 1..(Len(seq) - 1) /\ Head(seq) = seq[1]
      /\ \A i \in 1..(Len(seq) - 1) : Tail(seq)[i] = seq[i + 1]
  BY LenProperties, HeadTailProperties, EmptySeq
<1> QED
  BY <1>1 DEF Distinct, Elements

\* Nobody is in an empty list.
LEMMA NobodyInEmpty == Elements(<<>>) = {} /\ Distinct(<<>>)
BY DEF Elements, Distinct

-----------------------------------------------------------------------------
(* Who is told what.                                                       *)

ListenersInv == Listeners /\ CalledOnceWithTheResult

\* The steps before the end leave the listeners alone.
LEMMA QuietStep ==
  ASSUME TypeOK, ListenersInv, UNCHANGED <<callbacks, pending, listeners>>,
         phase \notin Over, phase' \notin Over, pc # "notifying", pc' # "notifying"
  PROVE  ListenersInv'
BY DEF ListenersInv, Listeners, CalledOnceWithTheResult, listeners

\* Each step keeps every listener in one place, and calls it at most once.
LEMMA ListenersStep ==
  ASSUME TypeOK, ThreadInv, ThreadInv', ListenersInv, [Next]_vars
  PROVE  ListenersInv'
<1>1. /\ pc \in Notified => phase \in Over
      /\ pc \notin Notified => phase \notin Over
  BY DEF TypeOK, ThreadInv, PhaseFollowsTheThread, Notified, Results, Steps, Over
<1>2. CASE UNCHANGED vars
  BY <1>2 DEF vars, state, merger, listeners, ListenersInv, Listeners, CalledOnceWithTheResult
<1>3. ASSUME NEW p \in Plugins, OwnerCalls(p)
      PROVE  ListenersInv'
  <2>1. phase = "Waiting" /\ UNCHANGED <<phase, served, callbacks, listeners, merger>>
    BY <1>3, OwnerCallsBeforeTheMerge
  <2> QED
    BY <1>1, <2>1, QuietStep DEF merger, Over, Notified
<1>4. CASE Expire
  BY <1>4 DEF Expire, listeners, merger, ListenersInv, Listeners, CalledOnceWithTheResult
<1>5. ASSUME NEW p \in Plugins, OnMergedBefore(p)
      PROVE  ListenersInv'
  <2>1. /\ callbacks \in Seq(Plugins) /\ Distinct(callbacks) /\ p \notin Elements(callbacks)
        /\ p \notin Elements(pending) /\ called[p] = <<>> /\ phase \notin Over
    BY <1>5 DEF OnMergedBefore, ListenersInv, Listeners, TypeOK
  <2>2. Distinct(callbacks') /\ Elements(callbacks') = Elements(callbacks) \cup {p}
    BY <1>5, <2>1, DistinctAppend DEF OnMergedBefore
  <2>3. /\ asked'[p] = "yes" /\ \A q \in Plugins : q # p => asked'[q] = asked[q]
        /\ UNCHANGED <<phase, served, answer, called, pending, pc>>
    BY <1>5 DEF OnMergedBefore, TypeOK, merger
  <2> QED
    BY <2>1, <2>2, <2>3 DEF ListenersInv, Listeners, CalledOnceWithTheResult
<1>6. ASSUME NEW p \in Plugins, OnMergedAfter(p)
      PROVE  ListenersInv'
  <2>1. /\ asked[p] = "no" /\ phase \in Over
        /\ asked'[p] = "calling" /\ answer'[p] = [phase |-> phase, served |-> served]
        /\ \A q \in Plugins : q # p => asked'[q] = asked[q] /\ answer'[q] = answer[q]
        /\ UNCHANGED <<phase, served, callbacks, called, pending, pc>>
    BY <1>6 DEF OnMergedAfter, TypeOK, merger
  <2> QED
    BY <2>1 DEF ListenersInv, Listeners, CalledOnceWithTheResult
<1>7. ASSUME NEW p \in Plugins, CallRightAway(p)
      PROVE  ListenersInv'
  <2>1. /\ asked[p] = "calling" /\ called[p] = <<>> /\ phase \in Over
        /\ answer[p] = [phase |-> phase, served |-> served]
    BY <1>7 DEF CallRightAway, ListenersInv, Listeners
  <2>2. /\ asked'[p] = "yes" /\ called'[p] = <<answer[p]>>
        /\ \A q \in Plugins : q # p => asked'[q] = asked[q] /\ called'[q] = called[q]
        /\ UNCHANGED <<phase, served, callbacks, answer, pending, pc>>
    BY <1>7, <2>1 DEF CallRightAway, TypeOK, merger
  <2> QED
    BY <2>1, <2>2 DEF ListenersInv, Listeners, CalledOnceWithTheResult
<1>8. CASE StartWaiting \/ StopWaiting \/ Disabled \/ MergeFails \/ \E n \in 0..MaxServed : MergeServes(n)
  <2>1. UNCHANGED <<phase, callbacks, pending, listeners>> /\ pc \notin Notified /\ pc' \notin Notified
    BY <1>8 DEF StartWaiting, StopWaiting, Disabled, MergeFails, MergeServes, Notified
  <2> QED
    BY <1>1, <2>1, QuietStep DEF Notified
<1>9. CASE TakePlan
  <2>1. UNCHANGED <<callbacks, pending, listeners>> /\ pc \notin Notified /\ pc' \notin Notified /\ phase' \notin Over
    BY <1>9 DEF TakePlan, Notified, Over
  <2> QED
    BY <1>1, <2>1, QuietStep DEF Notified
<1>10. CASE Finish
  <2>1. /\ phase \notin Over /\ phase' \in Over /\ pc' = "notifying"
        /\ pending' = callbacks /\ callbacks' = <<>> /\ UNCHANGED listeners
    BY <1>1, <1>10 DEF Finish, Notified, TypeOK, Results, Over
  <2>2. \A q \in Plugins : called[q] = <<>> /\ asked[q] # "calling"
    BY <2>1 DEF ListenersInv, Listeners, CalledOnceWithTheResult
  <2> QED
    BY <2>1, <2>2, NobodyInEmpty DEF ListenersInv, Listeners, CalledOnceWithTheResult, listeners
<1>11. CASE Notify
  <2> DEFINE p == Head(pending)
  <2>1. /\ pc = "notifying" /\ pending # <<>> /\ pending \in Seq(Plugins) /\ Distinct(pending)
        /\ phase \in Over /\ outcome = [phase |-> phase, served |-> served]
    BY <1>1, <1>11 DEF Notify, Notified, ListenersInv, Listeners, ThreadInv, PhaseFollowsTheThread, TypeOK, Results
  <2>2. /\ p \in Elements(pending) /\ p \notin Elements(pending') /\ p \in Plugins
        /\ Distinct(pending') /\ Elements(pending') \subseteq Elements(pending)
    BY <1>11, <2>1, DistinctTail, HeadTailProperties DEF Notify
  <2>3. called[p] = <<>> /\ asked[p] = "yes"
    BY <2>2 DEF ListenersInv, Listeners
  <2>4. /\ called'[p] = <<outcome>>
        /\ \A q \in Plugins : q # p => called'[q] = called[q]
        /\ UNCHANGED <<phase, served, callbacks, asked, answer, pc>>
    BY <1>11, <2>2, <2>3 DEF Notify, TypeOK
  <2>5. callbacks = <<>>
    BY <2>1 DEF ListenersInv, Listeners
  <2>6. CalledOnceWithTheResult'
    BY <2>1, <2>4 DEF ListenersInv, CalledOnceWithTheResult
  <2>7. Listeners'
    BY <2>1, <2>2, <2>3, <2>4, <2>5, NobodyInEmpty DEF ListenersInv, Listeners
  <2> QED
    BY <2>6, <2>7 DEF ListenersInv
<1>12. CASE EndNotify
  BY <1>12 DEF EndNotify, listeners, ListenersInv, Listeners, CalledOnceWithTheResult
<1> QED
  BY <1>2, <1>3, <1>4, <1>5, <1>6, <1>7, <1>8, <1>9, <1>10, <1>11, <1>12 DEF Next, Merger

\* Every listener is in one place, and is told the result of the merge once.
LEMMA ListenersCorrect == Spec => []ListenersInv
<1>1. Init => ListenersInv
  BY NobodyInEmpty DEF Init, ListenersInv, Listeners, CalledOnceWithTheResult, Over
<1> QED
  BY <1>1, ListenersStep, TypeCorrect, ThreadCorrect, PTL DEF Spec

\* A callback runs at most once, after the merge is over, with the result every
\* other caller sees (control.rs on_merged, finish).
THEOREM ToldOnce == Spec => []CalledOnceWithTheResult
BY ListenersCorrect, PTL DEF ListenersInv

\* The end is announced, by the phase or by a callback, only when the redirects it
\* counts are active (lib.rs merge_and_serve).
THEOREM DoneIsServed == Spec => []DoneMeansServed
<1>1. TypeOK /\ ThreadInv /\ ListenersInv => DoneMeansServed
  <2> SUFFICES ASSUME TypeOK, ThreadInv, ListenersInv PROVE DoneMeansServed
    OBVIOUS
  <2>1. phase = "Done" => active = served
    BY DEF ThreadInv, PhaseFollowsTheThread, TypeOK, Steps, Notified
  <2>2. ASSUME NEW p \in Plugins, NEW i \in DOMAIN called[p], called[p][i].phase = "Done"
        PROVE  active = called[p][i].served
    <3>1. called[p] # <<>>
      BY <2>2
    <3>2. called[p] = << [phase |-> phase, served |-> served] >>
      BY <3>1 DEF ListenersInv, CalledOnceWithTheResult
    <3> QED
      BY <2>1, <2>2, <3>2
  <2> QED
    BY <2>1, <2>2 DEF DoneMeansServed
<1> QED
  BY <1>1, TypeCorrect, ThreadCorrect, ListenersCorrect, PTL

-----------------------------------------------------------------------------
(* Control implements MergeOnce: each step of the calls and of the         *)
(* merger's thread is a step of MergeOnce or changes nothing of what       *)
(* MergeOnce speaks of.                                                    *)

\* The result MergeOnce speaks of, as Control's mapping gives it.
Result == IF phase \in Over THEN [phase |-> phase, served |-> served] ELSE NoPlan

\* A result is not what stands for its absence.
LEMMA ResultsAreNotPlans ==
  ASSUME NEW ph, NEW n
  PROVE  [phase |-> ph, served |-> n] # NoPlan
<1>1. "profile" \in DOMAIN NoPlan /\ "profile" \notin DOMAIN [phase |-> ph, served |-> n]
  BY DEF NoPlan
<1> QED
  BY <1>1

\* Nothing is chosen, decided or told at the start.
LEMMA StartsUndecided == Init => Once!Init
BY DEF Init, Once!Init, Over

\* A step that touches neither the plan, nor the end, nor a callback.
LEMMA OtherSteps ==
  ASSUME [Next]_vars
  PROVE  \/ UNCHANGED <<plan, phase, served, called>>
         \/ TakePlan \/ Finish \/ Notify \/ \E p \in Plugins : CallRightAway(p)
<1>1. ASSUME NEW p \in Plugins, OwnerCalls(p)
      PROVE  UNCHANGED <<plan, phase, served, called>>
  BY <1>1, OwnerCallsBeforeTheMerge DEF merger, listeners
<1> QED
  BY <1>1 DEF Next, Merger, vars, state, listeners, merger, Expire, OnMergedBefore, OnMergedAfter,
              StartWaiting, Disabled, StopWaiting, MergeFails, MergeServes, EndNotify

\* wait_for_plan closes the list: the one choice of MergeOnce.
LEMMA TakePlanSettles ==
  ASSUME TypeOK, ThreadInv, TakePlan
  PROVE  Once!Settle
<1>1. plan = NoPlan /\ phase \notin Over /\ phase' \notin Over
  BY DEF TakePlan, ThreadInv, PhaseFollowsTheThread, PlanFollowsTheThread, Over
<1>2. plan' \in Plans
  BY PlanType DEF TakePlan, TypeOK
<1> QED
  BY <1>1, <1>2 DEF TakePlan, Once!Settle, listeners

\* finish publishes the result: the end, and a failure where no list was taken.
LEMMA FinishEnds ==
  ASSUME TypeOK, ThreadInv, Finish
  PROVE  Once!End
<1>1. phase \notin Over /\ phase' \in Over
  BY DEF Finish, TypeOK, Results, ThreadInv, PhaseFollowsTheThread, Over
<1>2. /\ plan = NoPlan => phase' = "Failed" /\ served' = 0
      /\ phase' = "Failed" => served' = 0
      /\ served' \in 0..MaxServed /\ phase' \in {"Done", "Failed"}
  BY DEF Finish, TypeOK, Results, ThreadInv, PhaseFollowsTheThread, PlanFollowsTheThread, Notified
<1> QED
  BY <1>1, <1>2 DEF Finish, Once!End, listeners

\* A callback called by the merger's thread: a listener told, for the first time.
LEMMA NotifyTells ==
  ASSUME TypeOK, ThreadInv, ListenersInv, Notify
  PROVE  \E p \in Plugins : Once!Tell(p)
<1> DEFINE p == Head(pending)
<1>1. /\ pending # <<>> /\ pending \in Seq(Plugins) /\ Distinct(pending) /\ phase \in Over
      /\ outcome = [phase |-> phase, served |-> served]
  BY DEF Notify, Notified, ListenersInv, Listeners, ThreadInv, PhaseFollowsTheThread, TypeOK, Results, Over
<1>2. p \in Plugins /\ p \in Elements(pending)
  BY <1>1, DistinctTail, HeadTailProperties
<1>3. called[p] = <<>>
  BY <1>2 DEF ListenersInv, Listeners
<1>4. called' = [called EXCEPT ![p] = <<[phase |-> phase, served |-> served]>>]
  BY <1>1, <1>3 DEF Notify
<1>5. Once!Tell(p)
  BY <1>1, <1>3, <1>4, ResultsAreNotPlans DEF Notify, Once!Tell
<1> QED
  BY <1>2, <1>5

\* A callback called by the thread that asked, after the end.
LEMMA CallRightAwayTells ==
  ASSUME ListenersInv, NEW p \in Plugins, CallRightAway(p)
  PROVE  Once!Tell(p)
<1>1. called[p] = <<>> /\ phase \in Over /\ answer[p] = [phase |-> phase, served |-> served]
  BY DEF CallRightAway, ListenersInv, Listeners
<1>2. called' = [called EXCEPT ![p] = <<[phase |-> phase, served |-> served]>>]
  BY <1>1 DEF CallRightAway
<1> QED
  BY <1>1, <1>2, ResultsAreNotPlans DEF CallRightAway, Once!Tell, merger

\* What the API promises is what the code does: the list of mods is chosen once, the
\* merge ends once, each listener is told the end once (control.rs wait_for_plan,
\* finish, on_merged).
THEOREM ControlMergesOnce == Spec => MergesOnce
<1>1. Init => Once!Init
  BY StartsUndecided
<1>2. TypeOK /\ ThreadInv /\ ListenersInv /\ [Next]_vars => [Once!Next]_<<plan, Result, called>>
  <2> SUFFICES ASSUME TypeOK, ThreadInv, ListenersInv, [Next]_vars
               PROVE  [Once!Next]_<<plan, Result, called>>
    OBVIOUS
  <2>1. CASE UNCHANGED <<plan, phase, served, called>>
    BY <2>1 DEF Result
  <2>2. CASE TakePlan
    BY <2>2, TakePlanSettles DEF Once!Next
  <2>3. CASE Finish
    BY <2>3, FinishEnds DEF Once!Next
  <2>4. CASE Notify
    BY <2>4, NotifyTells DEF Once!Next
  <2>5. ASSUME NEW p \in Plugins, CallRightAway(p)
        PROVE  Once!Next
    BY <2>5, CallRightAwayTells DEF Once!Next
  <2> QED
    BY <2>1, <2>2, <2>3, <2>4, <2>5, OtherSteps
<1> QED
  BY <1>1, <1>2, TypeCorrect, ThreadCorrect, ListenersCorrect, PTL DEF Spec, MergesOnce, Once!Spec, Result
=============================================================================
