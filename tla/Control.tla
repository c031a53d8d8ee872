------------------------------ MODULE Control ------------------------------
(***************************************************************************)
(* Handing the choice of mods over to another plugin                       *)
(* (sharedlibs/totk-merge/src/control.rs), with the thread of              *)
(* totk-mod-merger-plugin that waits for the list, merges it, serves it    *)
(* and tells whoever asked (totk-mod-merger-plugin/src/lib.rs).            *)
(*                                                                         *)
(* Every tkm_* call is one critical section of the STATE mutex, hence one  *)
(* action.  The merger's thread takes the mutex once per round of its      *)
(* waiting loop and once more to take the plan: two actions, and the calls *)
(* of other threads fall in between.  A call that is refused changes       *)
(* nothing and is not an action.                                           *)
(***************************************************************************)
EXTENDS Naturals, Sequences

CONSTANTS
  Plugins,      \* plugins that may take control, or ask to be told
  NoOwner,      \* stands for "no plugin has control"
  Paths,        \* what tkm_add_mod may be handed
  NotMods,      \* the paths mods::classify does not recognise
  Options,      \* options tkm_select_option may choose
  Dirs,         \* folders tkm_set_merged_dir may be given
  NoDir,        \* stands for "no folder was given"
  MaxTakes,     \* bound: how many times control is granted
  MaxMods,      \* bound: length of the list of mods
  MaxServed     \* bound: number of files a merge serves

ASSUME ControlAssumption ==
  /\ NoOwner \notin Plugins
  /\ NoDir \notin Dirs
  /\ NotMods \subseteq Paths
  /\ MaxTakes \in Nat /\ MaxMods \in Nat /\ MaxServed \in Nat

VARIABLES
  \* State, behind the mutex
  owner,        \* Owner.name, or NoOwner
  token,        \* Owner.token; tokens are numbered, 0 is never one
  committed, localMods, mods, mergedDir, phase, served,
  callbacks,    \* plugins to call once the merge is over, in order
  counter,
  expired,      \* taken_at.elapsed() has reached the owner's timeout
  \* the plugins
  tokens,       \* every token a plugin was ever given
  asked,        \* "no", "yes" (on_merged returned), "calling" (about to call back)
  answer,       \* what on_merged read before it released the mutex
  called,       \* what a plugin's callback was called with, in order
  \* the merger's thread
  pc, plan, outcome, active, pending

state == <<owner, token, committed, localMods, mods, mergedDir, counter, expired, tokens>>
listeners == <<asked, answer, called>>
merger == <<pc, plan, outcome, active, pending>>
vars == <<state, phase, served, callbacks, listeners, merger>>

ApiMods == [path: Paths, options: SUBSET Options]
NoPlan == [profile |-> NoOwner, local |-> FALSE, mods |-> <<>>, dir |-> <<"none">>]
Results == [phase: {"Done", "Failed"}, served: 0..MaxServed]
Over == {"Done", "Failed"}

Init ==
  /\ owner = NoOwner /\ token = 0 /\ committed = FALSE /\ localMods = TRUE
  /\ mods = <<>> /\ mergedDir = NoDir /\ phase = "Waiting" /\ served = 0
  /\ callbacks = <<>> /\ counter = 0 /\ expired = FALSE
  /\ tokens = [p \in Plugins |-> {}]
  /\ asked = [p \in Plugins |-> "no"]
  /\ answer = [p \in Plugins |-> [phase |-> "Failed", served |-> 0]]
  /\ called = [p \in Plugins |-> <<>>]
  /\ pc = "plugins" /\ plan = NoPlan /\ active = 0 /\ pending = <<>>
  /\ outcome = [phase |-> "Failed", served |-> 0]

-----------------------------------------------------------------------------
(* The calls of the plugin that has control.                               *)

\* Mutant of WithOwner: the phase is not looked at.
WithOwnerAtAnyTime(t) ==
  /\ owner # NoOwner
  /\ token = t /\ t # 0

\* with_owner: the token is the current owner's and mods can still be changed.
WithOwner(t) ==
  /\ phase = "Waiting"
  /\ owner # NoOwner
  /\ token = t /\ t # 0

\* Mutant of TakeControl: the token does not depend on the counter.
TakeControlWithAFixedToken(p) ==
  /\ phase = "Waiting" /\ owner = NoOwner
  /\ counter < MaxTakes
  /\ counter' = counter + 1
  /\ owner' = p /\ token' = 1
  /\ tokens' = [tokens EXCEPT ![p] = @ \cup {1}]
  /\ committed' = FALSE /\ localMods' = FALSE /\ mods' = <<>> /\ expired' = FALSE
  /\ UNCHANGED <<mergedDir, phase, served, callbacks, listeners, merger>>

\* A new owner starts from an empty list, without the SD card's mods.
TakeControl(p) ==
  /\ phase = "Waiting" /\ owner = NoOwner
  /\ counter < MaxTakes
  /\ counter' = counter + 1
  /\ owner' = p /\ token' = counter'
  /\ tokens' = [tokens EXCEPT ![p] = @ \cup {counter'}]
  /\ committed' = FALSE /\ localMods' = FALSE /\ mods' = <<>> /\ expired' = FALSE
  /\ UNCHANGED <<mergedDir, phase, served, callbacks, listeners, merger>>

\* Mutant of ReleaseControl: the folder chosen by the owner stays.
ReleaseControlKeepsTheDir(t) ==
  /\ WithOwner(t)
  /\ owner' = NoOwner /\ token' = 0
  /\ committed' = FALSE /\ localMods' = TRUE /\ mods' = <<>>
  /\ expired' = FALSE
  /\ UNCHANGED <<mergedDir, counter, tokens, phase, served, callbacks, listeners, merger>>

ReleaseControl(t) ==
  /\ WithOwner(t)
  /\ owner' = NoOwner /\ token' = 0
  /\ committed' = FALSE /\ localMods' = TRUE /\ mods' = <<>> /\ mergedDir' = NoDir
  /\ expired' = FALSE
  /\ UNCHANGED <<counter, tokens, phase, served, callbacks, listeners, merger>>

SetLocalModsEnabled(t, enabled) ==
  /\ WithOwner(t)
  /\ localMods' = enabled
  /\ UNCHANGED <<owner, token, committed, mods, mergedDir, counter, expired, tokens>>
  /\ UNCHANGED <<phase, served, callbacks, listeners, merger>>

\* clear_mods, add_mod and select_option differ in the list they leave.
SetMods(t, list) ==
  /\ WithOwner(t)
  /\ mods' = list
  /\ UNCHANGED <<owner, token, committed, localMods, mergedDir, counter, expired, tokens>>
  /\ UNCHANGED <<phase, served, callbacks, listeners, merger>>

ClearMods(t) == SetMods(t, <<>>)

AddMod(t, path) ==
  /\ Len(mods) < MaxMods
  /\ SetMods(t, Append(mods, [path |-> path, options |-> {}]))

SelectOption(t, index, option) ==
  /\ index \in 1..Len(mods)
  /\ SetMods(t, [mods EXCEPT ![index].options = @ \cup {option}])

SetMergedDir(t, dir) ==
  /\ WithOwner(t)
  /\ mergedDir' = dir
  /\ UNCHANGED <<owner, token, committed, localMods, mods, counter, expired, tokens>>
  /\ UNCHANGED <<phase, served, callbacks, listeners, merger>>

Commit(t) ==
  /\ WithOwner(t)
  /\ committed' = TRUE
  /\ UNCHANGED <<owner, token, localMods, mods, mergedDir, counter, expired, tokens>>
  /\ UNCHANGED <<phase, served, callbacks, listeners, merger>>

OwnerCalls(p) ==
  \/ TakeControl(p)
  \/ \E t \in tokens[p] :
       \/ ReleaseControl(t)
       \/ \E enabled \in BOOLEAN : SetLocalModsEnabled(t, enabled)
       \/ ClearMods(t)
       \/ \E path \in Paths : AddMod(t, path)
       \/ \E index \in 1..MaxMods, option \in Options : SelectOption(t, index, option)
       \/ \E dir \in Dirs : SetMergedDir(t, dir)
       \/ Commit(t)

\* Time passes: the smaller of the owner's timeout and control_timeout_ms is
\* reached.  Timeouts are arbitrary, so it may be at any moment.
Expire ==
  /\ owner # NoOwner /\ ~expired
  /\ expired' = TRUE
  /\ UNCHANGED <<owner, token, committed, localMods, mods, mergedDir, counter, tokens>>
  /\ UNCHANGED <<phase, served, callbacks, listeners, merger>>

-----------------------------------------------------------------------------
(* tkm_on_merged.                                                          *)

\* Mutant of OnMergedBefore: the callback is kept for the merger's thread even
\* when that thread has already taken the callbacks it will ever call.
OnMergedAlwaysKeeps(p) ==
  /\ asked[p] = "no"
  /\ callbacks' = Append(callbacks, p)
  /\ asked' = [asked EXCEPT ![p] = "yes"]
  /\ UNCHANGED <<state, phase, served, answer, called, merger>>

\* Mutant of OnMergedBefore: the callback is kept and called as well.
OnMergedKeepsAndCalls(p) ==
  /\ asked[p] = "no" /\ phase \notin Over
  /\ callbacks' = Append(callbacks, p)
  /\ asked' = [asked EXCEPT ![p] = "calling"]
  /\ answer' = [answer EXCEPT ![p] = [phase |-> "Failed", served |-> served]]
  /\ UNCHANGED <<state, phase, served, called, merger>>

\* The merge is not over: the callback is kept for the merger's thread.
OnMergedBefore(p) ==
  /\ asked[p] = "no" /\ phase \notin Over
  /\ callbacks' = Append(callbacks, p)
  /\ asked' = [asked EXCEPT ![p] = "yes"]
  /\ UNCHANGED <<state, phase, served, answer, called, merger>>

\* It is over: read the result, release the mutex...
OnMergedAfter(p) ==
  /\ asked[p] = "no" /\ phase \in Over
  /\ asked' = [asked EXCEPT ![p] = "calling"]
  /\ answer' = [answer EXCEPT ![p] = [phase |-> phase, served |-> served]]
  /\ UNCHANGED <<state, phase, served, callbacks, called, merger>>

\* ... and call back from the thread that asked.
CallRightAway(p) ==
  /\ asked[p] = "calling"
  /\ asked' = [asked EXCEPT ![p] = "yes"]
  /\ called' = [called EXCEPT ![p] = Append(@, answer[p])]
  /\ UNCHANGED <<state, phase, served, callbacks, answer, merger>>

-----------------------------------------------------------------------------
(* The merger's thread.                                                    *)

\* Every plugin's main has returned: merge_and_serve calls wait_for_plan.
StartWaiting ==
  /\ pc = "plugins"
  /\ pc' = "polling"
  /\ UNCHANGED <<state, phase, served, callbacks, listeners, plan, outcome, active, pending>>

\* enabled = 0 in config.ini: main ends with finish(Failed, 0).
Disabled ==
  /\ pc = "plugins"
  /\ pc' = "finishing"
  /\ outcome' = [phase |-> "Failed", served |-> 0]
  /\ UNCHANGED <<state, phase, served, callbacks, listeners, plan, active, pending>>

\* Mutant of StopWaiting: the timeout is not looked at.
StopWaitingNeverInTime ==
  /\ pc = "polling"
  /\ owner = NoOwner \/ committed
  /\ pc' = "settled"
  /\ UNCHANGED <<state, phase, served, callbacks, listeners, plan, outcome, active, pending>>

\* A round of the waiting loop that leaves it.  The mutex is released here.
StopWaiting ==
  /\ pc = "polling"
  /\ owner = NoOwner \/ committed \/ expired
  /\ pc' = "settled"
  /\ UNCHANGED <<state, phase, served, callbacks, listeners, plan, outcome, active, pending>>

IsMod(entry) == entry.path \notin NotMods

\* The folder: the one asked for, one named after the owner, or the usual one.
MergedDir(who, dir) ==
  CASE dir # NoDir -> <<"given", dir>>
    [] dir = NoDir /\ who # NoOwner -> <<"of", who>>
    [] OTHER -> <<"usual">>

\* Stands in the plan for an entry that is not a mod: it is left out of the merge.
Skipped == [path |-> NoDir, options |-> {}]

PlanOf(who, local, list, dir) ==
  [profile |-> who, local |-> local, dir |-> MergedDir(who, dir),
   mods |-> [i \in DOMAIN list |-> IF IsMod(list[i]) THEN list[i] ELSE Skipped]]

\* wait_for_plan takes the mutex again, for good: the list is closed.
TakePlan ==
  /\ pc = "settled"
  /\ pc' = "merging"
  /\ phase' = "Merging"
  /\ plan' = PlanOf(owner, localMods, mods, mergedDir)
  /\ UNCHANGED <<state, served, callbacks, listeners, outcome, active, pending>>

\* The merge fails (or its thread panics or cannot be started).
MergeFails ==
  /\ pc = "merging"
  /\ pc' = "finishing"
  /\ outcome' = [phase |-> "Failed", served |-> 0]
  /\ UNCHANGED <<state, phase, served, callbacks, listeners, plan, active, pending>>

\* Mutant of MergeServes: the end is announced before vfs::install.
MergeServesLater(n) ==
  /\ pc = "merging"
  /\ pc' = "finishing"
  /\ outcome' = [phase |-> "Done", served |-> n]
  /\ UNCHANGED <<state, phase, served, callbacks, listeners, plan, active, pending>>

\* It succeeds: vfs::install makes its redirects active (none, nothing to do).
MergeServes(n) ==
  /\ pc = "merging"
  /\ pc' = "finishing"
  /\ outcome' = [phase |-> "Done", served |-> n]
  /\ active' = n
  /\ UNCHANGED <<state, phase, served, callbacks, listeners, plan, pending>>

\* finish: the result is published and the callbacks taken under the mutex...
Finish ==
  /\ pc = "finishing"
  /\ pc' = "notifying"
  /\ phase' = outcome.phase /\ served' = outcome.served
  /\ pending' = callbacks /\ callbacks' = <<>>
  /\ UNCHANGED <<state, listeners, plan, outcome, active>>

\* Mutant of Notify: the callback is not taken out of the list.
NotifyAgain ==
  /\ pc = "notifying" /\ pending # <<>>
  /\ Len(called[Head(pending)]) < 2
  /\ called' = [called EXCEPT ![Head(pending)] = Append(@, outcome)]
  /\ UNCHANGED <<state, phase, served, callbacks, asked, answer, pc, plan, outcome, active, pending>>

\* ... then called one after the other, without it.
Notify ==
  /\ pc = "notifying" /\ pending # <<>>
  /\ called' = [called EXCEPT ![Head(pending)] = Append(@, outcome)]
  /\ pending' = Tail(pending)
  /\ UNCHANGED <<state, phase, served, callbacks, asked, answer, pc, plan, outcome, active>>

EndNotify ==
  /\ pc = "notifying" /\ pending = <<>>
  /\ pc' = "over"
  /\ UNCHANGED <<state, phase, served, callbacks, listeners, plan, outcome, active, pending>>

Merger ==
  \/ StartWaiting \/ Disabled \/ StopWaiting \/ TakePlan
  \/ MergeFails \/ (\E n \in 0..MaxServed : MergeServes(n))
  \/ Finish \/ Notify \/ EndNotify

Next ==
  \/ \E p \in Plugins : OwnerCalls(p)
  \/ Expire
  \/ \E p \in Plugins : OnMergedBefore(p) \/ OnMergedAfter(p) \/ CallRightAway(p)
  \/ Merger

(***************************************************************************)
(* Fairness: the merger's thread keeps running, time keeps passing, and a  *)
(* thread inside on_merged returns from it.  Nobody has to call anything:  *)
(* no plugin is assumed to commit or to release control.                   *)
(***************************************************************************)
Fairness ==
  /\ WF_vars(Merger)
  /\ WF_vars(Expire)
  /\ \A p \in Plugins : WF_vars(CallRightAway(p))

Spec == Init /\ [][Next]_vars
FairSpec == Spec /\ Fairness
-----------------------------------------------------------------------------
(* Properties.                                                             *)

Plans == [profile : Plugins \cup {NoOwner}, local : BOOLEAN, mods : Seq(ApiMods \cup {Skipped}),
          dir : {<<"usual">>} \cup ({"given"} \X Dirs) \cup ({"of"} \X Plugins)]

Steps == {"plugins", "polling", "settled", "merging", "finishing", "notifying", "over"}

\* The variables have the types of control.rs, and the bounds are kept.
TypeOK ==
  /\ owner \in Plugins \cup {NoOwner} /\ token \in 0..MaxTakes
  /\ committed \in BOOLEAN /\ localMods \in BOOLEAN /\ expired \in BOOLEAN
  /\ mods \in Seq(ApiMods) /\ Len(mods) <= MaxMods
  /\ mergedDir \in Dirs \cup {NoDir}
  /\ phase \in {"Waiting", "Merging"} \cup Over /\ served \in 0..MaxServed
  /\ callbacks \in Seq(Plugins) /\ pending \in Seq(Plugins)
  /\ counter \in 0..MaxTakes
  /\ tokens \in [Plugins -> SUBSET (1..MaxTakes)]
  /\ asked \in [Plugins -> {"no", "yes", "calling"}]
  /\ answer \in [Plugins -> Results]
  /\ called \in [Plugins -> Seq(Results)]
  /\ pc \in Steps /\ outcome \in Results /\ active \in 0..MaxServed
  /\ plan \in Plans \cup {NoPlan}

\* control.rs release_control/take_control: while nobody has control the list is
\* the SD card's own, whatever an earlier owner added, chose or committed.
NoOwnerNoTrace ==
  owner = NoOwner => /\ localMods /\ mods = <<>> /\ mergedDir = NoDir
                     /\ ~committed /\ ~expired

\* control.rs with_owner: the token that changes the list was given to the owner
\* and to nobody else, and an owner's older tokens are dead.
OnlyTheOwnerHoldsTheToken ==
  owner # NoOwner => \A p \in Plugins : token \in tokens[p] <=> p = owner

\* control.rs wait_for_plan: the plan is the list as it stands once the calls are
\* refused. No accepted call is lost and none sneaks in after the plan is taken.
PlanIsTheList ==
  plan # NoPlan => plan = PlanOf(owner, localMods, mods, mergedDir)

\* control.rs on_merged/finish: a callback runs at most once, after the merge is
\* over, with the result every other caller of the API sees.
CalledOnceWithTheResult ==
  \A p \in Plugins :
    called[p] # <<>> =>
      /\ phase \in Over
      /\ called[p] = << [phase |-> phase, served |-> served] >>

\* lib.rs merge_and_serve: TKM_STATE_DONE is announced, by the phase or by a
\* callback, only when the redirects it counts are active.
DoneMeansServed ==
  /\ phase = "Done" => active = served
  /\ \A p \in Plugins : \A i \in DOMAIN called[p] :
       called[p][i].phase = "Done" => active = called[p][i].served

\* lib.rs and wait_for_plan: the game, blocked until then, gets an answer although
\* no plugin ever commits, releases control or even returns from its work.
MergeEnds == <>(phase \in Over)

\* on_merged: whoever asks is told, whenever it asks.
ListenersAreTold == \A p \in Plugins : asked[p] # "no" ~> called[p] # <<>>

\* The promise of MergeOnce, the plan and the result read off control.rs.
Once == INSTANCE MergeOnce WITH
          Listeners <- Plugins, Plans <- Plans, Undecided <- NoPlan,
          Failure <- [phase |-> "Failed", served |-> 0],
          Successes <- [phase : {"Done"}, served : 0..MaxServed],
          plan <- plan,
          result <- IF phase \in Over THEN [phase |-> phase, served |-> served] ELSE NoPlan,
          told <- called

\* Control implements MergeOnce: one list, one end, each listener told it once.
MergesOnce == Once!Spec

-----------------------------------------------------------------------------
(* What the comments say and the code does not do.                         *)

\* "The merge waits until the owner commits its list, releases control, or runs
\* out of time" (control.rs:5-6): it never starts while an owner that did none
\* of these has control.
WaitsForTheOwner ==
  [][phase = "Waiting" /\ phase' = "Merging" => owner = NoOwner \/ committed \/ expired]_vars
=============================================================================
