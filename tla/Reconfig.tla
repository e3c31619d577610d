------------------------------ MODULE Reconfig ------------------------------
(***************************************************************************)
(* Reconfiguration of the ring (proxy.rs): every driver keeps the set of    *)
(* nodes it takes for dead and the successor it sends to.  A crash that its *)
(* failure detector confirms, or that a token tells it of, is excluded;     *)
(* the token of a rejoiner re-includes it.  Both freeze delivery until the  *)
(* recovery plan of the view change is applied.                             *)
(*                                                                          *)
(* The failure detector and the view-change state machine are outside this  *)
(* repository.  They are modelled by what the driver relies on: strikes add *)
(* up to a confirmation; a Gather goes round until the lowest-id survivor   *)
(* holds the reports of all survivors, who then sends an Install round; a   *)
(* token of a view that is installed already is fenced, i.e. dropped.       *)
(* Trains and deliveries are in Replication.                                *)
(***************************************************************************)
EXTENDS Integers, Sequences, FiniteSets, FiniteSetsExt

CONSTANTS
  N,                \* the number of nodes; their ids are 0 .. N-1
  NumTrains,        \* nodes below it issue trains
  StrikeThreshold,  \* strikes that confirm a crash
  MaxCrashes,       \* bound: crashes
  MaxWrong          \* bound: signs of a crash about a node that is up, and
                    \* confirmations by hand

ASSUME ReconfigAssumption ==
  /\ N \in Nat \ {0}
  /\ NumTrains \in 0 .. N
  /\ StrikeThreshold \in Nat \ {0}
  /\ MaxCrashes \in Nat /\ MaxWrong \in Nat

Ring == 0 .. N - 1

VARIABLES
  mode,       \* "active" with a driver on the ring, "down", or "standby" off the ring
  dead,       \* dead[n]: the nodes that n excludes
  succ,       \* succ[n]: the node that n sends to
  frozen,     \* is delivery frozen at n?
  view,       \* the view that n has installed
  strikes,    \* strikes[n][v]: what the detector of n holds against v
  confirmed,  \* the crashes that the detector of n has confirmed
  signals,    \* <<n, v>>: the transport of n has yet to report that v is unreachable
  inbox,      \* inbox[n]: view-change tokens on their way to n
  spoiled,    \* has a token been lost in a crash, or fenced after it was acted on? (history)
  told,       \* who was told of its own crash by hand since it started (history)
  crashes,    \* crashes so far
  wrong       \* such signs so far

members == <<dead, succ, frozen, view>>
detector == <<strikes, confirmed>>
vars == <<mode, members, detector, signals, inbox, spoiled, told, crashes, wrong>>

Token == [kind : {"gather", "install", "regather", "reinstall"},
          node : Ring, view : Nat, reports : SUBSET Ring]

TypeOK ==
  /\ mode \in [Ring -> {"active", "down", "standby"}]
  /\ dead \in [Ring -> SUBSET Ring]
  /\ succ \in [Ring -> Ring]
  /\ frozen \in [Ring -> BOOLEAN]
  /\ view \in [Ring -> Nat]
  /\ strikes \in [Ring -> [Ring -> 0 .. StrikeThreshold]]
  /\ confirmed \in [Ring -> SUBSET Ring]
  /\ signals \subseteq Ring \X Ring
  /\ inbox \in [Ring -> Seq(Token)]
  /\ spoiled \in BOOLEAN
  /\ told \subseteq Ring
  /\ crashes \in 0 .. MaxCrashes /\ wrong \in 0 .. MaxWrong

Active(n) == mode[n] = "active"

\* The first node after n on the ring that is not among the gone, n itself if
\* there is no other.
NextAlive(n, gone) ==
  LET steps == {d \in 1 .. N - 1 : (n + d) % N \notin gone}
  IN  IF steps = {} THEN n ELSE (n + Min(steps)) % N

Init ==
  /\ mode = [n \in Ring |-> "active"]
  /\ dead = [n \in Ring |-> {}]
  /\ succ = [n \in Ring |-> (n + 1) % N]
  /\ frozen = [n \in Ring |-> FALSE]
  /\ view = [n \in Ring |-> 0]
  /\ strikes = [n \in Ring |-> [v \in Ring |-> 0]]
  /\ confirmed = [n \in Ring |-> {}]
  /\ signals = {}
  /\ inbox = [n \in Ring |-> <<>>]
  /\ spoiled = FALSE
  /\ told = {}
  /\ crashes = 0 /\ wrong = 0

-----------------------------------------------------------------------------
(* Membership.  A driver's part of it: [dead, succ, frozen, view]. *)

Mine(n) == [dead |-> dead[n], succ |-> succ[n], frozen |-> frozen[n], view |-> view[n]]

Become(n, m) ==
  /\ dead' = [dead EXCEPT ![n] = m.dead]
  /\ succ' = [succ EXCEPT ![n] = m.succ]
  /\ frozen' = [frozen EXCEPT ![n] = m.frozen]
  /\ view' = [view EXCEPT ![n] = m.view]

\* Slip: the way back to the rejoiner is forgotten.
ReadmitNoRetarget(n, m, rejoiner) ==
  IF rejoiner \notin m.dead THEN m ELSE [m EXCEPT !.dead = @ \ {rejoiner}, !.frozen = TRUE]

\* exclude: once per victim, freeze and retarget past it.
Exclude(n, m, victim) ==
  IF victim \in m.dead THEN m
  ELSE LET gone == m.dead \cup {victim}
       IN  [m EXCEPT !.dead = gone, !.frozen = TRUE, !.succ = NextAlive(n, gone)]

\* readmit: the inverse, a no-op for a node that is not excluded.
Readmit(n, m, rejoiner) ==
  IF rejoiner \notin m.dead THEN m
  ELSE LET gone == m.dead \ {rejoiner}
       IN  [m EXCEPT !.dead = gone, !.frozen = TRUE, !.succ = NextAlive(n, gone)]

-----------------------------------------------------------------------------
(* View change (external): what the state machine of n answers. *)

Answer(m, sent) == [m |-> m, sent |-> sent]

Survivors(m) == Ring \ m.dead

\* The plan is applied: delivery goes on, in view w.
Applied(m, w) == [m EXCEPT !.frozen = FALSE, !.view = w]

\* on_gather and on_readmit_gather: the lowest-id survivor decides.  A driver that
\* excludes itself is none.
OnGather(n, m, t) ==
  LET reports == t.reports \cup {n}
      done == /\ n \in Survivors(m) /\ n = Min(Survivors(m))
              /\ Survivors(m) \subseteq reports
  IN  IF done
      THEN Answer(Applied(m, t.view),
                  <<[t EXCEPT !.kind = IF @ = "gather" THEN "install" ELSE "reinstall",
                              !.reports = reports]>>)
      ELSE Answer(m, <<[t EXCEPT !.reports = reports]>>)

\* on_install and on_readmit_install.
OnInstall(n, m, t) == Answer(Applied(m, t.view), <<t>>)

OnToken(n, m, t) ==
  IF t.view <= m.view THEN Answer(m, <<>>)
  ELSE IF t.kind \in {"gather", "regather"} THEN OnGather(n, m, t)
  ELSE OnInstall(n, m, t)

\* on_confirm and on_request_readmit: a Gather for the next view.
NewToken(n, m, kind, about) == [kind |-> kind, node |-> about, view |-> m.view + 1, reports |-> {n}]

-----------------------------------------------------------------------------
(* Steps of a driver *)

\* execute: n becomes what the state machine answers, and what it sends goes to
\* its successor of that moment; a token for a node that is off the ring is lost.
Execute(n, a, rest) ==
  LET to == a.m.succ
      arrives == Active(to) \/ to = n
  IN  /\ Become(n, a.m)
      /\ inbox' = [rest EXCEPT ![to] = IF arrives THEN @ \o a.sent ELSE @]
      /\ spoiled' = (spoiled \/ (a.sent # <<>> /\ ~arrives))

\* handle_crash_confirmed.
HandleCrashConfirmed(n, victim) ==
  LET m == Exclude(n, Mine(n), victim)
  IN  Execute(n, Answer(m, <<NewToken(n, m, "gather", victim)>>), inbox)

\* What a sign of a crash may be about: a node that is off the ring, or, wrongly,
\* one that is on it.
Sign(v) ==
  /\ Active(v) => wrong < MaxWrong
  /\ wrong' = wrong + (IF Active(v) THEN 1 ELSE 0)

\* Slip: confirmed crashes are counted again.
StillCounted(n, v) == TRUE

\* The hints that process_hints looks at.
Counted(n, v) == v \notin confirmed[n]

\* process_hints for one victim: the core (external) has seen a gap in the clock
\* of another issuer; of its own it misses no train.
ProcessHint(n, v) ==
  /\ Active(n) /\ v # n /\ v < NumTrains
  /\ Counted(n, v)
  /\ Sign(v)
  /\ strikes' = [strikes EXCEPT ![n][v] = @ + 1]
  /\ IF strikes[n][v] + 1 >= StrikeThreshold
     THEN /\ confirmed' = [confirmed EXCEPT ![n] = @ \cup {v}]
          /\ HandleCrashConfirmed(n, v)
     ELSE UNCHANGED <<confirmed, members, inbox, spoiled>>
  /\ UNCHANGED <<mode, signals, told, crashes>>

\* A train of v reaches n: its strikes are forgotten.
NoteAlive(n, v) ==
  /\ Active(n) /\ Active(v) /\ v < NumTrains
  /\ strikes[n][v] \in 1 .. StrikeThreshold - 1
  /\ strikes' = [strikes EXCEPT ![n][v] = 0]
  /\ UNCHANGED <<mode, members, confirmed, signals, inbox, spoiled, told, crashes, wrong>>

\* The transport (external) cannot reach the successor and says so.  A driver that
\* is its own successor has nobody to reach.
ConnectorFails(n) ==
  /\ Active(n) /\ succ[n] # n
  /\ <<n, succ[n]>> \notin signals
  /\ Sign(succ[n])
  /\ signals' = signals \cup {<<n, succ[n]>>}
  /\ UNCHANGED <<mode, members, detector, inbox, spoiled, told, crashes>>

\* The unreachable arm of driver_loop.  A disconnect weighs as much as the
\* threshold; a detector that has confirmed the node before may stay silent.
Unreachable(n, v) ==
  /\ Active(n)
  /\ <<n, v>> \in signals
  /\ signals' = signals \ {<<n, v>>}
  /\ \/ /\ v \notin dead[n]
        /\ strikes' = [strikes EXCEPT ![n][v] = StrikeThreshold]
        /\ confirmed' = [confirmed EXCEPT ![n] = @ \cup {v}]
        /\ HandleCrashConfirmed(n, v)
     \/ /\ v \in dead[n] \/ v \in confirmed[n]
        /\ UNCHANGED <<detector, members, inbox, spoiled>>
  /\ UNCHANGED <<mode, told, crashes, wrong>>

\* The control channel: the crash of v is confirmed by hand, rightly or not; the
\* detector is not asked.  Nothing keeps n from being told of its own crash, which
\* it then believes, like any other.
ConfirmCrash(n, v) ==
  /\ Active(n)
  /\ wrong < MaxWrong /\ wrong' = wrong + 1
  /\ HandleCrashConfirmed(n, v)
  /\ told' = told \cup ({n} \cap {v})
  /\ UNCHANGED <<mode, detector, signals, crashes>>

\* Slip: only the detector changes the membership.
LearnNothing(n, t) == Mine(n)

\* The first half of handle_vc: learn what the token is about.
Learn(n, t) ==
  IF t.kind \in {"regather", "reinstall"}
  THEN Readmit(n, Mine(n), t.node)
  ELSE Exclude(n, Mine(n), t.node)

\* handle_vc: learn, then ask the state machine, which may drop the token.
HandleVc(n) ==
  /\ Active(n) /\ inbox[n] # <<>>
  /\ LET t == Head(inbox[n])
         m == Learn(n, t)
         rest == [inbox EXCEPT ![n] = Tail(@)]
     IN  IF t.view <= m.view /\ m # Mine(n)
         THEN /\ Become(n, m)
              /\ inbox' = rest
              /\ spoiled' = TRUE
         ELSE Execute(n, OnToken(n, m, t), rest)
  /\ UNCHANGED <<mode, detector, signals, told, crashes, wrong>>

-----------------------------------------------------------------------------
(* Crash, restart, promotion *)

Crash(n) ==
  /\ Active(n) /\ crashes < MaxCrashes
  /\ \E s \in Ring \ {n} : Active(s)
  /\ mode' = [mode EXCEPT ![n] = "down"]
  /\ signals' = {x \in signals : x[1] # n}
  /\ inbox' = [inbox EXCEPT ![n] = <<>>]
  /\ spoiled' = (spoiled \/ inbox[n] # <<>>)
  /\ told' = told \ {n}
  /\ crashes' = crashes + 1
  /\ UNCHANGED <<members, detector, wrong>>

Restart(n) ==
  /\ mode[n] = "down"
  /\ mode' = [mode EXCEPT ![n] = "standby"]
  /\ UNCHANGED <<members, detector, signals, inbox, spoiled, told, crashes, wrong>>

\* Slip: the survivors' dead set is taken over as it is.
SeedOfSurvivor(n, s) == dead[s]

\* The dead set that a promoted driver starts with: that of the survivor, who
\* has excluded us, without ourselves.
SeedDead(n, s) == dead[s] \ {n}

\* driver_loop from a promotion seed: adopt the view of the survivor s, then ask
\* to be re-admitted.  The core's state is imported from s, frozen or not.
Promote(n, s) ==
  LET gone == SeedDead(n, s)
  IN  \E f \in {FALSE, frozen[s]} :
        LET m == [dead |-> gone, succ |-> NextAlive(n, gone), frozen |-> f, view |-> view[s]]
        IN  /\ mode[n] = "standby" /\ Active(s)
            /\ mode' = [mode EXCEPT ![n] = "active"]
            /\ strikes' = [strikes EXCEPT ![n] = [v \in Ring |-> 0]]
            /\ confirmed' = [confirmed EXCEPT ![n] = {}]
            /\ Execute(n, Answer(m, <<NewToken(n, m, "regather", n)>>), inbox)
            /\ UNCHANGED <<signals, told, crashes, wrong>>

Next ==
  \/ \E n, v \in Ring : ProcessHint(n, v) \/ NoteAlive(n, v) \/ Unreachable(n, v)
                         \/ ConfirmCrash(n, v) \/ Promote(n, v)
  \/ \E n \in Ring : ConnectorFails(n) \/ HandleVc(n) \/ Crash(n) \/ Restart(n)

Spec == Init /\ [][Next]_vars

\* The drivers' select! loops serve tokens and signals, and the transport finds
\* out that a successor is down.
Fairness ==
  \A n \in Ring :
    /\ WF_vars(HandleVc(n))
    /\ WF_vars(\E v \in Ring : Unreachable(n, v))
    /\ WF_vars(~Active(succ[n]) /\ ConnectorFails(n))

FairSpec == Spec /\ Fairness

-----------------------------------------------------------------------------
\* No driver excludes itself unless it has been told by hand, since it started, that
\* it has crashed: neither the suspicions of others nor the tokens about its crash
\* that still go round when it is back, nor the dead set it is promoted with, nor
\* what another driver was told make it confirm its own crash in its core.
NoSelfExclusion == \A n \in Ring : Active(n) /\ n \in dead[n] => n \in told

\* Where a driver's exclusions are exactly the nodes off the ring, its successor
\* is the next node on it: once they all agree the active nodes form one ring, in
\* the order of their ids, in which none is cut off.
RingIsClosed ==
  LET onRing == {n \in Ring : Active(n)}
  IN  \A n \in onRing :
        dead[n] = Ring \ onRing =>
          /\ succ[n] \in onRing
          /\ \A d \in 1 .. N - 1 : (n + d) % N \in onRing => (succ[n] - n) % N <= d

Healed ==
  \A n \in Ring : Active(n) => ~frozen[n] /\ dead[n] = {m \in Ring : ~Active(m)}

\* The ring heals: after a crash, and after the crashed node has come back, every
\* driver on the ring ends up with the same membership, the right one, and
\* delivers again, although exclusion and re-admission may overlap.  Not so if a
\* token was lost in a crash, if one was fenced after handle_vc had acted on it, or
\* if a node that is up was accused, by a signal from before its restart too.
RingHeals ==
  \/ []<>Healed
  \/ <>(spoiled \/ wrong > 0 \/ \E x \in signals : Active(x[2]))
=============================================================================
