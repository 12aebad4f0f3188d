------------------------------ MODULE RegionProofs ------------------------------
(***************************************************************************)
(* Promotions and the topology they read, for any number of managers,      *)
(* requests, Jobs, keys and faults.                                        *)
(*                                                                         *)
(* Neither EpochsOnlyGrow nor CompletionIsEarned is inductive: a call acts *)
(* on what it learnt several steps ago.  The invariant says what it may    *)
(* still rely on: past Create the pending row of its key is its own, past  *)
(* Assign so is its epoch, and past Revalidate and Recover it has what a   *)
(* completion is made of.                                                  *)
(***************************************************************************)
EXTENDS RegionPromotion, FiniteSetTheorems, TLAPS

(* No leaf depends on how busy the machine is: each prover may take longer  *)
(* than its default of a few seconds.                                       *)
USE SMTT(30), ZenonT(30)

-------------------------------------------------------------------------------
(* The topology.                                                            *)

OnePrimary(regions) == Cardinality({i \in DOMAIN regions : regions[i].role = "primary"}) = 1

LoopSet ==
    [stage : {"begin", "select", "load", "report", "ended"}, read : {NotRead} \union [document : Documents, version : Nat],
     told : Nat, stop : BOOLEAN, canceled : BOOLEAN, released : BOOLEAN]

(* A loop whose stop channel was closed by a call that returned has ended;  *)
(* every loop but the newest was told to stop, and so was the newest of a   *)
(* watcher that is stopped or being replaced.  At most one call replaces    *)
(* a loop, since a second one panics.                                       *)
LoopTyped(x) == x \in LoopSet /\ (x.released => x.stage = "ended" /\ x.stop)
LoopsHold(ls, w) == \A l \in DOMAIN ls : LoopTyped(ls[l]) /\ (l # w.current \/ ~w.started => ls[l].stop)
AllTold(ls) == \A l \in DOMAIN ls : LoopTyped(ls[l]) /\ ls[l].stop
CallsWait(cs, ls, w) ==
    /\ \A c \in WatchCallers :
          /\ cs[c].op \in {"none", "watch", "stop"}
          /\ cs[c].op # "none" => cs[c].loop \in DOMAIN ls /\ ls[cs[c].loop].stop
          /\ cs[c].op = "watch" => w.started /\ cs[c].loop = w.current
    /\ \A c, d \in WatchCallers : cs[c].op = "watch" /\ cs[d].op = "watch" => c = d
WatcherInv ==
    /\ OnePrimary(loader.regions) /\ loader.version \in Nat
    /\ configMap \in [document : Documents, version : Nat]
    /\ watcher \in [started : BOOLEAN, current : Nat, panicked : BOOLEAN]
    /\ loops \in Seq(LoopSet) /\ watcher.current = Len(loops)
    /\ watcher.started => Len(loops) > 0
    /\ DOMAIN callers = WatchCallers
    /\ LoopsHold(loops, watcher)
    /\ CallsWait(callers, loops, watcher)

(* What a step of a loop does to it alone.                                  *)
LEMMA LoopMoves ==
  ASSUME WatcherInv, NEW l \in DOMAIN loops, NEW n \in LoopSet, loops' = [loops EXCEPT ![l] = n],
         n.stop = loops[l].stop, n.released = loops[l].released, ~loops[l].released,
         OnePrimary(loader'.regions), loader'.version \in Nat, UNCHANGED <<configMap, watcher, callers>>
  PROVE  WatcherInv' /\ \A k \in DOMAIN loops : loops[k].released => loops'[k] = loops[k]
<1>1. loops \in Seq(LoopSet) /\ DOMAIN loops = 1 .. Len(loops)
  BY DEF WatcherInv
<1>2. loops' \in Seq(LoopSet) /\ Len(loops') = Len(loops) /\ DOMAIN loops' = DOMAIN loops
      /\ \A k \in DOMAIN loops : loops'[k] = IF k = l THEN n ELSE loops[k]
  BY <1>1
<1>3. LoopsHold(loops', watcher)
  BY <1>2 DEF WatcherInv, LoopsHold, LoopTyped
<1>4. CallsWait(callers, loops', watcher)
  BY <1>2 DEF WatcherInv, CallsWait
<1> QED
  BY <1>2, <1>3, <1>4 DEF WatcherInv

(* A loop's steps keep the invariant and leave the released loops alone.    *)
LEMMA LoopStepKeeps ==
  ASSUME WatcherInv, NEW l \in DOMAIN loops, LoopStep(l)
  PROVE  /\ WatcherInv' /\ \A k \in DOMAIN loops : loops[k].released => loops'[k] = loops[k]
         /\ (\A k \in DOMAIN loops : loops[k].released) => UNCHANGED loader
<1>1. loops[l] \in LoopSet /\ (loops[l].released => loops[l].stage = "ended")
  BY DEF WatcherInv, LoopsHold, LoopTyped
<1>2. loops[l].stage # "ended"
  BY DEF LoopStep, LoopBegins, LoopReads, Reload, LoopReports, LoopEnds, ContextCanceled
<1>3. ~loops[l].released
  BY <1>1, <1>2
<1>4. loader.version \in Nat /\ configMap \in [document : Documents, version : Nat] /\ OnePrimary(loader.regions)
  BY DEF WatcherInv
<1>5. CASE LoopBegins(l) \/ LoopReports(l)
  <2> DEFINE n == [loops[l] EXCEPT !.stage = "select", !.told = loader.version]
  <2>1. n \in LoopSet /\ n.stop = loops[l].stop /\ n.released = loops[l].released
    BY Zenon, <1>1, <1>4 DEF LoopSet
  <2>2. loops' = [loops EXCEPT ![l] = n] /\ UNCHANGED <<configMap, loader, watcher, callers>>
    BY Zenon, <1>5 DEF LoopBegins, LoopReports
  <2> HIDE DEF n
  <2> QED
    BY <1>3, <1>4, <2>1, <2>2, LoopMoves
<1>6. CASE LoopReads(l)
  <2> DEFINE n == [loops[l] EXCEPT !.stage = "load", !.read = configMap]
  <2>1. n \in LoopSet /\ n.stop = loops[l].stop /\ n.released = loops[l].released
    BY Zenon, <1>1, <1>4 DEF LoopSet
  <2>2. loops' = [loops EXCEPT ![l] = n] /\ UNCHANGED <<configMap, loader, watcher, callers>>
    BY Zenon, <1>6 DEF LoopReads
  <2> HIDE DEF n
  <2> QED
    BY <1>3, <1>4, <2>1, <2>2, LoopMoves
<1>7. CASE Reload(l)
  <2>1. PICK stage \in {"report", "select"} : loops' = [loops EXCEPT ![l].stage = stage, ![l].read = NotRead]
    BY <1>7 DEF Reload
  <2> DEFINE n == [loops[l] EXCEPT !.stage = stage, !.read = NotRead]
  <2>2. n \in LoopSet /\ n.stop = loops[l].stop /\ n.released = loops[l].released
    BY Zenon, <1>1 DEF LoopSet
  <2>3. loops' = [loops EXCEPT ![l] = n]
    BY Zenon, <2>1
  <2>4. OnePrimary(loader'.regions) /\ loader'.version \in Nat
    <3>1. CASE UNCHANGED loader
      BY <1>4, <3>1
    <3>2. CASE loops[l].read.version # loader.version /\ parseTopology(loops[l].read.document) /\ loader' = Parsed(loops[l].read)
      <4>1. OnePrimary(loops[l].read.document.regions)
        BY Zenon, <3>2 DEF parseTopology, OnePrimary
      <4>2. loader'.regions = loops[l].read.document.regions /\ loader'.version = loops[l].read.version
        BY Zenon, <3>2 DEF Parsed
      <4>3. loops[l].read.version \in Nat
        BY <1>1 DEF LoopSet, NotRead
      <4> QED
        BY Zenon, <4>1, <4>2, <4>3
    <3> QED
      BY <1>7, <3>1, <3>2 DEF Reload
  <2>5. UNCHANGED <<configMap, watcher, callers>>
    BY <1>7 DEF Reload
  <2> HIDE DEF n
  <2> QED
    BY <1>3, <2>2, <2>3, <2>4, <2>5, LoopMoves
<1>8. CASE LoopEnds(l)
  <2> DEFINE n == [loops[l] EXCEPT !.stage = "ended"]
  <2>1. n \in LoopSet /\ n.stop = loops[l].stop /\ n.released = loops[l].released
    BY Zenon, <1>1 DEF LoopSet
  <2>2. loops' = [loops EXCEPT ![l] = n] /\ UNCHANGED <<configMap, loader, watcher, callers>>
    BY Zenon, <1>8 DEF LoopEnds
  <2> HIDE DEF n
  <2> QED
    BY <1>3, <1>4, <2>1, <2>2, LoopMoves
<1>9. CASE ContextCanceled(l)
  <2> DEFINE n == [loops[l] EXCEPT !.canceled = TRUE]
  <2>1. n \in LoopSet /\ n.stop = loops[l].stop /\ n.released = loops[l].released
    BY Zenon, <1>1 DEF LoopSet
  <2>2. loops' = [loops EXCEPT ![l] = n] /\ UNCHANGED <<configMap, loader, watcher, callers>>
    BY Zenon, <1>9 DEF ContextCanceled
  <2> HIDE DEF n
  <2> QED
    BY <1>3, <1>4, <2>1, <2>2, LoopMoves
<1> QED
  BY <1>5, <1>6, <1>7, <1>8, <1>9 DEF LoopStep

(* A loop is told to stop, or let go of by the call that told it.           *)
LEMMA LoopMarked ==
  ASSUME WatcherInv, NEW l \in DOMAIN loops
  PROVE  /\ [loops[l] EXCEPT !.stop = TRUE] \in LoopSet
         /\ [loops[l] EXCEPT !.stop = TRUE].stop /\ [loops[l] EXCEPT !.stop = TRUE].stage = loops[l].stage
         /\ [loops[l] EXCEPT !.stop = TRUE].released = loops[l].released
         /\ [loops[l] EXCEPT !.released = TRUE] \in LoopSet
         /\ [loops[l] EXCEPT !.released = TRUE].stop = loops[l].stop
         /\ [loops[l] EXCEPT !.released = TRUE].stage = loops[l].stage
         /\ loops[l].released => [loops[l] EXCEPT !.released = TRUE] = loops[l]
<1>1. loops[l] \in LoopSet
  BY DEF WatcherInv, LoopsHold, LoopTyped
<1>2. loops[l].released => [loops[l] EXCEPT !.released = TRUE] = loops[l]
  BY <1>1 DEF LoopSet
<1> QED
  BY Zenon, <1>1, <1>2 DEF LoopSet

(* A new loop is the newest, and the one that is not told to stop yet.      *)
LEMMA LoopAdded ==
  ASSUME WatcherInv, NEW ls \in Seq(LoopSet), Len(ls) = Len(loops),
         AllTold(ls), loops' = Append(ls, NewLoop),
         watcher' = [watcher EXCEPT !.started = TRUE, !.current = Len(loops) + 1]
  PROVE  /\ watcher' \in [started : BOOLEAN, current : Nat, panicked : BOOLEAN]
         /\ loops' \in Seq(LoopSet) /\ watcher'.current = Len(loops') /\ Len(loops') > 0 /\ watcher'.started
         /\ \A k \in DOMAIN ls : k \in DOMAIN loops' /\ loops'[k] = ls[k]
         /\ LoopsHold(loops', watcher')
<1>1. NewLoop \in LoopSet /\ NewLoop.released = FALSE
  BY Zenon DEF NewLoop, LoopSet
<1>2. Len(loops) \in Nat /\ Len(loops) + 1 \in Nat /\ watcher \in [started : BOOLEAN, current : Nat, panicked : BOOLEAN]
  BY DEF WatcherInv
<1>3. watcher' \in [started : BOOLEAN, current : Nat, panicked : BOOLEAN] /\ watcher'.started = TRUE
      /\ watcher'.current = Len(loops) + 1
  BY Zenon, <1>2
<1>4. loops' \in Seq(LoopSet) /\ Len(loops') = Len(ls) + 1 /\ DOMAIN loops' = 1 .. Len(ls) + 1
      /\ DOMAIN ls = 1 .. Len(ls) /\ loops'[Len(ls) + 1] = NewLoop
      /\ \A k \in 1 .. Len(ls) : loops'[k] = ls[k]
  BY <1>1
<1>5. LoopsHold(loops', watcher')
  BY <1>1, <1>3, <1>4 DEF LoopsHold, AllTold, LoopTyped
<1>6. LoopsHold(loops', watcher') /\ watcher'.current = Len(loops') /\ Len(loops') > 0
  BY <1>2, <1>3, <1>4, <1>5
<1> QED
  BY <1>3, <1>4, <1>6

(* A Watch or Stop that closes a loop's channel begins to wait for it, or   *)
(* panics.                                                                  *)
LEMMA ClosesKeeps ==
  ASSUME WatcherInv, NEW c \in WatchCallers, watcher.started, NEW op \in {"watch", "stop"}, Closes(c, op),
         UNCHANGED <<configMap, loader>>
  PROVE  WatcherInv' /\ \A k \in DOMAIN loops : loops[k].released => loops'[k] = loops[k]
<1> DEFINE l == watcher.current
<1>1. l \in DOMAIN loops /\ loops \in Seq(LoopSet) /\ watcher \in [started : BOOLEAN, current : Nat, panicked : BOOLEAN]
      /\ l = Len(loops)
  BY DEF WatcherInv
<1>2. CASE loops[l].stop
  <2>1. watcher' = [watcher EXCEPT !.panicked = TRUE] /\ UNCHANGED <<loops, callers>>
    BY <1>2 DEF Closes
  <2>2. watcher' \in [started : BOOLEAN, current : Nat, panicked : BOOLEAN]
        /\ watcher'.started = watcher.started /\ watcher'.current = watcher.current
    BY Zenon, <1>1, <2>1
  <2>3. LoopsHold(loops', watcher') /\ CallsWait(callers', loops', watcher')
    BY <2>1, <2>2 DEF WatcherInv, LoopsHold, CallsWait
  <2> QED
    BY <2>1, <2>2, <2>3 DEF WatcherInv
<1>3. CASE ~loops[l].stop
  <2> DEFINE n == [loops[l] EXCEPT !.stop = TRUE]
             w == [op |-> op, loop |-> l]
  <2>1. loops' = [loops EXCEPT ![l] = n] /\ watcher' = [watcher EXCEPT !.started = (op = "watch")]
        /\ callers' = [callers EXCEPT ![c] = w]
    BY Zenon, <1>3 DEF Closes
  <2>2. n \in LoopSet /\ n.stop /\ n.stage = loops[l].stage /\ n.released = loops[l].released
    BY <1>1, LoopMarked
  <2>3. w.op = op /\ w.loop = l
    OBVIOUS
  <2>4. watcher' \in [started : BOOLEAN, current : Nat, panicked : BOOLEAN]
        /\ (watcher'.started <=> op = "watch") /\ watcher'.current = l
    BY Zenon, <1>1, <2>1
  <2> HIDE DEF n, w
  <2>5. loops' \in Seq(LoopSet) /\ Len(loops') = Len(loops) /\ DOMAIN loops' = DOMAIN loops
        /\ loops'[l] = n /\ \A k \in DOMAIN loops : k # l => loops'[k] = loops[k]
    BY <1>1, <2>1, <2>2
  <2>6. \A k \in DOMAIN loops : loops'[k].stop /\ loops'[k].released = loops[k].released
                                /\ loops'[k].stage = loops[k].stage /\ loops'[k] \in LoopSet
    BY <1>1, <2>2, <2>5 DEF WatcherInv, LoopsHold, LoopTyped
  <2>7. LoopsHold(loops', watcher')
    BY <2>5, <2>6 DEF WatcherInv, LoopsHold, LoopTyped
  <2>8. \A d \in WatchCallers : callers[d].op # "watch"
    BY <1>3 DEF WatcherInv, CallsWait
  <2>9. DOMAIN callers' = WatchCallers /\ callers'[c] = w /\ \A d \in WatchCallers : d # c => callers'[d] = callers[d]
    BY <2>1 DEF WatcherInv
  <2>10. CallsWait(callers', loops', watcher')
    BY <1>1, <2>3, <2>4, <2>5, <2>6, <2>8, <2>9 DEF WatcherInv, CallsWait
  <2>11. \A k \in DOMAIN loops : loops[k].released => loops'[k] = loops[k]
    <3> SUFFICES ASSUME NEW k \in DOMAIN loops, loops[k].released PROVE loops'[k] = loops[k]
      OBVIOUS
    <3>1. k # l
      <4> SUFFICES ASSUME k = l PROVE FALSE
        OBVIOUS
      <4> QED
        BY <1>1, <1>3 DEF WatcherInv, LoopsHold, LoopTyped
    <3> QED
      BY <2>5, <3>1
  <2> QED
    BY <1>1, <2>4, <2>5, <2>7, <2>9, <2>10, <2>11 DEF WatcherInv
<1> QED
  BY <1>2, <1>3

(* The loop a call waited for has ended: it is released when the call       *)
(* returns.                                                                 *)
LEMMA LoopReleased ==
  ASSUME WatcherInv, NEW l \in DOMAIN loops, loops[l].stage = "ended", loops[l].stop
  PROVE  LET ls == [loops EXCEPT ![l].released = TRUE]
         IN  /\ ls \in Seq(LoopSet) /\ Len(ls) = Len(loops) /\ DOMAIN ls = DOMAIN loops
             /\ LoopsHold(ls, watcher)
             /\ \A k \in DOMAIN loops : loops[k].released => ls[k] = loops[k]
             /\ \A k \in DOMAIN loops : ls[k].stop = loops[k].stop
<1> DEFINE n == [loops[l] EXCEPT !.released = TRUE]
           ls == [loops EXCEPT ![l] = n]
<1>1. n \in LoopSet /\ n.stop = loops[l].stop /\ n.stage = "ended" /\ (loops[l].released => n = loops[l])
  BY LoopMarked
<1>2. [loops EXCEPT ![l].released = TRUE] = ls
  BY Zenon
<1>3. loops \in Seq(LoopSet)
  BY DEF WatcherInv
<1> HIDE DEF n
<1>4. ls \in Seq(LoopSet) /\ Len(ls) = Len(loops) /\ DOMAIN ls = DOMAIN loops
      /\ \A k \in DOMAIN loops : ls[k] = IF k = l THEN n ELSE loops[k]
  BY <1>1, <1>3
<1> HIDE DEF ls
<1>5. LoopsHold(ls, watcher)
  BY <1>1, <1>4 DEF WatcherInv, LoopsHold, LoopTyped
<1> QED
  BY Zenon, <1>1, <1>2, <1>4, <1>5

(* So do the steps of its callers.                                          *)
LEMMA CallerStepKeeps ==
  ASSUME WatcherInv, NEW c \in WatchCallers, CallerStep(c)
  PROVE  /\ WatcherInv' /\ UNCHANGED loader
         /\ \A k \in DOMAIN loops : loops[k].released => loops'[k] = loops[k]
<1>1. UNCHANGED <<configMap, loader>>
  BY DEF CallerStep, Watch, WatchAgain, Stop, StopReturns
<1>2. loops \in Seq(LoopSet) /\ DOMAIN loops = 1 .. Len(loops) /\ watcher.current = Len(loops) /\ DOMAIN callers = WatchCallers
      /\ LoopsHold(loops, watcher) /\ CallsWait(callers, loops, watcher)
  BY DEF WatcherInv
<1>3. CASE watcher.started /\ (Watch(c) \/ Stop(c))
  <2>1. Closes(c, "watch") \/ Closes(c, "stop")
    BY <1>3 DEF Watch, Stop
  <2>2. CASE Closes(c, "watch")
    BY Zenon, <1>1, <1>3, <2>2, ClosesKeeps
  <2>3. CASE Closes(c, "stop")
    BY Zenon, <1>1, <1>3, <2>3, ClosesKeeps
  <2> QED
    BY <1>1, <2>1, <2>2, <2>3
<1>4. CASE ~watcher.started /\ (Watch(c) \/ Stop(c))
  <2>1. Launched(loops) /\ UNCHANGED callers
    BY <1>4 DEF Watch, Stop
  <2>2. loops' = Append(loops, NewLoop) /\ watcher' = [watcher EXCEPT !.started = TRUE, !.current = Len(loops) + 1]
    BY <2>1 DEF Launched
  <2>3. AllTold(loops)
    BY <1>2, <1>4 DEF LoopsHold, AllTold
  <2>4. /\ watcher' \in [started : BOOLEAN, current : Nat, panicked : BOOLEAN]
        /\ loops' \in Seq(LoopSet) /\ watcher'.current = Len(loops') /\ Len(loops') > 0 /\ watcher'.started
        /\ \A k \in DOMAIN loops : k \in DOMAIN loops' /\ loops'[k] = loops[k]
        /\ LoopsHold(loops', watcher')
    BY <1>2, <2>2, <2>3, LoopAdded
  <2>5. CallsWait(callers, loops', watcher')
    BY <1>2, <1>4, <2>4 DEF CallsWait
  <2> QED
    BY <1>1, <2>1, <2>4, <2>5 DEF WatcherInv
<1>5. CASE WatchAgain(c) \/ StopReturns(c)
  <2> DEFINE l == callers[c].loop
             ls == [loops EXCEPT ![l].released = TRUE]
  <2>1. callers[c].op \in {"watch", "stop"} /\ loops[l].stage = "ended" /\ callers' = [callers EXCEPT ![c] = NotCalling]
    BY <1>5 DEF WatchAgain, StopReturns
  <2>2. l \in DOMAIN loops /\ loops[l].stop
    BY <1>2, <2>1 DEF CallsWait
  <2>3. /\ ls \in Seq(LoopSet) /\ Len(ls) = Len(loops) /\ DOMAIN ls = DOMAIN loops
        /\ LoopsHold(ls, watcher)
        /\ \A k \in DOMAIN loops : loops[k].released => ls[k] = loops[k]
        /\ \A k \in DOMAIN loops : ls[k].stop = loops[k].stop
    BY <2>1, <2>2, LoopReleased
  <2>4. \/ callers[c].op = "watch" /\ Launched(ls)
        \/ callers[c].op = "stop" /\ loops' = ls /\ UNCHANGED watcher
    <3>1. CASE WatchAgain(c)
      <4>1. callers[c].op = "watch"
        BY <3>1 DEF WatchAgain
      <4>2. Launched(ls)
        BY Zenon, <3>1 DEF WatchAgain
      <4> QED
        BY <4>1, <4>2
    <3>2. CASE StopReturns(c)
      <4>1. callers[c].op = "stop" /\ UNCHANGED watcher
        BY <3>2 DEF StopReturns
      <4>2. loops' = ls
        BY Zenon, <3>2 DEF StopReturns
      <4> QED
        BY <4>1, <4>2
    <3> QED
      BY <1>5, <3>1, <3>2
  <2> HIDE DEF ls
  <2>5. NotCalling.op = "none" /\ DOMAIN callers' = WatchCallers /\ callers'[c] = NotCalling
        /\ \A d \in WatchCallers : d # c => callers'[d] = callers[d]
    BY <1>2, <2>1 DEF NotCalling
  <2>6. CASE callers[c].op = "watch" /\ Launched(ls)
    <3>1. loops' = Append(ls, NewLoop) /\ watcher' = [watcher EXCEPT !.started = TRUE, !.current = Len(loops) + 1]
      BY <2>6 DEF Launched
    <3>2. watcher.started /\ l = watcher.current /\ \A d \in WatchCallers : d # c => callers[d].op # "watch"
      BY <1>2, <2>6 DEF CallsWait
    <3>3. AllTold(ls)
      BY <1>2, <2>2, <2>3, <3>2 DEF LoopsHold, AllTold
    <3>4. /\ watcher' \in [started : BOOLEAN, current : Nat, panicked : BOOLEAN]
          /\ loops' \in Seq(LoopSet) /\ watcher'.current = Len(loops') /\ Len(loops') > 0 /\ watcher'.started
          /\ \A k \in DOMAIN ls : k \in DOMAIN loops' /\ loops'[k] = ls[k]
          /\ LoopsHold(loops', watcher')
      BY <2>3, <3>1, <3>3, LoopAdded
    <3>5. \A k \in DOMAIN loops : k \in DOMAIN loops' /\ loops'[k].stop = loops[k].stop
      BY <2>3, <3>4
    <3>6. CallsWait(callers', loops', watcher')
      BY <1>2, <2>5, <3>2, <3>5 DEF CallsWait
    <3>7. \A k \in DOMAIN loops : loops[k].released => loops'[k] = loops[k]
      BY <2>3, <3>4
    <3> QED
      BY <1>1, <2>5, <3>4, <3>6, <3>7 DEF WatcherInv
  <2>7. CASE callers[c].op = "stop" /\ loops' = ls /\ UNCHANGED watcher
    <3>1. CallsWait(callers', ls, watcher)
      BY <1>2, <2>3, <2>5 DEF CallsWait
    <3> QED
      BY <1>1, <2>3, <2>5, <2>7, <3>1 DEF WatcherInv
  <2> QED
    BY <2>4, <2>6, <2>7
<1> QED
  BY <1>3, <1>4, <1>5 DEF CallerStep

(* A loop that the call which stopped it has let go of never reloads or     *)
(* calls back again, no loop is left running that no call can stop, and the *)
(* loader always holds exactly one primary region, for any callers, loops,  *)
(* documents and edits (TopologyWatcher.Watch, Stop, run, Loader.load).     *)
THEOREM StopIsQuiet == TopologySpec => StoppedIsQuiet
<1> DEFINE Quiet ==
             /\ \A l \in DOMAIN loops : loops[l].released => loops'[l] = loops[l]
             /\ (\A l \in DOMAIN loops : loops[l].released) => UNCHANGED loader
             /\ \A l \in DOMAIN loops' : l = watcher'.current \/ loops'[l].stop
             /\ Cardinality({i \in DOMAIN loader'.regions : loader'.regions[i].role = "primary"}) = 1
<1>1. TopologyInit => WatcherInv
  <2> SUFFICES ASSUME TopologyInit PROVE WatcherInv
    OBVIOUS
  <2>1. PICK d \in Documents : parseTopology(d) /\ configMap = [document |-> d, version |-> 1]
    BY DEF TopologyInit
  <2>2. OnePrimary(d.regions) /\ loader.regions = d.regions /\ loader.version = 1
    BY Zenon, <2>1 DEF TopologyInit, Parsed, parseTopology, OnePrimary
  <2>3. loops = <<>> /\ watcher = [started |-> FALSE, current |-> 0, panicked |-> FALSE]
        /\ callers = [c \in WatchCallers |-> NotCalling]
    BY DEF TopologyInit, NoWatcher
  <2>4. LoopsHold(loops, watcher)
    BY <2>3 DEF LoopsHold
  <2>5. CallsWait(callers, loops, watcher)
    BY <2>3 DEF CallsWait, NotCalling
  <2>6. configMap \in [document : Documents, version : Nat]
        /\ watcher \in [started : BOOLEAN, current : Nat, panicked : BOOLEAN]
        /\ watcher.started = FALSE /\ watcher.current = 0
    BY <2>1, <2>3
  <2>7. loops \in Seq(LoopSet) /\ Len(loops) = 0 /\ DOMAIN callers = WatchCallers
    BY <2>3
  <2> QED
    BY <2>2, <2>4, <2>5, <2>6, <2>7 DEF WatcherInv
<1>2. ASSUME WatcherInv, TopologyNext
      PROVE  WatcherInv' /\ Quiet
  <2>1. /\ WatcherInv' /\ \A k \in DOMAIN loops : loops[k].released => loops'[k] = loops[k]
        /\ (\A k \in DOMAIN loops : loops[k].released) => UNCHANGED loader
    <3>1. ASSUME NEW d \in Documents, EditTopology(d)
          PROVE  WatcherInv' /\ UNCHANGED <<loops, loader>>
      <4>1. configMap \in [document : Documents, version : Nat]
        BY <1>2 DEF WatcherInv
      <4>2. configMap' \in [document : Documents, version : Nat]
        BY <3>1, <4>1 DEF EditTopology
      <4> QED
        BY <1>2, <3>1, <4>2 DEF WatcherInv, EditTopology
    <3>2. ASSUME NEW l \in DOMAIN loops, LoopStep(l)
          PROVE  /\ WatcherInv' /\ \A k \in DOMAIN loops : loops[k].released => loops'[k] = loops[k]
                 /\ (\A k \in DOMAIN loops : loops[k].released) => UNCHANGED loader
      BY <1>2, <3>2, LoopStepKeeps
    <3>3. ASSUME NEW c \in WatchCallers, CallerStep(c)
          PROVE  /\ WatcherInv' /\ UNCHANGED loader
                 /\ \A k \in DOMAIN loops : loops[k].released => loops'[k] = loops[k]
      BY <1>2, <3>3, CallerStepKeeps
    <3> QED
      BY <1>2, <3>1, <3>2, <3>3 DEF TopologyNext
  <2>2. \A l \in DOMAIN loops' : l = watcher'.current \/ loops'[l].stop
    BY <2>1 DEF WatcherInv, LoopsHold, LoopTyped
  <2>3. Cardinality({i \in DOMAIN loader'.regions : loader'.regions[i].role = "primary"}) = 1
    BY <2>1 DEF WatcherInv, OnePrimary
  <2> QED
    BY <2>1, <2>2, <2>3
<1>3. WatcherInv /\ [TopologyNext]_topologyVars => WatcherInv' /\ [Quiet]_topologyVars
  <2>1. WatcherInv /\ UNCHANGED topologyVars => WatcherInv'
    BY DEF WatcherInv, topologyVars
  <2> QED
    BY <1>2, <2>1
<1> QED
  BY <1>1, <1>3, PTL DEF TopologySpec, StoppedIsQuiet

-------------------------------------------------------------------------------
(* The promotions.                                                          *)

PastCreate == {"fence", "assign", "write", "revalidate", "recover", "complete"}
PastAssign == {"write", "revalidate", "recover", "complete"}
CallSet ==
    [number : Nat, manager : Managers, job : Jobs, target : Targets, key : Keys, expected : Nat, epoch : Nat,
     capability : 0 .. 3, phase : {"get", "version", "track", "create"} \union PastCreate]
PromotionRows == [key : Keys, job : Jobs, target : Targets, epoch : Nat, state : {"PENDING", "FAILED", "COMPLETE"}]
CompletedSet == [job : Jobs, key : Keys, epoch : Nat, expected : Nat, capability : 0 .. 3]

(* What a call may rely on: its pending row, a recovery nobody made for it, *)
(* and an epoch that is its own and that no completed promotion has.        *)
Stands(c, e, rows, known, ended) ==
    /\ c.phase \in PastCreate => \E p \in rows : p.key = c.key /\ p.job = c.job /\ p.state = "PENDING"
    /\ c.phase \in PastCreate \ {"complete"} => <<c.job, c.key>> \notin known
    /\ c.phase = "assign" => c.expected <= e[c.job]
    /\ c.phase \in PastAssign =>
          /\ c.expected < c.epoch /\ c.epoch <= e[c.job]
          /\ \A r \in ended : r.job = c.job => r.epoch # c.epoch
(* What it has of the two conditions of a completion.                       *)
Earned(c) ==
    /\ c.phase \in {"recover", "complete"} => revalidator.configured /\ Suffices(c.capability, revalidator.required)
    /\ c.phase = "complete" => Recover(c.job, c.epoch)
(* No two calls share a key past Create, nor an epoch past Assign.          *)
Apart(c, d) ==
    /\ c.phase \in PastCreate /\ d.phase \in PastCreate /\ c.key = d.key => c = d
    /\ c.phase \in PastAssign /\ d.phase \in PastAssign /\ c.job = d.job /\ c.epoch = d.epoch => c = d

CallsHold(cs, e, rows, known, ended) ==
    /\ cs \subseteq CallSet
    /\ \A c \in cs : Stands(c, e, rows, known, ended)
    /\ \A c, d \in cs : Apart(c, d)
RowsHold(rows, known, ended) ==
    /\ rows \subseteq PromotionRows
    /\ \A p, q \in rows : p.key = q.key => p = q
    /\ \A p \in rows : p.state = "COMPLETE" => \E r \in ended : r.key = p.key /\ r.epoch = p.epoch
    /\ \A a \in known : \E p \in rows : p.key = a[2]
EndedHold(e, ended) ==
    /\ ended \subseteq CompletedSet
    /\ \A r \in ended : r.epoch <= e[r.job]
    /\ \A p, q \in ended : p.job = q.job /\ p.epoch = q.epoch => p.key = q.key

PromotionInv ==
    /\ epochs \in [Jobs -> Nat] /\ begun \in Nat
    /\ CallsHold(calls, epochs, promotions, active, completed)
    /\ RowsHold(promotions, active, completed)
    /\ EndedHold(epochs, completed)
    /\ \A c \in calls : Earned(c)
    /\ CompletionIsEarned

(* How one step of a call may change what the other calls rely on.          *)
Disturbs(c) ==
    /\ epochs' \in [Jobs -> Nat] /\ \A j \in Jobs : epochs[j] <= epochs'[j]
    /\ \A p \in promotions : p \in promotions' \/ (c.phase \in PastCreate /\ p.key = c.key)
    /\ \A a \in active' : a \in active \/ (c.phase \in PastCreate /\ a = <<c.job, c.key>>)
    /\ \A r \in completed' : r \in completed \/ (c.phase \in PastAssign /\ r.job = c.job /\ r.epoch = c.epoch)

(* What the other calls rely on survives it.                                *)
LEMMA OthersStand ==
  ASSUME PromotionInv, NEW c \in calls, NEW d \in calls, d # c, Disturbs(c)
  PROVE  Stands(d, epochs', promotions', active', completed')
<1>1. d \in CallSet /\ c \in CallSet /\ Stands(d, epochs, promotions, active, completed) /\ Apart(c, d)
  BY DEF PromotionInv, CallsHold
<1>2. d.job \in Jobs /\ d.epoch \in Nat /\ d.expected \in Nat /\ epochs[d.job] \in Nat /\ epochs'[d.job] \in Nat
  BY <1>1 DEF CallSet, PromotionInv, Disturbs
<1>3. d.phase \in PastCreate => ~(c.phase \in PastCreate /\ c.key = d.key)
  BY <1>1 DEF Apart
<1>4. d.phase \in PastCreate => \E p \in promotions' : p.key = d.key /\ p.job = d.job /\ p.state = "PENDING"
  BY <1>1, <1>3 DEF Stands, Disturbs
<1>5. d.phase \in PastCreate \ {"complete"} => <<d.job, d.key>> \notin active'
  BY <1>1, <1>3 DEF Stands, Disturbs
<1>6. d.phase = "assign" => d.expected <= epochs'[d.job]
  BY <1>1, <1>2 DEF Stands, Disturbs
<1>7. d.phase \in PastAssign => d.expected < d.epoch /\ d.epoch <= epochs'[d.job]
  BY <1>1, <1>2 DEF Stands, Disturbs
<1>8. d.phase \in PastAssign => \A r \in completed' : r.job = d.job => r.epoch # d.epoch
  BY <1>1 DEF Stands, Disturbs, Apart
<1> QED
  BY <1>4, <1>5, <1>6, <1>7, <1>8 DEF Stands

(* A call that goes on as n keeps the calls consistent.                     *)
LEMMA CallMoves ==
  ASSUME PromotionInv, NEW c \in calls, NEW n \in CallSet, Disturbs(c), calls' = (calls \ {c}) \union {n},
         Stands(n, epochs', promotions', active', completed'), \A d \in calls \ {c} : Apart(n, d)
  PROVE  CallsHold(calls', epochs', promotions', active', completed')
<1>1. calls' \subseteq CallSet
  BY DEF PromotionInv, CallsHold
<1>2. ASSUME NEW d \in calls' PROVE Stands(d, epochs', promotions', active', completed')
  BY OthersStand
<1>3. ASSUME NEW d \in calls', NEW f \in calls' PROVE Apart(d, f)
  <2>1. CASE d = n /\ f = n
    BY <2>1 DEF Apart
  <2>2. CASE d = n /\ f \in calls \ {c}
    BY <2>2
  <2>3. CASE f = n /\ d \in calls \ {c}
    <3>1. Apart(n, d)
      BY <2>3
    <3> QED
      BY <2>3, <3>1 DEF Apart
  <2>4. CASE d \in calls \ {c} /\ f \in calls \ {c}
    BY <2>4 DEF PromotionInv, CallsHold
  <2> QED
    BY <2>1, <2>2, <2>3, <2>4
<1> QED
  BY <1>1, <1>2, <1>3 DEF CallsHold

(* So does one that returns.                                                *)
LEMMA CallReturns ==
  ASSUME PromotionInv, NEW c \in calls, Disturbs(c), calls' = calls \ {c}
  PROVE  CallsHold(calls', epochs', promotions', active', completed')
<1>1. calls' \subseteq CallSet /\ \A d, f \in calls' : Apart(d, f)
  BY DEF PromotionInv, CallsHold
<1>2. ASSUME NEW d \in calls' PROVE Stands(d, epochs', promotions', active', completed')
  BY OthersStand
<1> QED
  BY <1>1, <1>2 DEF CallsHold

(* A call that keeps its key and its epoch stays apart from the others.     *)
LEMMA StaysApart ==
  ASSUME PromotionInv, NEW c \in calls, NEW n, n.key = c.key, n.job = c.job, n.epoch = c.epoch,
         n.phase \in PastCreate => c.phase \in PastCreate, n.phase \in PastAssign => c.phase \in PastAssign
  PROVE  \A d \in calls \ {c} : Apart(n, d)
<1> SUFFICES ASSUME NEW d \in calls \ {c} PROVE Apart(n, d)
  OBVIOUS
<1>1. Apart(c, d)
  BY DEF PromotionInv, CallsHold
<1> QED
  BY <1>1 DEF Apart

(* What a completion is made of is not touched by promotions.               *)
LEMMA EarnedStays ==
  ASSUME UNCHANGED environment, NEW c
  PROVE  Earned(c)' <=> Earned(c)
BY DEF environment, Earned, Suffices, Recover, GetLatestCheckpoint, Latest, Validate

(* The row of a promotion is written when it ends; the others stay.         *)
LEMMA UpdateRows ==
  ASSUME PromotionInv, NEW c \in calls, c.phase \in PastCreate, NEW s \in {"FAILED", "COMPLETE"},
         NEW ended, completed \subseteq ended,
         s = "COMPLETE" => \E r \in ended : r.key = c.key /\ r.epoch = c.epoch,
         NEW known, \A a \in known : a \in active \/ a = <<c.job, c.key>>
  PROVE  /\ RowsHold(Update(c, s), known, ended)
         /\ \A p \in promotions : p \in Update(c, s) \/ p.key = c.key
         /\ \A p \in promotions, q \in Update(c, s) : p.key = q.key =>
               p.job = q.job /\ (p.state # "PENDING" => q = p)
<1> DEFINE Row(p) == IF p.key = c.key THEN [p EXCEPT !.epoch = c.epoch, !.state = s] ELSE p
<1>1. Update(c, s) = {Row(p) : p \in promotions}
  BY DEF Update
<1>2. c \in CallSet /\ Stands(c, epochs, promotions, active, completed) /\ RowsHold(promotions, active, completed)
  BY DEF PromotionInv, CallsHold
<1>3. ASSUME NEW p \in promotions
      PROVE  /\ Row(p) \in PromotionRows /\ Row(p).key = p.key /\ Row(p).job = p.job
             /\ p.key # c.key => Row(p) = p
             /\ p.key = c.key => Row(p).epoch = c.epoch /\ Row(p).state = s
  <2>1. p \in PromotionRows /\ c.epoch \in Nat
    BY <1>2, <1>3 DEF RowsHold, CallSet
  <2>2. CASE p.key = c.key
    BY Zenon, <2>1, <2>2 DEF PromotionRows
  <2>3. CASE p.key # c.key
    BY <2>1, <2>3
  <2> QED
    BY <2>2, <2>3
<1> HIDE DEF Row
<1>4. \A p, q \in promotions : p.key = q.key => p = q
  BY <1>2 DEF RowsHold
<1>5. PICK own \in promotions : own.key = c.key /\ own.state = "PENDING"
  BY <1>2 DEF Stands
<1>6. Update(c, s) \subseteq PromotionRows /\ \A p, q \in Update(c, s) : p.key = q.key => p = q
  BY <1>1, <1>3, <1>4
<1>7. ASSUME NEW q \in Update(c, s), q.state = "COMPLETE"
      PROVE  \E r \in ended : r.key = q.key /\ r.epoch = q.epoch
  <2>1. PICK p \in promotions : q = Row(p)
    BY <1>1
  <2>2. CASE p.key = c.key
    BY <1>3, <1>7, <2>1, <2>2
  <2>3. CASE p.key # c.key
    BY <1>2, <1>3, <1>7, <2>1, <2>3 DEF RowsHold
  <2> QED
    BY <2>2, <2>3
<1>8. ASSUME NEW a \in known PROVE \E q \in Update(c, s) : q.key = a[2]
  <2>1. \E p \in promotions : p.key = a[2]
    BY <1>2, <1>5 DEF RowsHold
  <2> QED
    BY <1>1, <1>3, <2>1
<1>9. \A p \in promotions : p \in Update(c, s) \/ p.key = c.key
  BY <1>1, <1>3
<1>10. ASSUME NEW p \in promotions, NEW q \in Update(c, s), p.key = q.key
       PROVE  p.job = q.job /\ (p.state # "PENDING" => q = p)
  <2>1. PICK o \in promotions : q = Row(o)
    BY <1>1
  <2>2. o = p
    BY <1>3, <1>4, <1>10, <2>1
  <2> QED
    BY <1>3, <1>4, <1>5, <2>1, <2>2
<1> QED
  BY <1>6, <1>7, <1>8, <1>9, <1>10 DEF RowsHold

(* What every step leaves of the rows.                                      *)
RowsStay ==
    \A p \in promotions, q \in promotions' : p.key = q.key =>
       p.job = q.job /\ (p.state # "PENDING" => q = p)

(* A promotion that fails ends in its row, or leaves it pending.            *)
LEMMA EndsHold ==
  ASSUME PromotionInv, NEW c \in calls, c.phase \in PastCreate, Ends(c),
         promotions' = Update(c, "FAILED") \/ UNCHANGED promotions,
         epochs' \in [Jobs -> Nat], \A j \in Jobs : epochs[j] <= epochs'[j],
         \A a \in active' : a \in active \/ a = <<c.job, c.key>>,
         UNCHANGED <<begun, environment>>
  PROVE  PromotionInv' /\ RowsStay
<1>1. RowsHold(promotions', active', completed') /\ RowsStay
      /\ \A p \in promotions : p \in promotions' \/ p.key = c.key
  <2>1. CASE promotions' = Update(c, "FAILED")
    BY Zenon, <2>1, UpdateRows DEF Ends, RowsStay
  <2>2. CASE UNCHANGED promotions
    <3>1. c \in CallSet /\ Stands(c, epochs, promotions, active, completed) /\ RowsHold(promotions, active, completed)
      BY DEF PromotionInv, CallsHold
    <3>2. PICK own \in promotions : own.key = c.key
      BY <3>1 DEF Stands
    <3> QED
      BY <2>2, <3>1, <3>2 DEF RowsHold, RowsStay, Ends
  <2> QED
    BY <2>1, <2>2
<1>2. Disturbs(c) /\ calls' = calls \ {c} /\ UNCHANGED completed
  BY <1>1 DEF Disturbs, Ends, Return
<1>3. CallsHold(calls', epochs', promotions', active', completed')
  BY <1>2, CallReturns
<1>4. EndedHold(epochs', completed')
  <2>1. \A r \in completed : r.job \in Jobs /\ r.epoch \in Nat /\ r.epoch <= epochs[r.job]
    BY DEF PromotionInv, EndedHold, CompletedSet
  <2>2. \A j \in Jobs : epochs[j] \in Nat /\ epochs'[j] \in Nat
    BY DEF PromotionInv
  <2>3. \A r \in completed : r.epoch <= epochs'[r.job]
    BY <2>1, <2>2
  <2> QED
    BY <1>2, <2>3 DEF PromotionInv, EndedHold
<1>5. \A d \in calls' : Earned(d)'
  BY <1>2, EarnedStays DEF PromotionInv
<1>6. CompletionIsEarned'
  BY Zenon, <1>2 DEF PromotionInv, CompletionIsEarned, environment, Suffices, Latest
<1> QED
  BY <1>1, <1>3, <1>4, <1>5, <1>6 DEF PromotionInv

(* A call that goes on as n, or returns, and at most adds a row.            *)
LEMMA GoesOn ==
  ASSUME PromotionInv, NEW c \in calls, NEW n \in CallSet,
         \/ /\ calls' = (calls \ {c}) \union {n} /\ Earned(n)
            /\ Stands(n, epochs', promotions', active', completed') /\ \A d \in calls \ {c} : Apart(n, d)
         \/ calls' = calls \ {c},
         promotions \subseteq promotions', RowsHold(promotions', active', completed'),
         \A a \in active' : a \in active \/ (c.phase \in PastCreate /\ a = <<c.job, c.key>>),
         epochs' \in [Jobs -> Nat], \A j \in Jobs : epochs[j] <= epochs'[j],
         UNCHANGED <<begun, completed, environment>>
  PROVE  PromotionInv' /\ RowsStay
<1>1. Disturbs(c)
  BY Zenon DEF Disturbs
<1>2. CallsHold(calls', epochs', promotions', active', completed')
  BY <1>1, CallMoves, CallReturns
<1>3. EndedHold(epochs', completed')
  <2>1. \A r \in completed : r.job \in Jobs /\ r.epoch \in Nat /\ r.epoch <= epochs[r.job]
    BY DEF PromotionInv, EndedHold, CompletedSet
  <2>2. \A j \in Jobs : epochs[j] \in Nat /\ epochs'[j] \in Nat
    BY DEF PromotionInv
  <2>3. \A r \in completed : r.epoch <= epochs'[r.job]
    BY <2>1, <2>2
  <2> QED
    BY <2>3 DEF PromotionInv, EndedHold
<1>4. \A d \in calls' : Earned(d)'
  BY EarnedStays DEF PromotionInv
<1>5. CompletionIsEarned'
  BY Zenon DEF PromotionInv, CompletionIsEarned, environment, Suffices, Latest
<1>6. RowsStay
  BY Zenon DEF RowsStay, RowsHold
<1> QED
  BY <1>2, <1>3, <1>4, <1>5, <1>6 DEF PromotionInv

(* The fields of a call that changes its phase.                             *)
LEMMA Rephased ==
  ASSUME NEW c \in CallSet, NEW ph \in {"get", "version", "track", "create"} \union PastCreate
  PROVE  LET n == [c EXCEPT !.phase = ph]
         IN  /\ n \in CallSet /\ n.phase = ph /\ n.key = c.key /\ n.job = c.job /\ n.epoch = c.epoch
             /\ n.expected = c.expected /\ n.capability = c.capability
BY DEF CallSet

(* The fields of one that is given its epoch.                               *)
LEMMA Assigned ==
  ASSUME NEW c \in CallSet, NEW e \in Nat
  PROVE  LET n == [c EXCEPT !.phase = "write", !.epoch = e + 1]
         IN  /\ n \in CallSet /\ n.phase = "write" /\ n.key = c.key /\ n.job = c.job
             /\ n.epoch = e + 1 /\ n.expected = c.expected
<1>1. e + 1 \in Nat
  OBVIOUS
<1> QED
  BY Zenon, <1>1 DEF CallSet, PastCreate

(* The fields of one whose sinks were revalidated.                          *)
LEMMA Revalidated ==
  ASSUME NEW c \in CallSet, NEW level \in 0 .. 3
  PROVE  LET n == [c EXCEPT !.phase = "recover", !.capability = level]
         IN  /\ n \in CallSet /\ n.phase = "recover" /\ n.key = c.key /\ n.job = c.job /\ n.epoch = c.epoch
             /\ n.expected = c.expected /\ n.capability = level
BY Zenon DEF CallSet, PastCreate

(* Until Create, and where nothing else changes, a call only moves.         *)
LEMMA EarlySteps ==
  ASSUME PromotionInv, NEW c \in calls, Get(c) \/ GetEpoch(c) \/ Track(c)
  PROVE  PromotionInv' /\ RowsStay
<1>1. c \in CallSet /\ RowsHold(promotions, active, completed) /\ epochs \in [Jobs -> Nat]
  BY DEF PromotionInv, CallsHold
<1>2. PICK ph \in {"version", "track", "create"} :
         calls' = (calls \ {c}) \union {[c EXCEPT !.phase = ph]} \/ calls' = calls \ {c}
  BY DEF Get, GetEpoch, Track, To, Step, Return
<1>3. UNCHANGED <<epochs, begun, promotions, environment, active, completed>>
  BY DEF Get, GetEpoch, Track
<1> DEFINE n == [c EXCEPT !.phase = ph]
<1>4. n \in CallSet /\ n.phase = ph /\ n.key = c.key /\ n.job = c.job /\ n.epoch = c.epoch
  BY <1>1, Rephased
<1> HIDE DEF n
<1>5. Earned(n) /\ Stands(n, epochs', promotions', active', completed')
  BY <1>4 DEF Earned, Stands, PastCreate, PastAssign
<1>6. \A d \in calls \ {c} : Apart(n, d)
  BY <1>4 DEF Apart, PastCreate, PastAssign
<1>7. \A j \in Jobs : epochs[j] <= epochs'[j]
  BY <1>1, <1>3
<1> QED
  BY <1>1, <1>2, <1>3, <1>4, <1>5, <1>6, <1>7, GoesOn DEF n

(* Create stores the row of a key that has none.                            *)
LEMMA CreateHolds ==
  ASSUME PromotionInv, NEW c \in calls, Create(c)
  PROVE  PromotionInv' /\ RowsStay
<1>1. c \in CallSet /\ RowsHold(promotions, active, completed) /\ epochs \in [Jobs -> Nat] /\ c.phase = "create"
  BY DEF PromotionInv, CallsHold, Create, At
<1>2. UNCHANGED <<epochs, begun, environment, active, completed>> /\ \A j \in Jobs : epochs[j] <= epochs'[j]
  BY <1>1 DEF Create
<1> DEFINE n == [c EXCEPT !.phase = "fence"]
           row == [key |-> c.key, job |-> c.job, target |-> c.target, epoch |-> c.epoch, state |-> "PENDING"]
<1>3. n \in CallSet /\ n.phase = "fence" /\ n.key = c.key /\ n.job = c.job
  BY Zenon, <1>1, Rephased DEF PastCreate
<1>4. row \in PromotionRows /\ row.key = c.key /\ row.job = c.job /\ row.state = "PENDING"
  BY <1>1 DEF CallSet, PromotionRows
<1>5. \/ promotions' = promotions /\ calls' = calls \ {c}
      \/ promotions' = promotions \union {row} /\ (\A p \in promotions : p.key # c.key)
         /\ (calls' = (calls \ {c}) \union {n} \/ calls' = calls \ {c})
  BY DEF Create, To, Step, Return
<1> HIDE DEF n, row
<1>6. CASE promotions' = promotions /\ calls' = calls \ {c}
  BY <1>1, <1>2, <1>6, GoesOn
<1>7. CASE promotions' = promotions \union {row} /\ (\A p \in promotions : p.key # c.key)
  <2>1. RowsHold(promotions', active', completed')
    BY <1>1, <1>2, <1>4, <1>7 DEF RowsHold
  <2>2. <<c.job, c.key>> \notin active
    BY <1>1, <1>7 DEF RowsHold
  <2>3. Earned(n) /\ Stands(n, epochs', promotions', active', completed')
    BY Zenon, <1>2, <1>3, <1>4, <1>7, <2>2 DEF Earned, Stands, PastAssign
  <2>4. ASSUME NEW d \in calls \ {c} PROVE Apart(n, d)
    <3>1. d.phase \in PastCreate => d.key # c.key
      BY Zenon, <1>7 DEF PromotionInv, CallsHold, Stands
    <3> QED
      BY <1>3, <3>1 DEF Apart, PastAssign
  <2> QED
    BY Zenon, <1>1, <1>2, <1>3, <1>5, <1>7, <2>1, <2>3, <2>4, GoesOn
<1> QED
  BY <1>5, <1>6, <1>7

(* Fence reads the epoch, Assign raises it, UpdateEpoch writes what Assign  *)
(* gave, if the row still holds that or what was expected.                  *)
LEMMA EpochSteps ==
  ASSUME PromotionInv, NEW c \in calls, Fence(c) \/ Assign(c) \/ UpdateEpoch(c)
  PROVE  PromotionInv' /\ RowsStay
<1>1. /\ c \in CallSet /\ Stands(c, epochs, promotions, active, completed)
      /\ RowsHold(promotions, active, completed) /\ EndedHold(epochs, completed)
      /\ epochs \in [Jobs -> Nat] /\ c.phase \in {"fence", "assign", "write"}
  BY DEF PromotionInv, CallsHold, Fence, Assign, UpdateEpoch, At
<1>2. c.job \in Jobs /\ c.epoch \in Nat /\ c.expected \in Nat /\ epochs[c.job] \in Nat /\ c.phase \in PastCreate
  BY <1>1 DEF CallSet, PastCreate
<1>3. UNCHANGED <<begun, environment, active>>
  BY DEF Fence, Assign, UpdateEpoch
<1> DEFINE Raised == [epochs EXCEPT ![c.job] = epochs[c.job] + 1]
<1>4. /\ Raised \in [Jobs -> Nat] /\ Raised[c.job] = epochs[c.job] + 1
      /\ \A j \in Jobs : epochs[j] <= Raised[j]
  BY <1>1, <1>2
<1>5. \A j \in Jobs : epochs[j] <= epochs[j]
  BY <1>1
<1>6. CASE (Refused(c) \/ Breaks(c)) /\ epochs' \in {epochs, Raised}
  <2>1. Ends(c) /\ (promotions' = Update(c, "FAILED") \/ UNCHANGED promotions)
    BY <1>6 DEF Refused, Breaks
  <2> HIDE DEF Raised
  <2>2. epochs' \in [Jobs -> Nat] /\ \A j \in Jobs : epochs[j] <= epochs'[j]
    BY <1>1, <1>4, <1>5, <1>6
  <2> QED
    BY Zenon, <1>2, <1>3, <2>1, <2>2, EndsHold
<1>7. CASE epochs[c.job] = c.expected /\ UNCHANGED epochs /\ Proceeds(c, [c EXCEPT !.phase = "assign"])
  <2> DEFINE n == [c EXCEPT !.phase = "assign"]
  <2>1. /\ n \in CallSet /\ n.phase = "assign" /\ n.key = c.key /\ n.job = c.job /\ n.epoch = c.epoch
        /\ n.expected = c.expected
    BY Zenon, <1>1, Rephased DEF PastCreate
  <2>2. calls' = (calls \ {c}) \union {n} /\ UNCHANGED <<promotions, completed>>
    BY <1>7 DEF Proceeds, Step
  <2> HIDE DEF n
  <2>3. <<c.job, c.key>> \notin active /\ \E p \in promotions : p.key = c.key /\ p.job = c.job /\ p.state = "PENDING"
    BY Zenon, <1>1, <1>2 DEF Stands
  <2>4. Earned(n) /\ Stands(n, epochs', promotions', active', completed')
    BY <1>2, <1>3, <1>7, <2>1, <2>2, <2>3 DEF Earned, Stands, PastAssign
  <2>5. \A d \in calls \ {c} : Apart(n, d)
    BY <1>2, <2>1, StaysApart DEF PastAssign
  <2> QED
    BY <1>1, <1>3, <1>5, <1>7, <2>1, <2>2, <2>4, <2>5, GoesOn
<1>8. CASE /\ c.phase = "assign" /\ epochs' = Raised
           /\ Proceeds(c, [c EXCEPT !.phase = "write", !.epoch = epochs[c.job] + 1])
  <2> DEFINE n == [c EXCEPT !.phase = "write", !.epoch = epochs[c.job] + 1]
  <2>1. /\ n \in CallSet /\ n.phase = "write" /\ n.key = c.key /\ n.job = c.job
        /\ n.epoch = epochs[c.job] + 1 /\ n.expected = c.expected
    BY Zenon, <1>1, <1>2, Assigned
  <2>2. calls' = (calls \ {c}) \union {n} /\ UNCHANGED <<promotions, completed>>
    BY <1>8 DEF Proceeds, Step
  <2> HIDE DEF n, Raised
  <2>3. /\ <<c.job, c.key>> \notin active /\ c.expected <= epochs[c.job]
        /\ \E p \in promotions : p.key = c.key /\ p.job = c.job /\ p.state = "PENDING"
    BY <1>1, <1>2, <1>8 DEF Stands
  <2>4. \A r \in completed : r.job = c.job => r.epoch # epochs[c.job] + 1
    BY <1>1, <1>2 DEF EndedHold, CompletedSet
  <2>5. n.expected < n.epoch /\ n.epoch <= epochs'[n.job]
    BY <1>2, <1>4, <1>8, <2>1, <2>3
  <2>6. Earned(n) /\ Stands(n, epochs', promotions', active', completed')
    BY Zenon, <1>2, <1>3, <2>1, <2>2, <2>3, <2>4, <2>5 DEF Earned, Stands
  <2>7. ASSUME NEW d \in calls \ {c} PROVE Apart(n, d)
    <3>1. Apart(c, d) /\ d \in CallSet /\ Stands(d, epochs, promotions, active, completed)
      BY DEF PromotionInv, CallsHold
    <3>2. d.phase \in PastCreate => d.key # c.key
      BY Zenon, <1>2, <3>1 DEF Apart
    <3>3. d.phase \in PastAssign /\ d.job = c.job => d.epoch # epochs[c.job] + 1
      BY <1>2, <3>1 DEF Stands, CallSet
    <3> QED
      BY Zenon, <2>1, <3>2, <3>3 DEF Apart
  <2> QED
    BY <1>1, <1>3, <1>4, <1>8, <2>1, <2>2, <2>6, <2>7, GoesOn
<1>9. CASE /\ c.phase = "write" /\ epochs[c.job] \in {c.expected, c.epoch}
           /\ epochs' = [epochs EXCEPT ![c.job] = c.epoch] /\ Proceeds(c, [c EXCEPT !.phase = "revalidate"])
  <2> DEFINE n == [c EXCEPT !.phase = "revalidate"]
  <2>1. /\ n \in CallSet /\ n.phase = "revalidate" /\ n.key = c.key /\ n.job = c.job /\ n.epoch = c.epoch
        /\ n.expected = c.expected
    BY Zenon, <1>1, Rephased DEF PastCreate
  <2>2. calls' = (calls \ {c}) \union {n} /\ UNCHANGED <<promotions, completed>>
    BY <1>9 DEF Proceeds, Step
  <2> HIDE DEF n
  <2>3. /\ <<c.job, c.key>> \notin active /\ c.expected < c.epoch /\ c.epoch <= epochs[c.job]
        /\ \E p \in promotions : p.key = c.key /\ p.job = c.job /\ p.state = "PENDING"
        /\ \A r \in completed : r.job = c.job => r.epoch # c.epoch
    BY <1>1, <1>2, <1>9 DEF Stands, PastAssign
  <2>4. epochs[c.job] = c.epoch
    BY <1>2, <1>9, <2>3
  <2>5. UNCHANGED epochs
    BY <1>1, <1>2, <1>9, <2>4
  <2>6. Earned(n) /\ Stands(n, epochs', promotions', active', completed')
    BY Zenon, <1>2, <1>3, <2>1, <2>2, <2>3, <2>5 DEF Earned, Stands
  <2>7. \A d \in calls \ {c} : Apart(n, d)
    BY <1>2, <1>9, <2>1, StaysApart DEF PastAssign
  <2> QED
    BY <1>1, <1>3, <1>5, <2>1, <2>2, <2>5, <2>6, <2>7, GoesOn
<1>10. Assign(c) => c.phase = "assign" /\ ([epochs EXCEPT ![c.job] = @ + 1] = Raised)
  BY DEF Assign, At
<1>11. UpdateEpoch(c) => c.phase = "write"
  BY DEF UpdateEpoch, At
<1> HIDE DEF Raised
<1> QED
  BY <1>6, <1>7, <1>8, <1>9, <1>10, <1>11 DEF Fence, Assign, UpdateEpoch

(* Revalidate goes on with a capability that suffices, or refuses.          *)
LEMMA RevalidateHolds ==
  ASSUME PromotionInv, NEW c \in calls, Revalidate(c)
  PROVE  PromotionInv' /\ RowsStay
<1>1. /\ c \in CallSet /\ Stands(c, epochs, promotions, active, completed)
      /\ RowsHold(promotions, active, completed) /\ epochs \in [Jobs -> Nat] /\ c.phase = "revalidate"
  BY Zenon DEF PromotionInv, CallsHold, Revalidate, At
<1>2. UNCHANGED <<epochs, begun, environment, active>> /\ \A j \in Jobs : epochs[j] <= epochs'[j]
  <2>1. UNCHANGED <<epochs, begun, environment, active>>
    BY Zenon DEF Revalidate
  <2> QED
    BY <1>1, <2>1
<1>3. c.phase \in PastCreate /\ c.phase \in PastAssign /\ c.phase \in PastCreate \ {"complete"}
  BY <1>1 DEF PastCreate, PastAssign
<1>4. CASE Refused(c)
  <2>1. Ends(c) /\ (promotions' = Update(c, "FAILED") \/ UNCHANGED promotions)
    BY <1>4 DEF Refused
  <2> QED
    BY <1>1, <1>2, <1>3, <2>1, EndsHold
<1>5. CASE ~Refused(c)
  <2>1. /\ revalidator.configured
        /\ \E level \in 0 .. 3 : /\ Suffices(level, revalidator.required)
                                 /\ Proceeds(c, [c EXCEPT !.phase = "recover", !.capability = level])
    <3>1. /\ revalidator.configured
          /\ \E attempts \in [0 .. MaxRetries -> 0 .. 3] :
               \E i \in {k \in 0 .. MaxRetries : Suffices(attempts[k], revalidator.required)} :
                  Proceeds(c, [c EXCEPT !.phase = "recover", !.capability = attempts[i]])
      BY Zenon, <1>5 DEF Revalidate
    <3>2. PICK attempts \in [0 .. MaxRetries -> 0 .. 3], i \in 0 .. MaxRetries :
             /\ Suffices(attempts[i], revalidator.required)
             /\ Proceeds(c, [c EXCEPT !.phase = "recover", !.capability = attempts[i]])
      BY Zenon, <3>1
    <3>3. attempts[i] \in 0 .. 3
      OBVIOUS
    <3> QED
      BY Zenon, <3>1, <3>2, <3>3
  <2>2. PICK level \in 0 .. 3 : /\ Suffices(level, revalidator.required)
                                /\ Proceeds(c, [c EXCEPT !.phase = "recover", !.capability = level])
    BY Zenon, <2>1
  <2> DEFINE n == [c EXCEPT !.phase = "recover", !.capability = level]
  <2>3. /\ n \in CallSet /\ n.phase = "recover" /\ n.key = c.key /\ n.job = c.job /\ n.epoch = c.epoch
        /\ n.expected = c.expected /\ n.capability = level
    BY Zenon, <1>1, Revalidated
  <2>4. calls' = (calls \ {c}) \union {n} /\ UNCHANGED <<promotions, completed>>
    BY <2>2 DEF Proceeds, Step
  <2> HIDE DEF n
  <2>5. Earned(n)
    BY <2>1, <2>2, <2>3 DEF Earned
  <2>6. Stands(n, epochs', promotions', active', completed')
    BY Zenon, <1>1, <1>2, <1>3, <2>3, <2>4 DEF Stands
  <2>7. \A d \in calls \ {c} : Apart(n, d)
    BY Zenon, <1>3, <2>3, StaysApart
  <2> QED
    BY <1>1, <1>2, <2>3, <2>4, <2>5, <2>6, <2>7, GoesOn
<1> QED
  BY <1>4, <1>5

(* The target has not recovered for this key before, so it recovers now.    *)
LEMMA RecoverHolds ==
  ASSUME PromotionInv, NEW c \in calls, RecoverForPromotion(c)
  PROVE  PromotionInv' /\ RowsStay
<1>1. /\ c \in CallSet /\ Stands(c, epochs, promotions, active, completed) /\ Earned(c)
      /\ RowsHold(promotions, active, completed) /\ epochs \in [Jobs -> Nat] /\ c.phase = "recover"
  BY DEF PromotionInv, CallsHold, RecoverForPromotion, At
<1>2. UNCHANGED <<epochs, begun, environment>> /\ \A j \in Jobs : epochs[j] <= epochs'[j]
  BY <1>1 DEF RecoverForPromotion
<1>3. c.phase \in PastCreate /\ c.phase \in PastAssign /\ c.phase \in PastCreate \ {"complete"}
  BY <1>1 DEF PastCreate, PastAssign
<1>4. \A a \in active' : a \in active \/ a = <<c.job, c.key>>
  BY DEF RecoverForPromotion
<1>5. CASE Refused(c) \/ Breaks(c)
  <2>1. Ends(c) /\ (promotions' = Update(c, "FAILED") \/ UNCHANGED promotions)
    BY <1>5 DEF Refused, Breaks
  <2> QED
    BY <1>1, <1>2, <1>3, <1>4, <2>1, EndsHold
<1>6. CASE ~(Refused(c) \/ Breaks(c))
  <2> DEFINE n == [c EXCEPT !.phase = "complete"]
  <2>1. <<c.job, c.key>> \notin active
    BY Zenon, <1>1, <1>3 DEF Stands
  <2>2. Recover(c.job, c.epoch) /\ Proceeds(c, n)
    BY <1>6, <2>1 DEF RecoverForPromotion
  <2>3. /\ n \in CallSet /\ n.phase = "complete" /\ n.key = c.key /\ n.job = c.job /\ n.epoch = c.epoch
        /\ n.expected = c.expected /\ n.capability = c.capability
    BY Zenon, <1>1, Rephased DEF PastCreate
  <2>4. calls' = (calls \ {c}) \union {n} /\ UNCHANGED <<promotions, completed>>
    BY <2>2 DEF Proceeds, Step
  <2> HIDE DEF n
  <2>5. Earned(n)
    BY Zenon, <1>1, <2>2, <2>3 DEF Earned
  <2>6. Stands(n, epochs', promotions', active', completed')
    BY Zenon, <1>1, <1>2, <1>3, <2>3, <2>4 DEF Stands
  <2>7. \A d \in calls \ {c} : Apart(n, d)
    BY Zenon, <1>3, <2>3, StaysApart
  <2>8. RowsHold(promotions', active', completed')
    <3>1. \E p \in promotions : p.key = c.key
      BY Zenon, <1>1, <1>3 DEF Stands
    <3>2. ASSUME NEW a \in active' PROVE \E p \in promotions' : p.key = a[2]
      <4>1. CASE a \in active
        BY Zenon, <1>1, <2>4, <4>1 DEF RowsHold
      <4>2. CASE a = <<c.job, c.key>>
        <5>1. a[2] = c.key
          BY <4>2
        <5> QED
          BY <2>4, <3>1, <5>1
      <4> QED
        BY <1>4, <4>1, <4>2
    <3> QED
      BY Zenon, <1>1, <2>4, <3>2 DEF RowsHold
  <2> QED
    BY <1>1, <1>2, <1>3, <1>4, <2>3, <2>4, <2>5, <2>6, <2>7, <2>8, GoesOn
<1> QED
  BY <1>5, <1>6

(* Complete reports what the call has earned, under an epoch of its own.    *)
LEMMA CompleteHolds ==
  ASSUME PromotionInv, NEW c \in calls, Complete(c)
  PROVE  PromotionInv' /\ RowsStay
<1>1. /\ c \in CallSet /\ Stands(c, epochs, promotions, active, completed) /\ Earned(c)
      /\ RowsHold(promotions, active, completed) /\ EndedHold(epochs, completed)
      /\ epochs \in [Jobs -> Nat] /\ c.phase = "complete"
  BY Zenon DEF PromotionInv, CallsHold, Complete, At
<1>2. UNCHANGED <<epochs, begun, environment, active>> /\ \A j \in Jobs : epochs[j] <= epochs'[j]
  BY <1>1 DEF Complete
<1>3. c.phase \in PastCreate /\ c.phase \in PastAssign
  BY <1>1 DEF PastCreate, PastAssign
<1> DEFINE r == [job |-> c.job, key |-> c.key, epoch |-> c.epoch, expected |-> c.expected,
                 capability |-> c.capability]
<1>4. /\ r \in CompletedSet /\ r.job = c.job /\ r.key = c.key /\ r.epoch = c.epoch
      /\ r.capability = c.capability
  BY Zenon, <1>1 DEF CallSet, CompletedSet
<1>5. calls' = calls \ {c} /\ completed' = completed \union {r}
  BY Zenon DEF Complete, Return
<1> HIDE DEF r
<1>6. RowsHold(promotions', active', completed') /\ RowsStay
      /\ \A p \in promotions : p \in promotions' \/ p.key = c.key
  <2>1. CASE promotions' = Update(c, "COMPLETE")
    <3>1. completed \subseteq completed' /\ \E o \in completed' : o.key = c.key /\ o.epoch = c.epoch
      BY Zenon, <1>4, <1>5
    <3>2. \A a \in active' : a \in active \/ a = <<c.job, c.key>>
      BY <1>2
    <3> QED
      BY Zenon, <1>3, <2>1, <3>1, <3>2, UpdateRows DEF RowsStay
  <2>2. CASE UNCHANGED promotions
    BY Zenon, <1>1, <1>2, <1>5, <2>2 DEF RowsHold, RowsStay
  <2> QED
    BY Zenon, <2>1, <2>2 DEF Complete
<1>7. Disturbs(c)
  BY Zenon, <1>1, <1>2, <1>3, <1>4, <1>5, <1>6 DEF Disturbs
<1>8. CallsHold(calls', epochs', promotions', active', completed')
  BY <1>5, <1>7, CallReturns
<1>9. EndedHold(epochs', completed')
  <2>1. r.epoch <= epochs[r.job] /\ \A p \in completed : p.job = r.job => p.epoch # r.epoch
    BY Zenon, <1>1, <1>3, <1>4 DEF Stands
  <2> QED
    BY Zenon, <1>1, <1>2, <1>4, <1>5, <2>1 DEF EndedHold
<1>10. \A d \in calls' : Earned(d)'
  BY <1>2, <1>5, EarnedStays DEF PromotionInv
<1>11. CompletionIsEarned'
  <2>1. /\ revalidator.configured /\ Suffices(r.capability, revalidator.required)
        /\ DOMAIN standbyLog # {} /\ Latest.job = r.job /\ Latest.epoch <= r.epoch
        /\ manifests[Latest.uri].job = r.job /\ manifests[Latest.uri].files = "whole"
    BY Zenon, <1>1, <1>4 DEF Earned, Recover, GetLatestCheckpoint, Validate
  <2>2. \A p \in completed' :
          /\ revalidator.configured /\ Suffices(p.capability, revalidator.required)
          /\ DOMAIN standbyLog # {} /\ Latest.job = p.job /\ Latest.epoch <= p.epoch
          /\ manifests[Latest.uri].job = p.job /\ manifests[Latest.uri].files = "whole"
    BY Zenon, <1>5, <2>1 DEF PromotionInv, CompletionIsEarned
  <2> QED
    BY Zenon, <1>2, <2>2 DEF CompletionIsEarned, environment, Suffices, Latest
<1> QED
  BY Zenon, <1>1, <1>2, <1>6, <1>8, <1>9, <1>10, <1>11 DEF PromotionInv

(* A new request, and calls or recoveries that a restart forgets.           *)
LEMMA OutsideSteps ==
  ASSUME PromotionInv,
         \/ \E m \in Managers, j \in Jobs, t \in Targets, k \in Keys, e \in Nat : Promote(m, j, t, k, e)
         \/ \E m \in Managers : ManagerRestarts(m)
         \/ TargetRestarts
  PROVE  PromotionInv' /\ RowsStay
<1>1. /\ UNCHANGED <<epochs, promotions, environment, completed>> /\ active' \subseteq active
      /\ epochs \in [Jobs -> Nat] /\ EndedHold(epochs, completed) /\ RowsHold(promotions, active, completed)
  BY Zenon DEF PromotionInv, Promote, ManagerRestarts, TargetRestarts
<1>2. RowsHold(promotions', active', completed') /\ EndedHold(epochs', completed') /\ RowsStay
  BY Zenon, <1>1 DEF RowsHold, RowsStay
<1>3. CompletionIsEarned'
  BY Zenon, <1>1 DEF PromotionInv, CompletionIsEarned, environment, Suffices, Latest
<1>4. \A d \in calls : Stands(d, epochs', promotions', active', completed') /\ Earned(d)'
  <2>1. \A d \in calls : Earned(d)'
    BY Zenon, <1>1, EarnedStays DEF PromotionInv
  <2>2. \A d \in calls : Stands(d, epochs', promotions', active', completed')
    BY Zenon, <1>1 DEF PromotionInv, CallsHold, Stands
  <2> QED
    BY <2>1, <2>2
<1>5. CASE calls' \subseteq calls /\ UNCHANGED begun
  BY Zenon, <1>1, <1>2, <1>3, <1>4, <1>5 DEF PromotionInv, CallsHold
<1>6. ASSUME NEW m \in Managers, NEW j \in Jobs, NEW t \in Targets, NEW k \in Keys, NEW e \in Nat,
             Promote(m, j, t, k, e)
      PROVE  PromotionInv'
  <2> DEFINE n == [number |-> begun + 1, manager |-> m, job |-> j, target |-> t, key |-> k, expected |-> e,
                   epoch |-> e + 1, capability |-> 0, phase |-> "get"]
  <2>1. begun \in Nat /\ begun + 1 \in Nat /\ e + 1 \in Nat
    BY DEF PromotionInv
  <2>2. n \in CallSet /\ n.phase = "get"
    BY <2>1 DEF CallSet
  <2>3. calls' = calls \union {n} /\ begun' = begun + 1
    BY Zenon, <1>6 DEF Promote
  <2> HIDE DEF n
  <2>4. Stands(n, epochs', promotions', active', completed')
    BY Zenon, <2>2 DEF Stands, PastCreate, PastAssign
  <2>5. \A d \in calls : Apart(n, d) /\ Apart(d, n)
    BY Zenon, <2>2 DEF Apart, PastCreate, PastAssign
  <2>6. Apart(n, n)
    BY DEF Apart
  <2>7. CallsHold(calls', epochs', promotions', active', completed')
    BY Zenon, <1>4, <2>2, <2>3, <2>4, <2>5, <2>6 DEF PromotionInv, CallsHold
  <2>8. \A d \in calls' : Earned(d)'
    <3>1. \A x : x.phase = "get" => Earned(x)'
      BY DEF Earned
    <3> QED
      BY <1>4, <2>2, <2>3, <3>1
  <2> QED
    BY Zenon, <1>1, <1>2, <1>3, <2>1, <2>3, <2>7, <2>8 DEF PromotionInv
<1>7. (\E m \in Managers : ManagerRestarts(m)) \/ TargetRestarts => calls' \subseteq calls /\ UNCHANGED begun
  BY DEF ManagerRestarts, TargetRestarts
<1> QED
  BY <1>2, <1>5, <1>6, <1>7

(* The invariant holds initially and is kept by every step.                 *)
LEMMA PromotionSteps ==
  /\ PromotionInit /\ epochs \in [Jobs -> Nat] => PromotionInv
  /\ PromotionInv /\ PromotionNext(Nat) => PromotionInv' /\ RowsStay
<1>1. PromotionInit /\ epochs \in [Jobs -> Nat] => PromotionInv
  <2> SUFFICES ASSUME PromotionInit, epochs \in [Jobs -> Nat] PROVE PromotionInv
    OBVIOUS
  <2>1. calls = {} /\ begun = 0 /\ promotions = {} /\ active = {} /\ completed = {}
    BY DEF PromotionInit
  <2>2. CallsHold(calls, epochs, promotions, active, completed)
    BY <2>1 DEF CallsHold
  <2>3. RowsHold(promotions, active, completed) /\ EndedHold(epochs, completed)
    BY Zenon, <2>1 DEF RowsHold, EndedHold
  <2>4. CompletionIsEarned
    BY Zenon, <2>1 DEF CompletionIsEarned
  <2> QED
    BY <2>1, <2>2, <2>3, <2>4 DEF PromotionInv
<1>2. ASSUME PromotionInv, NEW c \in calls, PromotionStep(c)
      PROVE  PromotionInv' /\ RowsStay
  BY Zenon, <1>2, EarlySteps, CreateHolds, EpochSteps, RevalidateHolds, RecoverHolds, CompleteHolds DEF PromotionStep
<1>3. PromotionInv /\ PromotionNext(Nat) => PromotionInv' /\ RowsStay
  BY Zenon, <1>2, OutsideSteps DEF PromotionNext
<1> QED
  BY <1>1, <1>3

(* Only Assign changes an epoch: what UpdateEpoch writes is there already.  *)
LEMMA EpochsGrow ==
  PromotionInv /\ PromotionNext(Nat) => \A j \in Jobs : epochs[j] <= epochs'[j]
<1> SUFFICES ASSUME PromotionInv, PromotionNext(Nat) PROVE \A j \in Jobs : epochs[j] <= epochs'[j]
  BY Zenon
<1>1. epochs \in [Jobs -> Nat] /\ \A j \in Jobs : epochs[j] \in Nat
  BY DEF PromotionInv
<1>2. CASE UNCHANGED epochs
  BY <1>1, <1>2
<1>3. ASSUME NEW c \in calls, Assign(c) PROVE \A j \in Jobs : epochs[j] <= epochs'[j]
  <2>1. CASE epochs' = [epochs EXCEPT ![c.job] = @ + 1]
    BY <1>1, <2>1
  <2> QED
    BY <1>2, <1>3, <2>1 DEF Assign
<1>4. ASSUME NEW c \in calls, UpdateEpoch(c) PROVE UNCHANGED epochs
  <2>1. /\ c \in CallSet /\ Stands(c, epochs, promotions, active, completed) /\ c.phase = "write"
    BY <1>4 DEF PromotionInv, CallsHold, UpdateEpoch, At
  <2>2. c.job \in Jobs /\ c.expected \in Nat /\ c.epoch \in Nat /\ c.expected < c.epoch /\ c.epoch <= epochs[c.job]
    BY Zenon, <2>1 DEF CallSet, Stands, PastAssign
  <2>3. CASE epochs[c.job] \in {c.expected, c.epoch} /\ epochs' = [epochs EXCEPT ![c.job] = c.epoch]
    <3>1. epochs[c.job] = c.epoch
      BY <1>1, <2>2, <2>3
    <3> QED
      BY <1>1, <2>2, <2>3, <3>1
  <2> QED
    BY <1>4, <2>3 DEF UpdateEpoch
<1>5. ASSUME NEW c \in calls, PromotionStep(c) PROVE Assign(c) \/ UpdateEpoch(c) \/ UNCHANGED epochs
  BY Zenon, <1>5 DEF PromotionStep, Get, GetEpoch, Track, Create, Fence, Revalidate, RecoverForPromotion, Complete
<1> QED
  BY Zenon, <1>2, <1>3, <1>4, <1>5 DEF PromotionNext, Promote, ManagerRestarts, TargetRestarts

(* The invariant holds for any managers, requests, faults and environment.  *)
THEOREM PromotionInvariant == PromotionSpec => []PromotionInv
<1>1. PromotionInv /\ [PromotionNext(Nat)]_<<epochs, promotionVars>> => PromotionInv'
  <2>1. PromotionInv /\ UNCHANGED <<epochs, promotionVars>> => PromotionInv'
    <3> SUFFICES ASSUME PromotionInv, UNCHANGED <<epochs, promotionVars>> PROVE PromotionInv'
      OBVIOUS
    <3>1. /\ UNCHANGED <<epochs, calls, begun, promotions, active, completed>> /\ UNCHANGED environment
      BY Zenon DEF promotionVars, environment
    <3>2. \A c \in calls : Earned(c)'
      BY Zenon, <3>1, EarnedStays DEF PromotionInv
    <3>3. CompletionIsEarned'
      BY Zenon, <3>1 DEF PromotionInv, CompletionIsEarned, environment, Suffices, Latest
    <3> QED
      BY Zenon, <3>1, <3>2, <3>3 DEF PromotionInv
  <2> QED
    BY <2>1, PromotionSteps
<1> QED
  BY <1>1, PromotionSteps, PTL DEF PromotionSpec

(* A promotion is reported complete only when the target recovered a whole  *)
(* checkpoint of the Job no newer than the promotion's epoch and a sink     *)
(* gave the capability the Job needs (promotion.go:398-422, recovery.go).   *)
THEOREM CompletionsAreEarned == PromotionSpec => []CompletionIsEarned
BY PromotionInvariant, PTL DEF PromotionInv

(* Epochs never go back, no two promotions complete with the same epoch,    *)
(* and a row that says how a promotion ended is true and stays, whichever   *)
(* managers run them and wherever they fail (postgres.go:73-153).           *)
THEOREM EpochsAndRowsAreFinal == PromotionSpec => EpochsOnlyGrow
<1> DEFINE Final == \A p \in promotions, q \in promotions' :
             p.key = q.key =>
                /\ p.job = q.job /\ (p.state # "PENDING" => q = p)
                /\ q.state = "COMPLETE" => \E r \in completed' : r.key = q.key /\ r.epoch = q.epoch
           Grow == \A j \in Jobs : epochs[j] <= epochs'[j]
           Unique == \A p, q \in completed : p.job = q.job /\ p.epoch = q.epoch => p.key = q.key
<1>1. PromotionInv /\ PromotionInv' /\ [PromotionNext(Nat)]_<<epochs, promotionVars>> => [Final]_promotionVars
  <2> SUFFICES ASSUME PromotionInv, PromotionInv', PromotionNext(Nat) PROVE Final
    BY Zenon DEF promotionVars
  <2>1. RowsStay
    BY PromotionSteps
  <2>2. RowsHold(promotions', active', completed')
    BY Zenon DEF PromotionInv
  <2> QED
    BY Zenon, <2>1, <2>2 DEF RowsStay, RowsHold
<1>2. PromotionInv /\ [PromotionNext(Nat)]_<<epochs, promotionVars>> => [Grow]_<<epochs, promotionVars>>
  BY EpochsGrow
<1>3. PromotionInv => Unique
  BY Zenon DEF PromotionInv, EndedHold
<1> QED
  BY <1>1, <1>2, <1>3, PromotionInvariant, PTL DEF PromotionSpec, EpochsOnlyGrow, RowsAreFinal
===============================================================================
