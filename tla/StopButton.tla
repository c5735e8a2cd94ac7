----------------------------- MODULE StopButton -----------------------------
(* The Stop button of the composer: what it remembers of the Stop it asked *)
(* for, beside the runtime the page knows                                  *)
(* (frontend/src/components/composer/Composer.tsx).                        *)
EXTENDS Naturals, Sequences, FiniteSetsExt, ClientRequests

CONSTANTS StopSessions,
          MaxStopRuns, \* bound: Runs of the Sessions
          MaxStops     \* bound: Stops asked for

ASSUME StopAssumption == StopSessions # {} /\ {MaxStopRuns, MaxStops} \subseteq Nat

VARIABLES stopPage,    \* sessionId of the composer
          serverRun,   \* of each Session its latest Run and its phase
          knownRun,    \* the same as the page's state query has it
          readRun,     \* an answer of that query that is under way
          stopFlag,    \* stopRequested, stopSessionIdRef, stopRunIdRef
          stops,       \* the Stops, in their order
          stopObserved \* the one the mutation observer reports (0: none)

stopVars == <<stopPage, serverRun, knownRun, readRun, stopFlag, stops, stopObserved>>

Runtime(run, phase) == [run |-> run, phase |-> phase]
RunOf(runtime) == IF runtime.phase = "idle" THEN 0 ELSE runtime.run
Flag(requested, s, run) == [requested |-> requested, session |-> s, run |-> run]
StopOf(s, run) == [session |-> s, run |-> run, phase |-> "posted", applied |-> FALSE, result |-> "none", mine |-> TRUE]

(* Mutant: the flag outlives the Run it was set for. *)
SettledForSession(flag, s, runtime) == IF flag.session # s THEN Flag(FALSE, s, 0) ELSE flag
(* The two effects after a render: the flag is dropped with its Session,   *)
(* and with its Run.                                                       *)
SettledFlag(flag, s, runtime) ==
  IF flag.session # s \/ (flag.run # 0 /\ RunOf(runtime) # flag.run) THEN Flag(FALSE, s, 0) ELSE flag

-----------------------------------------------------------------------------
LatestRun == Max({serverRun[s].run : s \in StopSessions})
StopRunStarts(s) ==
  /\ serverRun[s].phase = "idle" /\ LatestRun < MaxStopRuns
  /\ serverRun' = [serverRun EXCEPT ![s] = Runtime(LatestRun + 1, "running")]
  /\ UNCHANGED <<stopPage, knownRun, readRun, stopFlag, stops, stopObserved>>

StopRunEnds(s) ==
  /\ serverRun[s].phase # "idle"
  /\ serverRun' = [serverRun EXCEPT ![s].phase = "idle"]
  /\ UNCHANGED <<stopPage, knownRun, readRun, stopFlag, stops, stopObserved>>

(* The page learns of it from the stream, or from a state it reads, whose  *)
(* answer may come after a newer event.                                    *)
Learn(s, runtime) ==
  /\ knownRun' = [knownRun EXCEPT ![s] = runtime]
  /\ stopFlag' = SettledFlag(stopFlag, stopPage, knownRun'[stopPage])
HearRuntime(s) == Learn(s, serverRun[s]) /\ UNCHANGED <<stopPage, serverRun, readRun, stops, stopObserved>>
AskRuntime ==
  /\ readRun = {} /\ readRun' = {<<stopPage, serverRun[stopPage]>>}
  /\ UNCHANGED <<stopPage, serverRun, knownRun, stopFlag, stops, stopObserved>>
LandRuntime(r) ==
  /\ Learn(r[1], r[2]) /\ readRun' = {}
  /\ UNCHANGED <<stopPage, serverRun, stops, stopObserved>>

-----------------------------------------------------------------------------
StopPending(s) == stopObserved # 0 /\ stops[stopObserved].phase # "answered" /\ stops[stopObserved].session = s
Stopping(s) == (stopFlag.requested /\ stopFlag.session = s) \/ knownRun[s].phase = "stopping"

(* The click; onMutate.                                                    *)
ClickStop ==
  LET s == stopPage
  IN  /\ RunOf(knownRun[s]) # 0 /\ ~Stopping(s) /\ ~StopPending(s)
      /\ Len(stops) < MaxStops
      /\ stops' = Append(stops, StopOf(s, knownRun[s].run)) /\ stopObserved' = Len(stops) + 1
      /\ stopFlag' = Flag(TRUE, s, knownRun[s].run)
      /\ UNCHANGED <<stopPage, serverRun, knownRun, readRun>>

(* The request names the Session only: the server stops the Run it finds.  *)
ServeStop(i) ==
  LET s == stops[i].session
  IN  /\ stops[i].phase = "posted"
      /\ \E done \in BOOLEAN :
           /\ stops' = [stops EXCEPT ![i].phase = "served", ![i].applied = done]
           /\ serverRun' = IF done /\ serverRun[s].phase = "running"
                           THEN [serverRun EXCEPT ![s].phase = "stopping"] ELSE serverRun
      /\ UNCHANGED <<stopPage, knownRun, readRun, stopFlag, stopObserved>>

(* onError, on the page of its Session: the button is offered again.       *)
AnswerStop(i) ==
  /\ stops[i].phase = "served"
  /\ \E result \in Results(stops[i].applied) :
       /\ stops' = [stops EXCEPT ![i].phase = "answered", ![i].result = result]
       /\ stopFlag' = IF result = "error" /\ stops[i].mine /\ stops[i].session = stopPage
                      THEN [stopFlag EXCEPT !.requested = FALSE, !.run = 0] ELSE stopFlag
  /\ UNCHANGED <<stopPage, serverRun, knownRun, readRun, stopObserved>>

(* To another Session, with the composer or with a new one.                *)
ShowStopPage(s) ==
  /\ s # stopPage /\ stopPage' = s
  /\ \/ /\ stopFlag' = SettledFlag(stopFlag, s, knownRun[s])
        /\ UNCHANGED <<stops, stopObserved>>
     \/ /\ stopFlag' = Flag(FALSE, s, 0) /\ stopObserved' = 0
        /\ stops' = [i \in DOMAIN stops |-> [stops[i] EXCEPT !.mine = FALSE]]
  /\ UNCHANGED <<serverRun, knownRun, readRun>>

-----------------------------------------------------------------------------
StopInit ==
  /\ stopPage = CHOOSE s \in StopSessions : TRUE
  /\ serverRun = [s \in StopSessions |-> Runtime(0, "idle")] /\ knownRun = serverRun /\ readRun = {}
  /\ stopFlag = Flag(FALSE, stopPage, 0) /\ stops = <<>> /\ stopObserved = 0

StopNext ==
  \/ \E s \in StopSessions :
       StopRunStarts(s) \/ StopRunEnds(s) \/ HearRuntime(s) \/ ShowStopPage(s)
  \/ \E r \in readRun : LandRuntime(r)
  \/ AskRuntime \/ ClickStop
  \/ \E i \in DOMAIN stops : ServeStop(i) \/ AnswerStop(i)

StopSpec == StopInit /\ [][StopNext]_stopVars

-----------------------------------------------------------------------------
StopTypeOK ==
  /\ stopPage \in StopSessions
  /\ {serverRun, knownRun} \subseteq
       [StopSessions -> [run : 0..MaxStopRuns, phase : {"idle", "running", "stopping"}]]
  /\ stopFlag \in [requested : BOOLEAN, session : StopSessions, run : 0..MaxStopRuns]
  /\ stopObserved \in 0..Len(stops)

(* "Stopping" is shown of a Run because the server says so or because this *)
(* Run was asked to stop and the answer is no error: not of the next Run,  *)
(* nor of another Session's, whatever is answered or read late.            *)
StopTold ==
  Stopping(stopPage) /\ knownRun[stopPage].phase = "running" =>
    \E i \in DOMAIN stops :
      /\ stops[i].session = stopPage /\ stops[i].run = knownRun[stopPage].run
      /\ stops[i].result # "error"
=============================================================================
