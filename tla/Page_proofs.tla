----------------------------- MODULE Page_proofs -----------------------------
(***************************************************************************)
(* Proofs about the parts of the Web page that act on their own: for any   *)
(* Sessions, texts and requests, however many there are.  The widgets come *)
(* first, then the conversation, and at the end the live connection.       *)
(***************************************************************************)
EXTENDS ComposerSend, StopButton, PortfolioRequests, DefaultsForms,
        ApprovalCard, QueueStrip, SessionDirectory, ConversationTimeline,
        Connection, HistoryPages_proofs, WellFoundedInduction, TLAPS

-----------------------------------------------------------------------------
(* The requests of the client.                                             *)

(* Of a request that the server did not do the client has no value.        *)
LEMMA ResultsOfRequest ==
  /\ Results(FALSE) = {"error"}
  /\ Results(TRUE) \subseteq {"value", "error"}
<1>1. \A b \in BOOLEAN : Results(b) \subseteq {"value", "error"}
  BY DEF Results, ParsedValue
<1>2. \A r \in Responses(FALSE) : ParsedValue(r) = "error"
  BY DEF Responses, ParsedValue
<1>3. [arrives |-> FALSE, ok |-> FALSE, parses |-> FALSE] \in Responses(FALSE)
  BY DEF Responses
<1> QED BY <1>1, <1>2, <1>3 DEF Results

-----------------------------------------------------------------------------
(* The Stop button.  StopTold is not inductive: a Stop that fails has to   *)
(* take the flag with it, so the Stop that stands for the flag must be one *)
(* of this mount of the composer.                                          *)

StopRuntimes == [run : 0 .. MaxStopRuns, phase : {"idle", "running", "stopping"}]
StopRecord ==
  [session : StopSessions, run : 0 .. MaxStopRuns, phase : {"posted", "served", "answered"},
   applied : BOOLEAN, result : {"none", "value", "error"}, mine : BOOLEAN]

(* The Stop i stands for the flag.                                         *)
StandsFor(i, flag) ==
  /\ stops[i].session = flag.session /\ stops[i].run = flag.run
  /\ stops[i].mine /\ stops[i].result # "error"

StopTypes ==
  /\ stopPage \in StopSessions
  /\ {serverRun, knownRun} \subseteq [StopSessions -> StopRuntimes]
  /\ readRun \subseteq StopSessions \X StopRuntimes
  /\ stopFlag \in [requested : BOOLEAN, session : StopSessions, run : 0 .. MaxStopRuns]
  /\ stops \in Seq(StopRecord)

FlagTrue ==
  stopFlag.requested =>
    /\ stopFlag.session = stopPage /\ stopFlag.run # 0
    /\ stopFlag.run = RunOf(knownRun[stopPage])
    /\ \E i \in DOMAIN stops : StandsFor(i, stopFlag)

StopSound == StopTypes /\ FlagTrue

(* The page learns a runtime: the flag goes with its Run.                  *)
LEMMA StopLearns ==
  ASSUME StopSound, NEW s \in StopSessions, NEW runtime \in StopRuntimes,
         Learn(s, runtime), stopPage' = stopPage, stops' = stops
  PROVE  /\ knownRun' \in [StopSessions -> StopRuntimes]
         /\ stopFlag' \in [requested : BOOLEAN, session : StopSessions, run : 0 .. MaxStopRuns]
         /\ FlagTrue'
<1>1. knownRun' \in [StopSessions -> StopRuntimes]
  BY DEF Learn, StopSound, StopTypes
<1>2. stopFlag' \in [requested : BOOLEAN, session : StopSessions, run : 0 .. MaxStopRuns]
  BY StopAssumption DEF Learn, StopSound, StopTypes, SettledFlag, Flag
<1>3. ASSUME stopFlag'.requested
      PROVE  stopFlag' = stopFlag /\ stopFlag.requested
             /\ (stopFlag.run # 0 => stopFlag.run = RunOf(knownRun'[stopPage]))
  BY <1>3 DEF Learn, SettledFlag, Flag
<1>4. ASSUME stopFlag'.requested
      PROVE  \E i \in DOMAIN stops' : StandsFor(i, stopFlag)'
  BY <1>3, <1>4 DEF StopSound, FlagTrue, StandsFor
<1>5. FlagTrue' BY <1>3, <1>4 DEF StopSound, FlagTrue
<1> QED BY <1>1, <1>2, <1>5

(* Every step keeps the flag true.                                         *)
LEMMA StopNextSound ==
  ASSUME StopSound, [StopNext]_stopVars
  PROVE  StopSound'
<1> USE DEF StopSound, StopTypes
<1>0. Len(stops) \in Nat /\ DOMAIN stops = 1 .. Len(stops)
      /\ \A i \in DOMAIN stops : stops[i] \in StopRecord
  BY LenProperties, ElementOfSeq
<1>1. ASSUME NEW s \in StopSessions, StopRunStarts(s) \/ StopRunEnds(s)
      PROVE  StopSound'
  <2> DEFINE T == {serverRun[t].run : t \in StopSessions}
  <2>1. T \subseteq 0 .. MaxStopRuns /\ T # {} /\ MaxStopRuns \in Nat
    BY StopAssumption DEF StopRuntimes
  <2> HIDE DEF T
  <2>2. Max(T) \in 0 .. MaxStopRuns BY <2>1, GreatestNumber
  <2>3. LatestRun \in 0 .. MaxStopRuns BY <2>2 DEF T, LatestRun
  <2>4. serverRun' \in [StopSessions -> StopRuntimes]
    <3>1. CASE StopRunEnds(s) BY <3>1 DEF StopRunEnds, StopRuntimes
    <3>2. CASE StopRunStarts(s)
      <4>1. Runtime(LatestRun + 1, "running") \in StopRuntimes
        BY <2>1, <2>3, <3>2 DEF StopRunStarts, Runtime, StopRuntimes
      <4> QED BY <3>2, <4>1 DEF StopRunStarts
    <3> QED BY <1>1, <3>1, <3>2
  <2> QED BY <1>1, <2>4 DEF StopRunStarts, StopRunEnds, FlagTrue, StandsFor
<1>2. ASSUME NEW s \in StopSessions, HearRuntime(s) PROVE StopSound'
  <2>1. serverRun[s] \in StopRuntimes OBVIOUS
  <2>2. Learn(s, serverRun[s]) /\ UNCHANGED <<stopPage, serverRun, readRun, stops>>
    BY <1>2 DEF HearRuntime
  <2>3. PICK r \in StopRuntimes : r = serverRun[s] BY <2>1
  <2>4. Learn(s, r) BY <2>2, <2>3
  <2> QED BY <2>2, <2>4, StopLearns
<1>3. ASSUME NEW r \in readRun, LandRuntime(r) PROVE StopSound'
  <2>1. r[1] \in StopSessions /\ r[2] \in StopRuntimes OBVIOUS
  <2>2. Learn(r[1], r[2]) /\ readRun' = {} /\ UNCHANGED <<stopPage, serverRun, stops>>
    BY <1>3 DEF LandRuntime
  <2> QED BY <2>1, <2>2, StopLearns
<1>4. CASE AskRuntime
  BY <1>4 DEF AskRuntime, FlagTrue, StandsFor
<1>5. CASE ClickStop
  <2>1. PICK x : x = StopOf(stopPage, knownRun[stopPage].run) OBVIOUS
  <2>2. knownRun[stopPage] \in StopRuntimes OBVIOUS
  <2>3. x \in StopRecord /\ RunOf(knownRun[stopPage]) = knownRun[stopPage].run
        /\ knownRun[stopPage].run # 0 /\ knownRun[stopPage].run \in 0 .. MaxStopRuns
    BY <1>5, <2>1, <2>2 DEF ClickStop, StopOf, StopRecord, RunOf, StopRuntimes
  <2>4. /\ stops' \in Seq(StopRecord) /\ Len(stops) + 1 \in DOMAIN stops'
        /\ stops'[Len(stops) + 1] = x
    <3>1. stops' = Append(stops, x) BY <1>5, <2>1 DEF ClickStop
    <3> QED BY <1>0, <2>3, <3>1, AppendProperties, LenProperties
  <2>5. stopFlag' = Flag(TRUE, stopPage, knownRun[stopPage].run)
        /\ UNCHANGED <<stopPage, serverRun, knownRun, readRun>>
    BY <1>5 DEF ClickStop
  <2>6. \E k \in DOMAIN stops' : StandsFor(k, stopFlag)'
    <3>1. PICK n : n = Len(stops) + 1 OBVIOUS
    <3>2. StandsFor(n, stopFlag)'
      BY <2>1, <2>4, <2>5, <3>1 DEF StandsFor, StopOf, Flag
    <3> QED BY <2>4, <3>1, <3>2
  <2>7. FlagTrue' BY <2>3, <2>5, <2>6 DEF FlagTrue, Flag
  <2> QED BY <2>3, <2>4, <2>5, <2>7 DEF Flag
<1>6. ASSUME NEW i \in DOMAIN stops, ServeStop(i) PROVE StopSound'
  <2>1. PICK done \in BOOLEAN :
          /\ stops' = [stops EXCEPT ![i].phase = "served", ![i].applied = done]
          /\ serverRun' = IF done /\ serverRun[stops[i].session].phase = "running"
                          THEN [serverRun EXCEPT ![stops[i].session].phase = "stopping"] ELSE serverRun
    BY <1>6 DEF ServeStop
  <2>3. stops[i] \in StopRecord BY <1>0
  <2>2. serverRun' \in [StopSessions -> StopRuntimes]
    <3>1. PICK s \in StopSessions : s = stops[i].session BY <2>3 DEF StopRecord
    <3>2. [serverRun EXCEPT ![s].phase = "stopping"]
            = [serverRun EXCEPT ![s] = [serverRun[s] EXCEPT !.phase = "stopping"]]
      OBVIOUS
    <3>3. [serverRun[s] EXCEPT !.phase = "stopping"] \in StopRuntimes
      <4>1. serverRun[s] \in StopRuntimes OBVIOUS
      <4> QED BY <4>1 DEF StopRuntimes
    <3> QED BY <2>1, <3>1, <3>2, <3>3
  <2>4. [stops[i] EXCEPT !.phase = "served", !.applied = done] \in StopRecord
    BY <2>3 DEF StopRecord
  <2>5. stops' = [stops EXCEPT ![i] = [stops[i] EXCEPT !.phase = "served", !.applied = done]]
    BY <2>1, <1>0
  <2>6. stops' \in Seq(StopRecord) /\ DOMAIN stops' = DOMAIN stops
    BY <2>4, <2>5, <1>0, ExceptSeq
  <2>7. \A k \in DOMAIN stops : StandsFor(k, stopFlag) => StandsFor(k, stopFlag)'
    BY <1>0, <1>6, <2>5 DEF StandsFor, ServeStop, StopRecord
  <2> QED BY <1>6, <2>2, <2>6, <2>7 DEF ServeStop, FlagTrue
<1>7. ASSUME NEW i \in DOMAIN stops, AnswerStop(i) PROVE StopSound'
  <2>1. PICK result \in Results(stops[i].applied) :
          /\ stops' = [stops EXCEPT ![i].phase = "answered", ![i].result = result]
          /\ stopFlag' = IF result = "error" /\ stops[i].mine /\ stops[i].session = stopPage
                         THEN [stopFlag EXCEPT !.requested = FALSE, !.run = 0] ELSE stopFlag
    BY <1>7 DEF AnswerStop
  <2>2. stops[i] \in StopRecord BY <1>0
  <2>3. result \in {"value", "error"} BY <2>2, ResultsOfRequest DEF StopRecord
  <2>4. [stops[i] EXCEPT !.phase = "answered", !.result = result] \in StopRecord
    BY <2>2, <2>3 DEF StopRecord
  <2>5. stops' = [stops EXCEPT ![i] = [stops[i] EXCEPT !.phase = "answered", !.result = result]]
    BY <2>1, <1>0
  <2>6. stops' \in Seq(StopRecord) /\ DOMAIN stops' = DOMAIN stops
    BY <2>4, <2>5, <1>0, ExceptSeq
  <2>7. stopFlag' \in [requested : BOOLEAN, session : StopSessions, run : 0 .. MaxStopRuns]
    <3>1. 0 \in 0 .. MaxStopRuns BY StopAssumption
    <3>2. [stopFlag EXCEPT !.requested = FALSE]
             \in [requested : BOOLEAN, session : StopSessions, run : 0 .. MaxStopRuns]
      OBVIOUS
    <3>3. [[stopFlag EXCEPT !.requested = FALSE] EXCEPT !.run = 0]
             \in [requested : BOOLEAN, session : StopSessions, run : 0 .. MaxStopRuns]
      BY <3>1, <3>2
    <3> QED BY <2>1, <3>3
  <2>8. UNCHANGED <<stopPage, serverRun, knownRun, readRun>> BY <1>7 DEF AnswerStop
  <2>9. ASSUME stopFlag'.requested
        PROVE  /\ stopFlag' = stopFlag
               /\ \E k \in DOMAIN stops' : StandsFor(k, stopFlag)'
    <3>1. stopFlag' = stopFlag
          /\ ~(result = "error" /\ stops[i].mine /\ stops[i].session = stopPage)
      BY <2>1, <2>9
    <3>2. stopFlag.session = stopPage BY <2>9, <3>1 DEF FlagTrue
    <3>3. PICK k \in DOMAIN stops : StandsFor(k, stopFlag) BY <2>9, <3>1 DEF FlagTrue
    <3>4. CASE k # i BY <3>1, <3>3, <3>4, <2>5, <2>6 DEF StandsFor
    <3>5. CASE k = i BY <2>2, <3>1, <3>2, <3>3, <3>5, <2>5, <2>6 DEF StandsFor, StopRecord
    <3> QED BY <3>1, <3>4, <3>5
  <2>10. FlagTrue' BY <2>8, <2>9 DEF FlagTrue
  <2> QED BY <2>6, <2>7, <2>8, <2>10
<1>8. ASSUME NEW s \in StopSessions, ShowStopPage(s) PROVE StopSound'
  <2>1. s # stopPage /\ stopPage' = s /\ UNCHANGED <<serverRun, knownRun, readRun>>
    BY <1>8 DEF ShowStopPage
  <2>2. CASE stopFlag' = SettledFlag(stopFlag, s, knownRun[s]) /\ stops' = stops
    <3>1. ~stopFlag'.requested
      BY <2>1, <2>2 DEF SettledFlag, Flag, FlagTrue
    <3> QED BY <2>1, <2>2, <3>1, StopAssumption DEF FlagTrue, SettledFlag, Flag
  <2>3. CASE /\ stopFlag' = Flag(FALSE, s, 0)
             /\ stops' = [i \in DOMAIN stops |-> [stops[i] EXCEPT !.mine = FALSE]]
    <3>1. \A i \in DOMAIN stops : [stops[i] EXCEPT !.mine = FALSE] \in StopRecord
      BY <1>0 DEF StopRecord
    <3>2. stops' \in Seq(StopRecord)
      <4>1. stops' = [i \in 1 .. Len(stops) |-> [stops[i] EXCEPT !.mine = FALSE]]
        BY <2>3, <1>0
      <4>2. stops' \in [1 .. Len(stops) -> StopRecord] BY <3>1, <4>1, <1>0
      <4> QED BY <4>2, <1>0, SeqDef
    <3> QED BY <2>1, <2>3, <3>2, StopAssumption DEF FlagTrue, Flag
  <2> QED BY <1>8, <2>2, <2>3 DEF ShowStopPage
<1>9. CASE UNCHANGED stopVars
  BY <1>9 DEF stopVars, FlagTrue, StandsFor
<1> QED
  BY <1>1, <1>2, <1>3, <1>4, <1>5, <1>6, <1>7, <1>8, <1>9 DEF StopNext

(* "Stopping" is shown of a Run because the server says so or because this *)
(* Run was asked to stop and the answer is no error.                       *)
THEOREM StopIsTold == StopSpec => []StopTold
<1>1. StopInit => StopSound
  <2> SUFFICES ASSUME StopInit PROVE StopSound OBVIOUS
  <2>1. stopPage \in StopSessions BY StopAssumption DEF StopInit
  <2>2. <<>> \in Seq(StopRecord) BY EmptySeq
  <2> QED BY <2>1, <2>2, StopAssumption
         DEF StopInit, StopSound, StopTypes, FlagTrue, Runtime, Flag, StopRuntimes
<1>2. StopSound /\ [StopNext]_stopVars => StopSound' BY StopNextSound
<1>3. StopSound => StopTold
  BY DEF StopSound, StopTypes, FlagTrue, StopTold, Stopping, StandsFor, RunOf, StopRuntimes
<1> QED BY <1>1, <1>2, <1>3, PTL DEF StopSpec

-----------------------------------------------------------------------------
(* The requests about a Portfolio.  Of the client the proof needs where    *)
(* the request id is kept and when it is dropped, of the server that one   *)
(* handler has the lock and what it found under it.                        *)

AskPhases == {"posted", "created", "started", "served", "answered"}
AskRecord ==
  [id : Nat, words : Nat, phase : AskPhases,
   existed : BOOLEAN, done : BOOLEAN, result : {"none", "value", "error"}]
AskRun == [id : Nat, active : BOOLEAN, activity : BOOLEAN]

AskTypes ==
  /\ askMounted \in BOOLEAN /\ words \in Nat /\ written \in Nat /\ words <= written
  /\ requestIdRef \in Nat /\ requestIds \in Nat /\ requestIdRef <= requestIds
  /\ attempt \in 0 .. Len(asks)
  /\ asks \in Seq(AskRecord)

(* What the client keeps of a request: its id goes with the text that the  *)
(* last attempt at it had.                                                 *)
IdKept ==
  /\ \A i \in DOMAIN asks : /\ asks[i].id \in 1 .. requestIds
                            /\ asks[i].words \in 1 .. written
                            /\ asks[i].phase = "answered" <=> asks[i].result # "none"
  /\ attempt = 0 => requestIdRef = 0
  /\ ~askMounted => requestIdRef = 0
  /\ requestIdRef = 0 => \A i \in DOMAIN asks : asks[i].words # words
  /\ requestIdRef # 0 =>
       /\ asks[attempt].id = requestIdRef /\ asks[attempt].words = words
       /\ asks[attempt].result # "value"

RequestSound == AskTypes /\ OneRequestPerText /\ IdKept

(* The Runs of a request: one after another, and only one that left        *)
(* nothing is followed by another; who is about to start the first finds   *)
(* none.                                                                   *)
RunsInTurn ==
  /\ askRuns \in Seq(AskRun)
  /\ \A r, q \in DOMAIN askRuns : r < q /\ askRuns[r].id = askRuns[q].id =>
       ~askRuns[r].active /\ ~askRuns[r].activity
  /\ \A r \in DOMAIN askRuns : askRuns[r].id \in created
  /\ \A i, j \in DOMAIN asks :
       asks[i].phase \in ServerPhases /\ asks[j].phase \in ServerPhases => i = j
  /\ \A i \in DOMAIN asks : asks[i].phase = "created" =>
       /\ asks[i].id \in created
       /\ asks[i].existed \/ \A r \in DOMAIN askRuns : askRuns[r].id # asks[i].id

(* The attempt i was left at another phase: nothing else of any changed.   *)
OnlyPhase ==
  /\ asks' \in Seq(AskRecord) /\ DOMAIN asks' = DOMAIN asks
  /\ \A k \in DOMAIN asks : /\ asks'[k].id = asks[k].id /\ asks'[k].words = asks[k].words
                            /\ asks'[k].result = asks[k].result
                            /\ asks'[k].phase = "answered" <=> asks[k].phase = "answered"

(* What the domains of the two sequences are, and what is in them.         *)
LEMMA AskDomains ==
  ASSUME AskTypes
  PROVE  /\ Len(asks) \in Nat /\ DOMAIN asks = 1 .. Len(asks)
         /\ \A i \in DOMAIN asks : asks[i] \in AskRecord
BY LenProperties, ElementOfSeq DEF AskTypes

(* A step of the server leaves the requests what they are.                 *)
LEMMA RequestsKept ==
  ASSUME RequestSound, OnlyPhase, UNCHANGED askClientVars
  PROVE  RequestSound'
<1>0. Len(asks) \in Nat /\ DOMAIN asks = 1 .. Len(asks)
      /\ \A i \in DOMAIN asks : asks[i] \in AskRecord
  BY AskDomains DEF RequestSound
<1>1. Len(asks') = Len(asks)
  BY <1>0, LenProperties DEF OnlyPhase
<1>2. AskTypes' BY <1>1 DEF OnlyPhase, RequestSound, AskTypes, askClientVars
<1>3. OneRequestPerText' BY DEF OnlyPhase, RequestSound, OneRequestPerText
<1>4. attempt' = attempt /\ requestIdRef' = requestIdRef /\ words' = words /\ written' = written
      /\ requestIds' = requestIds /\ askMounted' = askMounted
  BY DEF askClientVars
<1>5. requestIdRef # 0 => attempt \in DOMAIN asks
  BY <1>0 DEF RequestSound, IdKept, AskTypes
<1>6. IdKept' BY <1>4, <1>5 DEF OnlyPhase, RequestSound, IdKept
<1> QED BY <1>2, <1>3, <1>6 DEF RequestSound

(* The record of the attempt i changes in its phase and what the server    *)
(* notes of it.                                                            *)
LEMMA PhaseChanges ==
  ASSUME AskTypes, NEW i \in DOMAIN asks, NEW x \in AskRecord,
         asks' = [asks EXCEPT ![i] = x],
         x.id = asks[i].id, x.words = asks[i].words, x.result = asks[i].result,
         x.phase = "answered" <=> asks[i].phase = "answered"
  PROVE  /\ OnlyPhase
         /\ asks'[i] = x /\ \A k \in DOMAIN asks : k # i => asks'[k] = asks[k]
<1>0. Len(asks) \in Nat /\ DOMAIN asks = 1 .. Len(asks) /\ asks \in Seq(AskRecord)
  BY AskDomains DEF AskTypes
<1>1. asks' \in Seq(AskRecord) /\ DOMAIN asks' = DOMAIN asks
  BY <1>0, ExceptSeq
<1>2. asks'[i] = x /\ \A k \in DOMAIN asks : k # i => asks'[k] = asks[k]
  BY <1>0
<1> QED BY <1>1, <1>2 DEF OnlyPhase

(* The client: a text that was never sent is sent under an id that was     *)
(* never used, and one that was sent before under its own.                 *)
LEMMA SubmitSound ==
  ASSUME RequestSound, SubmitAsk
  PROVE  /\ RequestSound'
         /\ \E n : /\ DOMAIN asks' = DOMAIN asks \cup {n} /\ n \notin DOMAIN asks
                  /\ asks'[n].phase = "posted"
                  /\ \A i \in DOMAIN asks : asks'[i] = asks[i]
<1> USE DEF RequestSound
<1>0. Len(asks) \in Nat /\ DOMAIN asks = 1 .. Len(asks) /\ asks \in Seq(AskRecord)
      /\ \A i \in DOMAIN asks : asks[i] \in AskRecord
  BY AskDomains DEF AskTypes
<1>1. PICK id : id = NewRequestId(requestIdRef) OBVIOUS
<1>2. PICK x : x = Ask(id, words) OBVIOUS
<1>3. /\ askMounted /\ words # 0 /\ requestIdRef' = id
      /\ requestIds' = IF id > requestIds THEN id ELSE requestIds
      /\ asks' = Append(asks, x) /\ attempt' = Len(asks')
      /\ UNCHANGED <<askMounted, words, written>>
  BY <1>1, <1>2 DEF SubmitAsk
<1>4. id \in Nat /\ id # 0 /\ id <= requestIds' /\ requestIds <= requestIds' /\ requestIds' \in Nat
  BY <1>1, <1>3 DEF NewRequestId, AskTypes
<1>5. x \in AskRecord /\ x.id = id /\ x.words = words /\ x.result = "none" /\ x.phase = "posted"
  BY <1>2, <1>4 DEF Ask, AskRecord, AskPhases, AskTypes
<1>6. PICK n \in Nat : n = Len(asks) + 1 BY <1>0
<1>7. /\ asks' \in Seq(AskRecord) /\ Len(asks') = n /\ DOMAIN asks' = 1 .. n
      /\ asks'[n] = x /\ \A i \in DOMAIN asks : asks'[i] = asks[i]
  BY <1>0, <1>3, <1>5, <1>6, AppendProperties, LenProperties
<1>8. DOMAIN asks' = DOMAIN asks \cup {n} /\ n \notin DOMAIN asks BY <1>0, <1>6, <1>7
<1>9. AskTypes' BY <1>3, <1>4, <1>7 DEF AskTypes
<1>10. \A i \in DOMAIN asks : (asks[i].id = id) <=> (asks[i].words = words)
  <2>1. CASE requestIdRef = 0
    <3>1. id = requestIds + 1 BY <1>1, <2>1 DEF NewRequestId
    <3>2. \A i \in DOMAIN asks : asks[i].id # id BY <3>1 DEF IdKept, AskTypes
    <3> QED BY <2>1, <3>2 DEF IdKept
  <2>2. CASE requestIdRef # 0
    <3>1. attempt \in DOMAIN asks /\ asks[attempt].id = requestIdRef /\ asks[attempt].words = words
      BY <1>0, <2>2 DEF IdKept, AskTypes
    <3>2. id = requestIdRef BY <1>1, <2>2 DEF NewRequestId
    <3> QED BY <3>1, <3>2 DEF OneRequestPerText
  <2> QED BY <2>1, <2>2
<1>11. OneRequestPerText'
  <2> SUFFICES ASSUME NEW i \in DOMAIN asks', NEW j \in DOMAIN asks'
               PROVE  (asks'[i].id = asks'[j].id) <=> (asks'[i].words = asks'[j].words)
    BY DEF OneRequestPerText
  <2>1. CASE i \in DOMAIN asks /\ j \in DOMAIN asks
    BY <1>7, <2>1 DEF OneRequestPerText
  <2>2. CASE i = n /\ j \in DOMAIN asks BY <1>5, <1>7, <1>10, <2>2
  <2>3. CASE i \in DOMAIN asks /\ j = n BY <1>5, <1>7, <1>10, <2>3
  <2>4. CASE i = n /\ j = n BY <2>4
  <2> QED BY <1>8, <2>1, <2>2, <2>3, <2>4
<1>12. \A i \in DOMAIN asks' : /\ asks'[i].id \in 1 .. requestIds'
                               /\ asks'[i].words \in 1 .. written'
                               /\ asks'[i].phase = "answered" <=> asks'[i].result # "none"
  <2>1. x.id \in 1 .. requestIds' /\ x.words \in 1 .. written'
    BY <1>3, <1>4, <1>5 DEF AskTypes
  <2>2. \A i \in DOMAIN asks : asks[i].id \in 1 .. requestIds' BY <1>4 DEF IdKept, AskTypes
  <2> QED BY <1>3, <1>5, <1>7, <1>8, <2>1, <2>2 DEF IdKept
<1>13. attempt' = n /\ requestIdRef' # 0 /\ asks'[attempt'] = x /\ askMounted' /\ n # 0
  BY <1>3, <1>4, <1>6, <1>7, <1>0
<1>14. IdKept' BY <1>3, <1>5, <1>12, <1>13 DEF IdKept
<1> QED BY <1>5, <1>7, <1>8, <1>9, <1>11, <1>14

(* An answer ends the request if the client could read it; an error keeps  *)
(* its id for the next attempt.                                            *)
LEMMA AnswerSound ==
  ASSUME RequestSound, NEW i \in DOMAIN asks, AnswerAsk(i)
  PROVE  /\ RequestSound'
         /\ DOMAIN asks' = DOMAIN asks /\ asks'[i].phase = "answered"
         /\ \A k \in DOMAIN asks : k # i => asks'[k] = asks[k]
<1> USE DEF RequestSound
<1>0. Len(asks) \in Nat /\ DOMAIN asks = 1 .. Len(asks) /\ asks \in Seq(AskRecord)
      /\ \A k \in DOMAIN asks : asks[k] \in AskRecord
  BY AskDomains DEF AskTypes
<1>1. PICK result \in Results(asks[i].done) :
        /\ asks' = [asks EXCEPT ![i].phase = "answered", ![i].result = result]
        /\ IF result = "value"
           THEN requestIdRef' = 0 /\ words' = 0 /\ attempt' = 0 /\ askMounted' = FALSE
           ELSE UNCHANGED <<requestIdRef, words, attempt, askMounted>>
  BY DEF AnswerAsk
<1>2. UNCHANGED <<written, requestIds>> BY DEF AnswerAsk
<1>3. asks[i] \in AskRecord BY <1>0
<1>4. result \in {"value", "error"} BY <1>3, ResultsOfRequest DEF AskRecord
<1>5. PICK x : x = [asks[i] EXCEPT !.phase = "answered", !.result = result] OBVIOUS
<1>6. /\ x \in AskRecord /\ x.id = asks[i].id /\ x.words = asks[i].words
      /\ x.phase = "answered" /\ x.result = result
  BY <1>3, <1>4, <1>5 DEF AskRecord, AskPhases
<1>7. asks' = [asks EXCEPT ![i] = x] BY <1>0, <1>1, <1>5
<1>8. asks' \in Seq(AskRecord) /\ Len(asks') = Len(asks) /\ DOMAIN asks' = DOMAIN asks
  BY <1>0, <1>6, <1>7, ExceptSeq
<1>9. asks'[i] = x /\ \A k \in DOMAIN asks : k # i => asks'[k] = asks[k]
  BY <1>0, <1>7
<1>10. \A k \in DOMAIN asks : asks'[k].id = asks[k].id /\ asks'[k].words = asks[k].words
  BY <1>6, <1>9
<1>11. OneRequestPerText' BY <1>8, <1>10 DEF OneRequestPerText
<1>12. \A k \in DOMAIN asks' : /\ asks'[k].id \in 1 .. requestIds'
                               /\ asks'[k].words \in 1 .. written'
                               /\ asks'[k].phase = "answered" <=> asks'[k].result # "none"
  BY <1>2, <1>4, <1>6, <1>8, <1>9, <1>10 DEF IdKept
<1>13. CASE result = "value"
  <2>1. requestIdRef' = 0 /\ words' = 0 /\ attempt' = 0 /\ askMounted' = FALSE BY <1>1, <1>13
  <2>2. AskTypes'
    <3>1. askMounted' \in BOOLEAN BY <2>1
    <3>2. words' \in Nat /\ requestIdRef' \in Nat /\ attempt' \in 0 .. Len(asks')
      BY <1>0, <1>8, <2>1
    <3>3. /\ written' \in Nat /\ requestIds' \in Nat
          /\ words' <= written' /\ requestIdRef' <= requestIds'
      BY <1>2, <2>1 DEF AskTypes
    <3> QED BY <1>8, <3>1, <3>2, <3>3 DEF AskTypes
  <2>3. \A k \in DOMAIN asks' : asks'[k].words # 0 BY <1>2, <1>12 DEF AskTypes
  <2>4. IdKept' BY <1>12, <2>1, <2>3 DEF IdKept
  <2> QED BY <1>6, <1>8, <1>9, <1>11, <2>2, <2>4
<1>14. CASE result = "error"
  <2>1. UNCHANGED <<requestIdRef, words, attempt, askMounted>> BY <1>1, <1>14
  <2>2. AskTypes' BY <1>2, <1>8, <2>1 DEF AskTypes
  <2>3. requestIdRef # 0 => attempt \in DOMAIN asks BY <1>0 DEF IdKept, AskTypes
  <2>4. requestIdRef # 0 => asks'[attempt].result # "value"
    BY <1>6, <1>9, <1>14, <2>3 DEF IdKept
  <2>5. IdKept' BY <1>8, <1>10, <1>12, <2>1, <2>3, <2>4 DEF IdKept
  <2> QED BY <1>6, <1>8, <1>9, <1>11, <2>2, <2>5
<1> QED BY <1>4, <1>13, <1>14

(* A text that could not be sent and is changed is another request; one    *)
(* that is left or come back to as well.                                   *)
LEMMA EditSound ==
  ASSUME RequestSound, EditAsk \/ LeaveAsk \/ VisitAsk
  PROVE  RequestSound'
<1> USE DEF RequestSound
<1>0. Len(asks) \in Nat /\ DOMAIN asks = 1 .. Len(asks) /\ asks \in Seq(AskRecord)
      /\ \A i \in DOMAIN asks : asks[i] \in AskRecord
  BY AskDomains DEF AskTypes
<1>1. asks' = asks /\ requestIds' = requestIds BY DEF EditAsk, LeaveAsk, VisitAsk
<1>2. OneRequestPerText' BY <1>1 DEF OneRequestPerText
<1>3. CASE EditAsk
  <2>1. /\ askMounted /\ askMounted' = askMounted /\ ~AskPending
        /\ written' = written + 1 /\ words' = written + 1
        /\ ForgetFailedRequest
    BY <1>3 DEF EditAsk
  <2>2. requestIdRef' = 0 /\ attempt' \in {0, attempt}
    <3>1. CASE AskFailed BY <2>1, <3>1 DEF ForgetFailedRequest
    <3>2. CASE ~AskFailed
      <4>1. requestIdRef = 0
        <5> SUFFICES ASSUME requestIdRef # 0 PROVE FALSE OBVIOUS
        <5>1. attempt # 0 /\ attempt \in DOMAIN asks /\ asks[attempt].result # "value"
          BY <1>0 DEF IdKept, AskTypes
        <5>2. asks[attempt].phase = "answered" BY <2>1, <5>1 DEF AskPending
        <5>3. asks[attempt].result \in {"none", "value", "error"} BY <1>0, <5>1 DEF AskRecord
        <5>4. asks[attempt].result = "error" BY <5>1, <5>2, <5>3 DEF IdKept
        <5> QED BY <3>2, <5>1, <5>4 DEF AskFailed
      <4> QED BY <2>1, <3>2, <4>1 DEF ForgetFailedRequest
    <3> QED BY <3>1, <3>2
  <2>3. \A i \in DOMAIN asks : asks[i].words # written + 1 /\ asks[i].words \in 1 .. written'
    BY <2>1 DEF IdKept, AskTypes
  <2>4. AskTypes' BY <1>0, <1>1, <2>1, <2>2 DEF AskTypes
  <2>5. IdKept' BY <1>1, <2>1, <2>2, <2>3 DEF IdKept
  <2> QED BY <1>2, <2>4, <2>5
<1>4. CASE LeaveAsk
  <2>1. askMounted' = FALSE /\ requestIdRef' = 0 /\ words' = 0 /\ attempt' = 0 /\ written' = written
    BY <1>4 DEF LeaveAsk
  <2>2. \A i \in DOMAIN asks : asks[i].words # 0 BY DEF IdKept, AskTypes
  <2>3. AskTypes'
    <3>1. askMounted' \in BOOLEAN BY <2>1
    <3>2. words' \in Nat /\ requestIdRef' \in Nat /\ attempt' \in 0 .. Len(asks')
      BY <1>0, <1>1, <2>1
    <3>3. /\ written' \in Nat /\ requestIds' \in Nat
          /\ words' <= written' /\ requestIdRef' <= requestIds'
      BY <1>1, <2>1 DEF AskTypes
    <3> QED BY <1>0, <1>1, <3>1, <3>2, <3>3 DEF AskTypes
  <2>4. IdKept' BY <1>1, <2>1, <2>2 DEF IdKept
  <2> QED BY <1>2, <2>3, <2>4
<1>5. CASE VisitAsk
  <2>1. /\ askMounted' = TRUE /\ requestIdRef = 0 /\ UNCHANGED <<requestIdRef, attempt>>
        /\ \/ UNCHANGED <<words, written>>
           \/ written' = written + 1 /\ words' = written + 1
    BY <1>5 DEF VisitAsk, IdKept
  <2>2. \A i \in DOMAIN asks : asks[i].words # written + 1 /\ asks[i].words \in 1 .. written'
    BY <2>1 DEF IdKept, AskTypes
  <2>3. AskTypes' BY <1>1, <2>1 DEF AskTypes
  <2>4. IdKept' BY <1>1, <2>1, <2>2 DEF IdKept
  <2> QED BY <1>2, <2>3, <2>4
<1> QED BY <1>3, <1>4, <1>5

(* No request has a handler or a Run that another one's step takes from    *)
(* it: a step of the client.                                               *)
LEMMA RunsKept ==
  ASSUME RequestSound, RunsInTurn, UNCHANGED <<askRuns, created>>,
         NEW N, DOMAIN asks' = DOMAIN asks \cup N,
         \A k \in N : asks'[k].phase \notin ServerPhases,
         \A k \in DOMAIN asks \ N : asks'[k] = asks[k]
  PROVE  RunsInTurn'
<1>1. \A k \in DOMAIN asks' :
         asks'[k].phase \in ServerPhases => k \in DOMAIN asks /\ asks'[k] = asks[k]
  OBVIOUS
<1>2. \A i, j \in DOMAIN asks' :
         asks'[i].phase \in ServerPhases /\ asks'[j].phase \in ServerPhases => i = j
  BY <1>1 DEF RunsInTurn
<1>3. \A i \in DOMAIN asks' : asks'[i].phase = "created" =>
        /\ asks'[i].id \in created
        /\ asks'[i].existed \/ \A r \in DOMAIN askRuns : askRuns[r].id # asks'[i].id
  BY <1>1 DEF RunsInTurn, ServerPhases
<1> QED BY <1>2, <1>3 DEF RunsInTurn

(* The server handles one attempt at a time, and of those of one request   *)
(* only one starts a Run, unless that Run left nothing behind.             *)
LEMMA CreateSound ==
  ASSUME RequestSound, RunsInTurn, NEW i \in DOMAIN asks, CreateForRequest(i)
  PROVE  RequestSound' /\ RunsInTurn'
<1>0. Len(asks) \in Nat /\ DOMAIN asks = 1 .. Len(asks) /\ asks[i] \in AskRecord
  BY AskDomains DEF RequestSound
<1>1. /\ asks[i].phase = "posted" /\ ~Locked
      /\ UNCHANGED <<askClientVars, askRuns>>
  BY DEF CreateForRequest
<1>2. \A k \in DOMAIN asks : asks[k].phase \notin ServerPhases BY <1>1 DEF Locked
<1>3. ASSUME created' = created \cup {asks[i].id},
             asks' = [asks EXCEPT ![i].phase = "created", ![i].existed = asks[i].id \in created]
      PROVE  RequestSound' /\ RunsInTurn'
  <2>1. PICK b \in BOOLEAN : (asks[i].id \in created) = b
    <3>1. CASE asks[i].id \in created
      <4>1. (asks[i].id \in created) = TRUE BY <3>1
      <4> QED BY <4>1
    <3>2. CASE asks[i].id \notin created
      <4>1. (asks[i].id \in created) = FALSE BY <3>2
      <4> QED BY <4>1
    <3> QED BY <3>1, <3>2
  <2>2. PICK x : x = [asks[i] EXCEPT !.phase = "created", !.existed = b] OBVIOUS
  <2>3. /\ x \in AskRecord /\ x.id = asks[i].id /\ x.words = asks[i].words
        /\ x.phase = "created" /\ x.result = asks[i].result /\ x.existed = b
    BY <1>0, <2>1, <2>2 DEF AskRecord, AskPhases
  <2>4. asks' = [asks EXCEPT ![i] = x] BY <1>0, <1>3, <2>1, <2>2
  <2>5. /\ OnlyPhase
        /\ asks'[i] = x /\ \A k \in DOMAIN asks : k # i => asks'[k] = asks[k]
    BY <1>1, <2>3, <2>4, PhaseChanges DEF RequestSound
  <2>6. RequestSound' BY <1>1, <2>5, RequestsKept
  <2>7. DOMAIN asks' = DOMAIN asks BY <2>5 DEF OnlyPhase
  <2>8. \A k \in DOMAIN asks' : asks'[k].phase \in ServerPhases => k = i
    BY <1>2, <2>5, <2>7
  <2>9. x.existed \/ \A r \in DOMAIN askRuns : askRuns[r].id # x.id
    BY <2>1, <2>3 DEF RunsInTurn
  <2>10. \A k \in DOMAIN asks' : asks'[k].phase = "created" =>
           /\ asks'[k].id \in created'
           /\ asks'[k].existed \/ \A r \in DOMAIN askRuns : askRuns[r].id # asks'[k].id
    <3>1. x.id \in created' BY <1>3, <2>3
    <3>2. asks'[i].id \in created'
          /\ (asks'[i].existed \/ \A r \in DOMAIN askRuns : askRuns[r].id # asks'[i].id)
      BY <2>5, <2>9, <3>1
    <3> QED BY <2>8, <3>2 DEF ServerPhases
  <2>11. \A r \in DOMAIN askRuns : askRuns[r].id \in created' BY <1>3 DEF RunsInTurn
  <2>12. \A k, l \in DOMAIN asks' :
           asks'[k].phase \in ServerPhases /\ asks'[l].phase \in ServerPhases => k = l
    BY <2>8
  <2> QED BY <1>1, <2>6, <2>10, <2>11, <2>12 DEF RunsInTurn
<1>4. ASSUME Refuse(i), created' \in {created, created \cup {asks[i].id}}
      PROVE  RequestSound' /\ RunsInTurn'
  <2>1. PICK x : x = [asks[i] EXCEPT !.phase = "served"] OBVIOUS
  <2>2. /\ x \in AskRecord /\ x.id = asks[i].id /\ x.words = asks[i].words
        /\ x.phase = "served" /\ x.result = asks[i].result
    BY <1>0, <2>1 DEF AskRecord, AskPhases
  <2>3. asks' = [asks EXCEPT ![i] = x] BY <1>0, <1>4, <2>1 DEF Refuse
  <2>4. /\ OnlyPhase
        /\ asks'[i] = x /\ \A k \in DOMAIN asks : k # i => asks'[k] = asks[k]
    BY <1>1, <2>2, <2>3, PhaseChanges DEF RequestSound
  <2>5. RequestSound' BY <1>1, <2>4, RequestsKept
  <2>6. DOMAIN asks' = DOMAIN asks BY <2>4 DEF OnlyPhase
  <2>7. \A k \in DOMAIN asks' : asks'[k].phase \notin ServerPhases
    BY <1>2, <2>2, <2>4, <2>6 DEF ServerPhases
  <2>8. \A r \in DOMAIN askRuns : askRuns[r].id \in created' BY <1>4 DEF RunsInTurn
  <2>9. \A k \in DOMAIN asks' : asks'[k].phase # "created" BY <2>7 DEF ServerPhases
  <2> QED BY <1>1, <2>5, <2>7, <2>8, <2>9 DEF RunsInTurn
<1> QED BY <1>3, <1>4 DEF CreateForRequest

(* The handler of i goes on or ends, and so has no other one to share the  *)
(* request with.                                                           *)
LEMMA HandlerMoves ==
  ASSUME RequestSound, RunsInTurn, NEW i \in DOMAIN asks, asks[i].phase \in ServerPhases,
         NEW p \in {"started", "served"}, NEW d \in BOOLEAN,
         asks' = [asks EXCEPT ![i].phase = p, ![i].done = d],
         UNCHANGED <<askClientVars, created>>
  PROVE  /\ RequestSound'
         /\ DOMAIN asks' = DOMAIN asks
         /\ \A k, l \in DOMAIN asks' :
              asks'[k].phase \in ServerPhases /\ asks'[l].phase \in ServerPhases => k = l
         /\ \A k \in DOMAIN asks' : asks'[k].phase # "created"
<1>0. Len(asks) \in Nat /\ DOMAIN asks = 1 .. Len(asks) /\ asks[i] \in AskRecord
  BY AskDomains DEF RequestSound
<1>1. PICK x : x = [asks[i] EXCEPT !.phase = p, !.done = d] OBVIOUS
<1>2. /\ x \in AskRecord /\ x.id = asks[i].id /\ x.words = asks[i].words
      /\ x.phase = p /\ x.result = asks[i].result
  BY <1>0, <1>1 DEF AskRecord, AskPhases
<1>3. asks' = [asks EXCEPT ![i] = x] BY <1>0, <1>1
<1>4. (x.phase = "answered") <=> (asks[i].phase = "answered")
  BY <1>2 DEF ServerPhases
<1>5. /\ OnlyPhase
      /\ asks'[i] = x /\ \A k \in DOMAIN asks : k # i => asks'[k] = asks[k]
  BY <1>2, <1>3, <1>4, PhaseChanges DEF RequestSound
<1>6. RequestSound' BY <1>5, RequestsKept
<1>7. DOMAIN asks' = DOMAIN asks BY <1>5 DEF OnlyPhase
<1>8. \A k \in DOMAIN asks' : asks'[k].phase \in ServerPhases => k = i
  BY <1>5, <1>7 DEF RunsInTurn
<1>9. \A k \in DOMAIN asks' : asks'[k].phase # "created"
  BY <1>2, <1>5, <1>8 DEF ServerPhases
<1> QED BY <1>6, <1>7, <1>8, <1>9

(* A Run is started for a request that has none, or whose Runs have all    *)
(* ended and left nothing.                                                 *)
LEMMA StartSound ==
  ASSUME RequestSound, RunsInTurn, NEW i \in DOMAIN asks, StartItsRun(i)
  PROVE  RequestSound' /\ RunsInTurn'
<1>1. asks[i].phase = "created" /\ asks[i].phase \in ServerPhases
      /\ UNCHANGED <<askClientVars, created>>
  BY DEF StartItsRun, ServerPhases
<1>2. PICK b \in BOOLEAN : b = asks[i].done
  <2>1. asks[i] \in AskRecord BY AskDomains DEF RequestSound
  <2> QED BY <2>1 DEF AskRecord
<1>3. \/ asks' = [asks EXCEPT ![i].phase = "started"]
      \/ asks' = [asks EXCEPT ![i].phase = "served"]
      \/ asks' = [asks EXCEPT ![i].phase = "served", ![i].done = TRUE]
  BY DEF StartItsRun, Reply, Refuse
<1>4. \E p \in {"started", "served"}, d \in BOOLEAN :
        asks' = [asks EXCEPT ![i].phase = p, ![i].done = d]
  <2>0. Len(asks) \in Nat /\ DOMAIN asks = 1 .. Len(asks) /\ asks[i] \in AskRecord
    BY AskDomains DEF RequestSound
  <2>1. \A p \in {"started", "served"} :
          [asks EXCEPT ![i].phase = p] = [asks EXCEPT ![i].phase = p, ![i].done = b]
    BY <1>2, <2>0 DEF AskRecord
  <2> QED BY <1>3, <2>1
<1>5. /\ RequestSound'
      /\ DOMAIN asks' = DOMAIN asks
      /\ \A k, l \in DOMAIN asks' :
           asks'[k].phase \in ServerPhases /\ asks'[l].phase \in ServerPhases => k = l
      /\ \A k \in DOMAIN asks' : asks'[k].phase # "created"
  BY <1>1, <1>4, HandlerMoves
<1>6. CASE askRuns' = askRuns
  BY <1>1, <1>5, <1>6 DEF RunsInTurn
<1>7. CASE /\ ~(asks[i].existed /\ (ActiveRun(asks[i].id) \/ HadItsRun(asks[i].id)))
           /\ askRuns' = Append(askRuns, [id |-> asks[i].id, active |-> TRUE, activity |-> FALSE])
  <2>1. PICK x : x = [id |-> asks[i].id, active |-> TRUE, activity |-> FALSE] OBVIOUS
  <2>2. x \in AskRun /\ x.id = asks[i].id /\ x.id \in created
    <3>1. asks[i] \in AskRecord BY AskDomains DEF RequestSound
    <3> QED BY <1>1, <2>1, <3>1 DEF AskRecord, AskRun, RunsInTurn
  <2>3. \A r \in DOMAIN askRuns : askRuns[r].id = x.id => ~askRuns[r].active /\ ~askRuns[r].activity
    BY <1>1, <1>7, <2>2 DEF RunsInTurn, ActiveRun, HadItsRun, HasAgentActivity
  <2>4. PICK n \in Nat : n = Len(askRuns) + 1 /\ Len(askRuns) \in Nat
                         /\ DOMAIN askRuns = 1 .. Len(askRuns)
    BY LenProperties DEF RunsInTurn
  <2>5. /\ askRuns' \in Seq(AskRun) /\ DOMAIN askRuns' = 1 .. n
        /\ askRuns'[n] = x /\ \A r \in DOMAIN askRuns : askRuns'[r] = askRuns[r]
    BY <1>7, <2>1, <2>2, <2>4, AppendProperties, LenProperties DEF RunsInTurn
  <2>6. \A r \in DOMAIN askRuns' : r \in DOMAIN askRuns \/ r = n BY <2>4, <2>5
  <2>7. \A r, q \in DOMAIN askRuns' : r < q => r \in DOMAIN askRuns BY <2>4, <2>5
  <2>8. \A r, q \in DOMAIN askRuns' : r < q /\ askRuns'[r].id = askRuns'[q].id =>
          ~askRuns'[r].active /\ ~askRuns'[r].activity
    BY <2>3, <2>5, <2>6, <2>7 DEF RunsInTurn
  <2>9. \A r \in DOMAIN askRuns' : askRuns'[r].id \in created'
    BY <1>1, <2>2, <2>5, <2>6 DEF RunsInTurn
  <2> QED BY <1>1, <1>5, <2>5, <2>8, <2>9 DEF RunsInTurn
<1> QED BY <1>6, <1>7 DEF StartItsRun

(* The mark that it started ends the handling.                             *)
LEMMA MarkSound ==
  ASSUME RequestSound, RunsInTurn, NEW i \in DOMAIN asks, MarkStarted(i)
  PROVE  RequestSound' /\ RunsInTurn'
<1>1. asks[i].phase \in ServerPhases /\ UNCHANGED <<askClientVars, created, askRuns>>
  BY DEF MarkStarted, ServerPhases
<1>2. \E p \in {"started", "served"}, d \in BOOLEAN :
        asks' = [asks EXCEPT ![i].phase = p, ![i].done = d]
  <2>0. Len(asks) \in Nat /\ DOMAIN asks = 1 .. Len(asks) /\ asks[i] \in AskRecord
    BY AskDomains DEF RequestSound
  <2>1. PICK b \in BOOLEAN : b = asks[i].done BY <2>0 DEF AskRecord
  <2>2. [asks EXCEPT ![i].phase = "served"] = [asks EXCEPT ![i].phase = "served", ![i].done = b]
    BY <2>0, <2>1 DEF AskRecord
  <2> QED BY <2>2 DEF MarkStarted, Reply, Refuse
<1>3. /\ RequestSound'
      /\ DOMAIN asks' = DOMAIN asks
      /\ \A k, l \in DOMAIN asks' :
           asks'[k].phase \in ServerPhases /\ asks'[l].phase \in ServerPhases => k = l
      /\ \A k \in DOMAIN asks' : asks'[k].phase # "created"
  BY <1>1, <1>2, HandlerMoves
<1> QED BY <1>1, <1>3 DEF RunsInTurn

(* A Run acts or ends.                                                     *)
LEMMA RunSound ==
  ASSUME RequestSound, RunsInTurn, NEW r \in DOMAIN askRuns, AskRunActs(r) \/ AskRunEnds(r)
  PROVE  RequestSound' /\ RunsInTurn'
<1>0. Len(askRuns) \in Nat /\ DOMAIN askRuns = 1 .. Len(askRuns) /\ askRuns[r] \in AskRun
  BY LenProperties, ElementOfSeq DEF RunsInTurn
<1>1. askRuns[r].active /\ UNCHANGED <<askClientVars, asks, created>>
  BY DEF AskRunActs, AskRunEnds
<1>2. PICK x \in AskRun : x.id = askRuns[r].id /\ askRuns' = [askRuns EXCEPT ![r] = x]
  <2>1. [askRuns[r] EXCEPT !.active = FALSE] \in AskRun
        /\ [askRuns[r] EXCEPT !.active = FALSE].id = askRuns[r].id
    BY <1>0 DEF AskRun
  <2>2. [askRuns[r] EXCEPT !.activity = TRUE] \in AskRun
        /\ [askRuns[r] EXCEPT !.activity = TRUE].id = askRuns[r].id
    BY <1>0 DEF AskRun
  <2>3. [askRuns EXCEPT ![r].active = FALSE]
          = [askRuns EXCEPT ![r] = [askRuns[r] EXCEPT !.active = FALSE]]
    BY <1>0
  <2>4. [askRuns EXCEPT ![r].activity = TRUE]
          = [askRuns EXCEPT ![r] = [askRuns[r] EXCEPT !.activity = TRUE]]
    BY <1>0
  <2> QED BY <2>1, <2>2, <2>3, <2>4 DEF AskRunActs, AskRunEnds
<1>3. askRuns' \in Seq(AskRun) /\ DOMAIN askRuns' = DOMAIN askRuns
      /\ askRuns'[r] = x /\ \A q \in DOMAIN askRuns : q # r => askRuns'[q] = askRuns[q]
  BY <1>0, <1>2, ExceptSeq DEF RunsInTurn
<1>4. \A p, q \in DOMAIN askRuns' : p < q /\ askRuns'[p].id = askRuns'[q].id =>
        ~askRuns'[p].active /\ ~askRuns'[p].activity
  BY <1>1, <1>2, <1>3 DEF RunsInTurn
<1>5. \A p \in DOMAIN askRuns' : askRuns'[p].id \in created' BY <1>1, <1>2, <1>3 DEF RunsInTurn
<1>6. \A k \in DOMAIN asks' : asks'[k].phase = "created" =>
        /\ asks'[k].id \in created'
        /\ asks'[k].existed \/ \A q \in DOMAIN askRuns' : askRuns'[q].id # asks'[k].id
  BY <1>1, <1>2, <1>3 DEF RunsInTurn
<1>7. \A k, l \in DOMAIN asks' :
        asks'[k].phase \in ServerPhases /\ asks'[l].phase \in ServerPhases => k = l
  BY <1>1 DEF RunsInTurn
<1>8. OnlyPhase BY <1>1 DEF OnlyPhase, RequestSound, AskTypes
<1> QED BY <1>1, <1>3, <1>4, <1>5, <1>6, <1>7, <1>8, RequestsKept DEF RunsInTurn

(* After a restart no handler is at work and no Run is active.             *)
LEMMA AskRestartSound ==
  ASSUME RequestSound, RunsInTurn, ServerRestarts
  PROVE  RequestSound' /\ RunsInTurn'
<1>0. /\ Len(asks) \in Nat /\ DOMAIN asks = 1 .. Len(asks)
      /\ \A i \in DOMAIN asks : asks[i] \in AskRecord
      /\ Len(askRuns) \in Nat /\ DOMAIN askRuns = 1 .. Len(askRuns)
      /\ \A r \in DOMAIN askRuns : askRuns[r] \in AskRun
  BY AskDomains, LenProperties, ElementOfSeq DEF RequestSound, RunsInTurn
<1>1. /\ askRuns' = [r \in 1 .. Len(askRuns) |-> [askRuns[r] EXCEPT !.active = FALSE]]
      /\ asks' = [i \in 1 .. Len(asks) |->
                    IF asks[i].phase \in ServerPhases THEN [asks[i] EXCEPT !.phase = "served"] ELSE asks[i]]
      /\ UNCHANGED <<askClientVars, created>>
  BY <1>0 DEF ServerRestarts
<1>2. \A r \in DOMAIN askRuns :
        /\ [askRuns[r] EXCEPT !.active = FALSE] \in AskRun
        /\ [askRuns[r] EXCEPT !.active = FALSE].id = askRuns[r].id
        /\ [askRuns[r] EXCEPT !.active = FALSE].activity = askRuns[r].activity
        /\ ~[askRuns[r] EXCEPT !.active = FALSE].active
  BY <1>0 DEF AskRun
<1>3. /\ DOMAIN askRuns' = DOMAIN askRuns
      /\ \A r \in DOMAIN askRuns : /\ askRuns'[r] \in AskRun /\ askRuns'[r].id = askRuns[r].id
                                   /\ askRuns'[r].activity = askRuns[r].activity /\ ~askRuns'[r].active
  BY <1>0, <1>1, <1>2
<1>4. askRuns' \in Seq(AskRun)
  <2>1. askRuns' \in [1 .. Len(askRuns) -> AskRun] BY <1>0, <1>1, <1>3
  <2> QED BY <1>0, <2>1, SeqDef
<1>5. \A i \in DOMAIN asks :
        /\ [asks[i] EXCEPT !.phase = "served"] \in AskRecord
        /\ [asks[i] EXCEPT !.phase = "served"].id = asks[i].id
        /\ [asks[i] EXCEPT !.phase = "served"].words = asks[i].words
        /\ [asks[i] EXCEPT !.phase = "served"].result = asks[i].result
        /\ [asks[i] EXCEPT !.phase = "served"].phase = "served"
  BY <1>0 DEF AskRecord, AskPhases
<1>6. /\ DOMAIN asks' = DOMAIN asks
      /\ \A i \in DOMAIN asks :
           \/ asks[i].phase \notin ServerPhases /\ asks'[i] = asks[i]
           \/ asks[i].phase \in ServerPhases /\ asks'[i] = [asks[i] EXCEPT !.phase = "served"]
  BY <1>0, <1>1
<1>7. \A i \in DOMAIN asks :
        /\ asks'[i] \in AskRecord /\ asks'[i].id = asks[i].id /\ asks'[i].words = asks[i].words
        /\ asks'[i].result = asks[i].result
        /\ asks'[i].phase = "answered" <=> asks[i].phase = "answered"
        /\ asks'[i].phase \notin ServerPhases
  BY <1>0, <1>5, <1>6 DEF ServerPhases
<1>8. asks' \in Seq(AskRecord)
  <2>1. asks' \in [1 .. Len(asks) -> AskRecord] BY <1>0, <1>1, <1>7
  <2> QED BY <1>0, <2>1, SeqDef
<1>9. OnlyPhase BY <1>6, <1>7, <1>8 DEF OnlyPhase
<1>10. RequestSound' BY <1>1, <1>9, RequestsKept
<1>11. \A i \in DOMAIN asks' : asks'[i].phase # "created" BY <1>6, <1>7 DEF ServerPhases
<1>12. \A r, q \in DOMAIN askRuns' : r < q /\ askRuns'[r].id = askRuns'[q].id =>
         ~askRuns'[r].active /\ ~askRuns'[r].activity
  BY <1>3 DEF RunsInTurn
<1>13. \A r \in DOMAIN askRuns' : askRuns'[r].id \in created'
  <2>1. created' = created BY <1>1
  <2> QED BY <1>3, <2>1 DEF RunsInTurn
<1>14. \A k, l \in DOMAIN asks' :
        asks'[k].phase \in ServerPhases /\ asks'[l].phase \in ServerPhases => k = l
  BY <1>6, <1>7
<1> QED BY <1>4, <1>10, <1>11, <1>12, <1>13, <1>14 DEF RunsInTurn

(* The attempts at one text are one request, no other text is sent under   *)
(* its id, and it has one Run, or another one after a Run that left        *)
(* nothing (AskAgentControl.tsx, portfolio_sessions.py).                   *)
THEOREM RequestsAskedOnce == AskSpec => []AskedOnce
<1> DEFINE Sound == RequestSound /\ RunsInTurn
<1>1. AskInit => Sound
  <2> SUFFICES ASSUME AskInit PROVE Sound OBVIOUS
  <2>1. asks = <<>> /\ askRuns = <<>> BY DEF AskInit
  <2>2. asks \in Seq(AskRecord) /\ askRuns \in Seq(AskRun) /\ Len(asks) = 0
        /\ DOMAIN asks = {} /\ DOMAIN askRuns = {}
    BY <2>1, EmptySeq
  <2>3. /\ askMounted = FALSE /\ words = 0 /\ written = 0
        /\ requestIdRef = 0 /\ requestIds = 0 /\ attempt = 0
    BY DEF AskInit
  <2>4. AskTypes
    <3>1. askMounted \in BOOLEAN BY <2>3
    <3>2. words \in Nat /\ words <= written /\ requestIdRef <= requestIds
          /\ attempt \in 0 .. Len(asks)
      BY <2>2, <2>3
    <3> QED BY <2>2, <2>3, <3>1, <3>2 DEF AskTypes
  <2>5. RequestSound BY <2>2, <2>3, <2>4 DEF RequestSound, OneRequestPerText, IdKept
  <2>6. RunsInTurn BY <2>2 DEF RunsInTurn
  <2> QED BY <2>5, <2>6
<1>2. Sound /\ [AskNext]_askVars => Sound'
  <2> SUFFICES ASSUME RequestSound, RunsInTurn, [AskNext]_askVars PROVE Sound' OBVIOUS
  <2>0. Len(asks) \in Nat /\ DOMAIN asks = 1 .. Len(asks) BY AskDomains DEF RequestSound
  <2>1. CASE SubmitAsk
    <3>1. RequestSound' BY <2>1, SubmitSound
    <3>2. PICK n : /\ DOMAIN asks' = DOMAIN asks \cup {n} /\ n \notin DOMAIN asks
                   /\ asks'[n].phase = "posted"
                   /\ \A i \in DOMAIN asks : asks'[i] = asks[i]
      BY <2>1, SubmitSound
    <3>3. UNCHANGED <<askRuns, created>> BY <2>1 DEF SubmitAsk, askServerVars
    <3>4. /\ DOMAIN asks' = DOMAIN asks \cup {n}
          /\ \A k \in {n} : asks'[k].phase \notin ServerPhases
          /\ \A k \in DOMAIN asks \ {n} : asks'[k] = asks[k]
      BY <3>2 DEF ServerPhases
    <3>5. RunsInTurn' BY <3>3, <3>4, RunsKept
    <3> QED BY <3>1, <3>5
  <2>2. CASE EditAsk \/ LeaveAsk \/ VisitAsk
    <3>1. RequestSound' BY <2>2, EditSound
    <3>2. asks' = asks /\ UNCHANGED <<askRuns, created>>
      BY <2>2 DEF EditAsk, LeaveAsk, VisitAsk, askServerVars
    <3>3. RunsInTurn' BY <3>2 DEF RunsInTurn
    <3> QED BY <3>1, <3>3
  <2>3. ASSUME NEW i \in DOMAIN asks, AnswerAsk(i) PROVE Sound'
    <3>1. RequestSound' /\ DOMAIN asks' = DOMAIN asks /\ asks'[i].phase = "answered"
          /\ \A k \in DOMAIN asks : k # i => asks'[k] = asks[k]
      BY <2>3, AnswerSound
    <3>2. UNCHANGED <<askRuns, created>> BY <2>3 DEF AnswerAsk, askServerVars
    <3>3. /\ DOMAIN asks' = DOMAIN asks \cup {i}
          /\ \A k \in {i} : asks'[k].phase \notin ServerPhases
          /\ \A k \in DOMAIN asks \ {i} : asks'[k] = asks[k]
      BY <3>1 DEF ServerPhases
    <3>4. RunsInTurn' BY <3>2, <3>3, RunsKept
    <3> QED BY <3>1, <3>4
  <2>4. ASSUME NEW i \in DOMAIN asks, CreateForRequest(i) PROVE Sound' BY <2>4, CreateSound
  <2>5. ASSUME NEW i \in DOMAIN asks, StartItsRun(i) PROVE Sound' BY <2>5, StartSound
  <2>6. ASSUME NEW i \in DOMAIN asks, MarkStarted(i) PROVE Sound' BY <2>6, MarkSound
  <2>7. ASSUME NEW r \in DOMAIN askRuns, AskRunActs(r) \/ AskRunEnds(r) PROVE Sound'
    BY <2>7, RunSound
  <2>8. CASE ServerRestarts BY <2>8, AskRestartSound
  <2>9. CASE UNCHANGED askVars
    <3>1. UNCHANGED <<askClientVars, asks, askRuns, created>> BY <2>9 DEF askVars, askServerVars
    <3>2. OnlyPhase BY <3>1 DEF OnlyPhase, RequestSound, AskTypes
    <3>3. RequestSound' BY <3>1, <3>2, RequestsKept
    <3>4. RunsInTurn' BY <3>1 DEF RunsInTurn
    <3> QED BY <3>3, <3>4
  <2> QED BY <2>1, <2>2, <2>3, <2>4, <2>5, <2>6, <2>7, <2>8, <2>9 DEF AskNext
<1>3. Sound => AskedOnce
  BY DEF RequestSound, RunsInTurn, AskedOnce, OneRunPerRequest
<1> QED BY <1>1, <1>2, <1>3, PTL DEF AskSpec

-----------------------------------------------------------------------------
(* The forms of the defaults.  A copy says what the defaults were, and is  *)
(* up to date when nothing changed since; the cached one is, unless an     *)
(* answer that changed them is still to come or is known to be lost.       *)

DefaultsCopy == [value : [Forms -> Nat], at : Nat]
SaveRecord ==
  [form : Forms, update : UNION {[{f} -> Nat] : f \in Forms}, chosen : Nat,
   phase : {"posted", "served", "answered"}, applied : Nat, reply : DefaultsCopy]
FormRecord == [open : BOOLEAN, draft : Nat \cup {NoDraft}, save : Nat]

TrueCopy(copy) ==
  copy.at <= changes /\ (copy.at = changes => copy.value = serverDefaults)

DefaultsTypes ==
  /\ serverDefaults \in [Forms -> Nat] /\ changes \in Nat
  /\ cachedAt \in Nat /\ astray \in BOOLEAN /\ choices \in Nat
  /\ cachedDefaults = NoDraft \/ cachedDefaults \in [Forms -> Nat]
  /\ form \in [Forms -> FormRecord]
  /\ saves \in Seq(SaveRecord)
  /\ defaultsFetch = "read" => fetched \in DefaultsCopy

(* A save changes its own form's value, and its reply is what that made of *)
(* the defaults.                                                           *)
SavesTrue ==
  \A i \in DOMAIN saves :
    /\ saves[i].update = Patch(saves[i].form, saves[i].chosen)
    /\ saves[i].applied <= changes
    /\ saves[i].applied # 0 => TrueCopy(saves[i].reply) /\ saves[i].reply.at = saves[i].applied

CacheTrue ==
  /\ cachedAt <= changes
  /\ defaultsFetch = "read" => TrueCopy(fetched)
  /\ cachedAt = changes => cachedDefaults = NoDraft \/ cachedDefaults = serverDefaults
  /\ \/ cachedAt = changes \/ astray
     \/ \E i \in DOMAIN saves : saves[i].phase = "served" /\ saves[i].applied = changes

DefaultsSound == DefaultsTypes /\ SavesTrue /\ CacheTrue /\ NoSaveUndone

(* What the domain of the saves is, and what is in it.                     *)
LEMMA SaveDomains ==
  ASSUME DefaultsTypes
  PROVE  /\ Len(saves) \in Nat /\ DOMAIN saves = 1 .. Len(saves)
         /\ \A i \in DOMAIN saves : saves[i] \in SaveRecord
BY LenProperties, ElementOfSeq DEF DefaultsTypes

(* A copy is taken over as the cached one: it is up to date, or older than *)
(* what is known to be astray or still to come.                            *)
LEMMA LandSound ==
  ASSUME DefaultsSound, NEW copy \in DefaultsCopy, TrueCopy(copy), Land(copy),
         UNCHANGED <<serverDefaults, changes>>,
         \A i \in DOMAIN saves : saves[i].phase = "served" /\ saves[i].applied = changes =>
           \/ copy.at = changes
           \/ i \in DOMAIN saves' /\ saves'[i].phase = "served" /\ saves'[i].applied = changes
  PROVE  /\ cachedAt' \in Nat /\ astray' \in BOOLEAN /\ cachedDefaults' \in [Forms -> Nat]
         /\ cachedAt' <= changes'
         /\ cachedAt' = changes' => cachedDefaults' = serverDefaults'
         /\ \/ cachedAt' = changes' \/ astray'
            \/ \E i \in DOMAIN saves' : saves'[i].phase = "served" /\ saves'[i].applied = changes'
<1>1. /\ cachedDefaults' = copy.value /\ cachedAt' = copy.at
      /\ astray' = (copy.at # changes /\ (astray \/ copy.at < cachedAt))
  BY DEF Land
<1>2. copy.at \in Nat /\ copy.value \in [Forms -> Nat] /\ changes \in Nat /\ cachedAt \in Nat
  BY DEF DefaultsCopy, DefaultsSound, DefaultsTypes
<1>3. astray' \in BOOLEAN BY <1>1
<1>4. cachedAt' <= changes' /\ (cachedAt' = changes' => cachedDefaults' = serverDefaults')
  BY <1>1 DEF TrueCopy
<1>5. \/ cachedAt' = changes' \/ astray'
      \/ \E i \in DOMAIN saves' : saves'[i].phase = "served" /\ saves'[i].applied = changes'
  <2>1. CASE copy.at = changes BY <1>1, <2>1
  <2>2. CASE copy.at # changes /\ cachedAt = changes
    <3>1. copy.at < cachedAt BY <1>2, <2>2 DEF TrueCopy
    <3> QED BY <1>1, <2>2, <3>1
  <2>3. CASE copy.at # changes /\ astray BY <1>1, <2>3
  <2>4. CASE copy.at # changes
             /\ \E i \in DOMAIN saves : saves[i].phase = "served" /\ saves[i].applied = changes
    BY <2>4
  <2> QED BY <2>1, <2>2, <2>3, <2>4 DEF DefaultsSound, CacheTrue
<1> QED BY <1>1, <1>2, <1>3, <1>4, <1>5

(* The forms take their drafts from the copy.                              *)
LEMMA RedraftedForms ==
  ASSUME NEW forms \in [Forms -> FormRecord], NEW value \in [Forms -> Nat]
  PROVE  Redrafted(forms, value) \in [Forms -> FormRecord]
<1>1. \A f \in Forms : [forms[f] EXCEPT !.draft = value[f]] \in FormRecord
  <2> TAKE f \in Forms
  <2>1. forms[f] \in FormRecord /\ value[f] \in Nat OBVIOUS
  <2> QED BY <2>1 DEF FormRecord
<1> QED BY <1>1 DEF Redrafted

(* A save is noted as served or answered, and nothing else of any.         *)
LEMMA SavePhase ==
  ASSUME DefaultsTypes, NEW i \in DOMAIN saves, NEW p \in {"served", "answered"},
         saves' = [saves EXCEPT ![i].phase = p]
  PROVE  /\ saves' \in Seq(SaveRecord) /\ DOMAIN saves' = DOMAIN saves
         /\ saves'[i].phase = p
         /\ \A k \in DOMAIN saves :
              /\ saves'[k].form = saves[k].form /\ saves'[k].update = saves[k].update
              /\ saves'[k].chosen = saves[k].chosen /\ saves'[k].applied = saves[k].applied
              /\ saves'[k].reply = saves[k].reply
              /\ k # i => saves'[k].phase = saves[k].phase
<1>0. /\ Len(saves) \in Nat /\ DOMAIN saves = 1 .. Len(saves) /\ saves \in Seq(SaveRecord)
      /\ \A k \in DOMAIN saves : saves[k] \in SaveRecord
  BY SaveDomains DEF DefaultsTypes
<1>1. PICK x : x = [saves[i] EXCEPT !.phase = p] OBVIOUS
<1>2. saves[i] \in SaveRecord BY <1>0
<1>3. /\ x \in SaveRecord /\ x.phase = p /\ x.form = saves[i].form /\ x.update = saves[i].update
      /\ x.chosen = saves[i].chosen /\ x.applied = saves[i].applied /\ x.reply = saves[i].reply
  BY <1>1, <1>2 DEF SaveRecord
<1>4. saves' = [saves EXCEPT ![i] = x] BY <1>0, <1>1
<1>5. saves' \in Seq(SaveRecord) /\ DOMAIN saves' = DOMAIN saves
  BY <1>0, <1>3, <1>4, ExceptSeq
<1>6. saves'[i] = x /\ \A k \in DOMAIN saves : k # i => saves'[k] = saves[k] BY <1>0, <1>4
<1> QED BY <1>3, <1>5, <1>6

(* So nothing that the server did is seen otherwise.                       *)
LEMMA SavesKept ==
  ASSUME DefaultsSound, DOMAIN saves' = DOMAIN saves,
         \A k \in DOMAIN saves :
           /\ saves'[k].form = saves[k].form /\ saves'[k].update = saves[k].update
           /\ saves'[k].chosen = saves[k].chosen /\ saves'[k].applied = saves[k].applied
           /\ saves'[k].reply = saves[k].reply,
         UNCHANGED <<serverDefaults, changes>>
  PROVE  SavesTrue' /\ NoSaveUndone'
<1>1. NoSaveUndone' BY DEF DefaultsSound, NoSaveUndone
<1>2. SavesTrue' BY DEF DefaultsSound, SavesTrue, TrueCopy, Patch
<1> QED BY <1>1, <1>2

(* The page reads the defaults and lands what it read.                     *)
LEMMA FetchSound ==
  ASSUME DefaultsSound, AskDefaults \/ ReadDefaults \/ LandDefaults
  PROVE  DefaultsSound'
<1>0. UNCHANGED <<serverDefaults, changes, saves, choices>>
  BY DEF AskDefaults, ReadDefaults, LandDefaults
<1>1. SavesTrue' /\ NoSaveUndone' BY <1>0, SavesKept
<1>2. CASE AskDefaults
  BY <1>0, <1>1, <1>2 DEF AskDefaults, DefaultsSound, DefaultsTypes, CacheTrue, TrueCopy
<1>3. CASE ReadDefaults
  <2>1. fetched' = [value |-> serverDefaults, at |-> changes] BY <1>3 DEF ReadDefaults, Copy
  <2>2. fetched' \in DefaultsCopy /\ fetched'.at = changes /\ fetched'.value = serverDefaults
    BY <2>1 DEF DefaultsCopy, DefaultsSound, DefaultsTypes
  <2> QED BY <1>0, <1>1, <1>3, <2>2 DEF ReadDefaults, DefaultsSound, DefaultsTypes, CacheTrue, TrueCopy
<1>4. CASE LandDefaults /\ UNCHANGED <<cachedDefaults, cachedAt, astray, form>>
  BY <1>0, <1>1, <1>4 DEF LandDefaults, DefaultsSound, DefaultsTypes, CacheTrue, TrueCopy
<1>5. CASE LandDefaults /\ Land(fetched) /\ form' = Redrafted(form, fetched.value)
  <2>1. PICK copy \in DefaultsCopy : copy = fetched /\ TrueCopy(copy)
    BY <1>5 DEF LandDefaults, DefaultsSound, DefaultsTypes, CacheTrue
  <2>2. Land(copy) BY <1>5, <2>1
  <2>3. /\ cachedAt' \in Nat /\ astray' \in BOOLEAN /\ cachedDefaults' \in [Forms -> Nat]
        /\ cachedAt' <= changes'
        /\ cachedAt' = changes' => cachedDefaults' = serverDefaults'
        /\ \/ cachedAt' = changes' \/ astray'
           \/ \E i \in DOMAIN saves' : saves'[i].phase = "served" /\ saves'[i].applied = changes'
    BY <1>0, <2>1, <2>2, LandSound
  <2>4. form' \in [Forms -> FormRecord]
    BY <1>5, <2>1, RedraftedForms DEF DefaultsCopy, DefaultsSound, DefaultsTypes
  <2>5. defaultsFetch' # "read" BY <1>5 DEF LandDefaults
  <2> QED BY <1>0, <1>1, <2>3, <2>4, <2>5 DEF DefaultsSound, DefaultsTypes, CacheTrue
<1> QED BY <1>2, <1>3, <1>4, <1>5 DEF LandDefaults

(* The user opens, fills in and closes a form.                             *)
LEMMA FormSound ==
  ASSUME DefaultsSound, NEW f \in Forms, OpenForm(f) \/ CloseForm(f) \/ Choose(f)
  PROVE  DefaultsSound'
<1>0. UNCHANGED <<serverDefaults, changes, cachedDefaults, cachedAt, astray,
                  defaultsFetch, fetched, saves>>
  BY DEF OpenForm, CloseForm, Choose
<1>1. form[f] \in FormRecord /\ form \in [Forms -> FormRecord] /\ choices \in Nat
  BY DEF DefaultsSound, DefaultsTypes
<1>2. \E x \in FormRecord : form' = [form EXCEPT ![f] = x]
  <2>1. CASE OpenForm(f)
    <3>1. PICK d \in Nat \cup {NoDraft} :
            d = IF cachedDefaults = NoDraft THEN NoDraft ELSE cachedDefaults[f]
      BY DEF DefaultsSound, DefaultsTypes
    <3>2. [open |-> TRUE, save |-> 0, draft |-> d] \in FormRecord BY DEF FormRecord
    <3> QED BY <2>1, <3>1, <3>2 DEF OpenForm
  <2>2. CASE CloseForm(f)
    <3>1. [form[f] EXCEPT !.open = FALSE] \in FormRecord BY <1>1 DEF FormRecord
    <3>2. [form EXCEPT ![f].open = FALSE] = [form EXCEPT ![f] = [form[f] EXCEPT !.open = FALSE]]
      BY <1>1
    <3> QED BY <2>2, <3>1, <3>2 DEF CloseForm
  <2>3. CASE Choose(f)
    <3>1. PICK d \in Nat : d = choices + 1 BY <1>1
    <3>2. [form[f] EXCEPT !.draft = d] \in FormRecord BY <1>1 DEF FormRecord
    <3>3. [form EXCEPT ![f].draft = d] = [form EXCEPT ![f] = [form[f] EXCEPT !.draft = d]]
      BY <1>1
    <3> QED BY <2>3, <3>1, <3>2, <3>3 DEF Choose
  <2> QED BY <2>1, <2>2, <2>3
<1>3. form' \in [Forms -> FormRecord] BY <1>1, <1>2
<1>4. choices' \in Nat BY <1>1 DEF OpenForm, CloseForm, Choose
<1>5. SavesTrue' /\ NoSaveUndone' BY <1>0, SavesKept
<1> QED BY <1>0, <1>3, <1>4, <1>5 DEF DefaultsSound, DefaultsTypes, CacheTrue, TrueCopy

(* A save is sent with the value that its form shows.                      *)
LEMMA SaveSound ==
  ASSUME DefaultsSound, NEW f \in Forms, Save(f)
  PROVE  DefaultsSound'
<1>0. /\ Len(saves) \in Nat /\ DOMAIN saves = 1 .. Len(saves) /\ saves \in Seq(SaveRecord)
      /\ \A i \in DOMAIN saves : saves[i] \in SaveRecord
  BY SaveDomains DEF DefaultsSound, DefaultsTypes
<1>1. UNCHANGED <<serverDefaults, changes, cachedDefaults, cachedAt, astray,
                  defaultsFetch, fetched, choices>>
  BY DEF Save
<1>2. form[f] \in FormRecord /\ form \in [Forms -> FormRecord]
  BY DEF DefaultsSound, DefaultsTypes
<1>3. PICK v \in Nat : v = form[f].draft
  BY <1>2 DEF Save, Editable, FormRecord
<1>4. PICK copy \in DefaultsCopy : copy = Copy
  BY DEF Copy, DefaultsCopy, DefaultsSound, DefaultsTypes
<1>5. PICK x : x = [form |-> f, update |-> Patch(f, v), chosen |-> v,
                    phase |-> "posted", applied |-> 0, reply |-> copy]
  OBVIOUS
<1>6. Patch(f, v) \in [{f} -> Nat] BY DEF Patch
<1>7. /\ x \in SaveRecord /\ x.form = f /\ x.chosen = v /\ x.update = Patch(x.form, x.chosen)
      /\ x.applied = 0
  BY <1>5, <1>6 DEF SaveRecord
<1>8. PICK n \in Nat : n = Len(saves) + 1 BY <1>0
<1>9. saves' = Append(saves, x) BY <1>3, <1>4, <1>5 DEF Save
<1>10. /\ saves' \in Seq(SaveRecord) /\ Len(saves') = n /\ DOMAIN saves' = DOMAIN saves \cup {n}
       /\ n \notin DOMAIN saves
       /\ saves'[n] = x /\ \A i \in DOMAIN saves : saves'[i] = saves[i]
  <2>1. /\ saves' \in Seq(SaveRecord) /\ Len(saves') = n
        /\ saves'[n] = x /\ \A i \in DOMAIN saves : saves'[i] = saves[i]
    BY <1>0, <1>7, <1>8, <1>9, AppendProperties
  <2>2. DOMAIN saves' = 1 .. n BY <2>1, LenProperties
  <2> QED BY <1>0, <1>8, <2>1, <2>2
<1>11. form' \in [Forms -> FormRecord]
  <2>1. form' = [form EXCEPT ![f].save = n] BY <1>10 DEF Save
  <2>2. [form[f] EXCEPT !.save = n] \in FormRecord BY <1>2 DEF FormRecord
  <2>3. form' = [form EXCEPT ![f] = [form[f] EXCEPT !.save = n]] BY <1>2, <2>1
  <2> QED BY <1>2, <2>2, <2>3
<1>12. DefaultsTypes' BY <1>1, <1>10, <1>11 DEF DefaultsSound, DefaultsTypes
<1>13. SavesTrue'
  <2> SUFFICES ASSUME NEW i \in DOMAIN saves'
               PROVE  /\ saves'[i].update = Patch(saves'[i].form, saves'[i].chosen)
                      /\ saves'[i].applied <= changes'
                      /\ saves'[i].applied # 0 =>
                           TrueCopy(saves[i].reply)' /\ saves'[i].reply.at = saves'[i].applied
    BY DEF SavesTrue
  <2>1. CASE i = n BY <1>1, <1>7, <1>10, <2>1 DEF DefaultsSound, DefaultsTypes
  <2>2. CASE i \in DOMAIN saves
    BY <1>1, <1>10, <2>2 DEF DefaultsSound, SavesTrue, TrueCopy
  <2> QED BY <1>10, <2>1, <2>2
<1>14. CacheTrue' BY <1>1, <1>10 DEF DefaultsSound, CacheTrue, TrueCopy
<1>15. NoSaveUndone'
  <2> SUFFICES ASSUME NEW g \in Forms, NEW i \in DOMAIN saves',
                      saves'[i].form = g /\ saves'[i].applied # 0,
                      \A j \in DOMAIN saves' : saves'[j].form = g => saves'[j].applied <= saves'[i].applied
               PROVE  serverDefaults'[g] = saves'[i].chosen
    BY DEF NoSaveUndone
  <2>1. i \in DOMAIN saves BY <1>7, <1>10
  <2> QED BY <1>1, <1>10, <2>1 DEF DefaultsSound, NoSaveUndone
<1> QED BY <1>12, <1>13, <1>14, <1>15 DEF DefaultsSound

(* The server applies it to its own form's value, or refuses it.           *)
LEMMA ServeSaveSound ==
  ASSUME DefaultsSound, NEW i \in DOMAIN saves, ServeSave(i)
  PROVE  DefaultsSound'
<1>0. /\ Len(saves) \in Nat /\ DOMAIN saves = 1 .. Len(saves) /\ saves \in Seq(SaveRecord)
      /\ \A k \in DOMAIN saves : saves[k] \in SaveRecord
      /\ serverDefaults \in [Forms -> Nat] /\ changes \in Nat
  BY SaveDomains DEF DefaultsSound, DefaultsTypes
<1>1. /\ saves[i].phase = "posted"
      /\ UNCHANGED <<cachedDefaults, cachedAt, astray, defaultsFetch, fetched, form, choices>>
  BY DEF ServeSave
<1>2. CASE /\ saves' = [saves EXCEPT ![i].phase = "served"] /\ UNCHANGED <<serverDefaults, changes>>
  <2>1. /\ saves' \in Seq(SaveRecord) /\ DOMAIN saves' = DOMAIN saves
        /\ \A k \in DOMAIN saves :
             /\ saves'[k].form = saves[k].form /\ saves'[k].update = saves[k].update
             /\ saves'[k].chosen = saves[k].chosen /\ saves'[k].applied = saves[k].applied
             /\ saves'[k].reply = saves[k].reply
             /\ k # i => saves'[k].phase = saves[k].phase
    BY <1>2, SavePhase DEF DefaultsSound
  <2>2. SavesTrue' /\ NoSaveUndone' BY <1>2, <2>1, SavesKept
  <2>3. DefaultsTypes' BY <1>1, <1>2, <2>1 DEF DefaultsSound, DefaultsTypes
  <2>4. CacheTrue' BY <1>1, <1>2, <2>1 DEF DefaultsSound, CacheTrue, TrueCopy
  <2> QED BY <2>2, <2>3, <2>4 DEF DefaultsSound
<1>3. CASE /\ serverDefaults' = [g \in Forms |-> IF g \in DOMAIN saves[i].update THEN saves[i].update[g]
                                                ELSE serverDefaults[g]]
           /\ changes' = changes + 1
           /\ saves' = [saves EXCEPT ![i].phase = "served", ![i].applied = changes',
                                     ![i].reply = [value |-> serverDefaults', at |-> changes']]
  <2>1. saves[i] \in SaveRecord /\ saves[i].form \in Forms /\ saves[i].chosen \in Nat
    BY <1>0 DEF SaveRecord
  <2>2. PICK f \in Forms, v \in Nat : f = saves[i].form /\ v = saves[i].chosen BY <2>1
  <2>3. saves[i].update = [g \in {f} |-> v] BY <2>2 DEF DefaultsSound, SavesTrue, Patch
  <2>4. \A g \in Forms : serverDefaults'[g] = IF g = f THEN v ELSE serverDefaults[g]
    BY <1>3, <2>3
  <2>5. serverDefaults' \in [Forms -> Nat] BY <1>0, <1>3, <2>2, <2>3
  <2>6. PICK c \in Nat : c = changes + 1 BY <1>0
  <2>7. PICK copy \in DefaultsCopy :
          copy = [value |-> serverDefaults', at |-> changes']
          /\ copy.value = serverDefaults' /\ copy.at = c
    <3>1. PICK sd \in [Forms -> Nat] : sd = serverDefaults' BY <2>5
    <3>2. PICK copy : copy = [value |-> sd, at |-> c] OBVIOUS
    <3>3. copy \in DefaultsCopy /\ copy.value = sd /\ copy.at = c BY <3>2 DEF DefaultsCopy
    <3> QED BY <1>3, <2>6, <3>1, <3>2, <3>3
  <2>8. PICK x : x = [saves[i] EXCEPT !.phase = "served", !.applied = c, !.reply = copy] OBVIOUS
  <2>9. /\ x \in SaveRecord /\ x.form = f /\ x.update = saves[i].update /\ x.chosen = v
        /\ x.phase = "served" /\ x.applied = c /\ x.reply = copy
    BY <2>1, <2>2, <2>6, <2>7, <2>8 DEF SaveRecord
  <2>10. saves' = [saves EXCEPT ![i] = x] BY <1>0, <1>3, <2>6, <2>7, <2>8
  <2>11. saves' \in Seq(SaveRecord) /\ DOMAIN saves' = DOMAIN saves
    BY <1>0, <2>9, <2>10, ExceptSeq
  <2>12. saves'[i] = x /\ \A k \in DOMAIN saves : k # i => saves'[k] = saves[k] BY <1>0, <2>10
  <2>13. changes' = c /\ \A k \in DOMAIN saves : saves[k].applied \in Nat /\ saves[k].applied < c
    BY <1>0, <1>3, <2>6 DEF DefaultsSound, SavesTrue, SaveRecord
  <2>14. DefaultsTypes'
    BY <1>1, <2>5, <2>6, <2>11, <2>13 DEF DefaultsSound, DefaultsTypes
  <2>15. SavesTrue'
    <3> SUFFICES ASSUME NEW k \in DOMAIN saves'
                 PROVE  /\ saves'[k].update = Patch(saves'[k].form, saves'[k].chosen)
                        /\ saves'[k].applied <= changes'
                        /\ saves'[k].applied # 0 =>
                             TrueCopy(saves[k].reply)' /\ saves'[k].reply.at = saves'[k].applied
      BY DEF SavesTrue
    <3>1. CASE k = i
      <4>1. TrueCopy(copy)' BY <2>7, <2>13, <2>6 DEF TrueCopy
      <4>2. x.update = Patch(x.form, x.chosen) BY <2>3, <2>9 DEF Patch
      <4>3. saves'[k] = x BY <2>12, <3>1
      <4>4. TrueCopy(saves[k].reply)' BY <4>1, <4>3, <2>9
      <4> QED BY <2>7, <2>9, <2>13, <4>2, <4>3, <4>4
    <3>2. CASE k # i
      <4>1. saves'[k] = saves[k] /\ k \in DOMAIN saves BY <2>11, <2>12, <3>2
      <4>2. saves[k].applied # 0 => saves[k].reply.at <= changes /\ saves[k].reply.at = saves[k].applied
        BY <4>1 DEF DefaultsSound, SavesTrue, TrueCopy
      <4>3. saves[k].applied # 0 => TrueCopy(saves[k].reply)'
        BY <2>13, <4>1, <4>2 DEF TrueCopy
      <4> QED BY <2>13, <4>1, <4>2, <4>3 DEF DefaultsSound, SavesTrue
    <3> QED BY <3>1, <3>2
  <2>16. CacheTrue'
    <3>1. cachedAt' <= changes' /\ cachedAt' # changes'
      BY <1>0, <1>1, <2>6, <2>13 DEF DefaultsSound, DefaultsTypes, CacheTrue
    <3>2. defaultsFetch' = "read" => TrueCopy(fetched)'
      <4> SUFFICES ASSUME defaultsFetch = "read" PROVE TrueCopy(fetched)' BY <1>1
      <4>1. fetched \in DefaultsCopy /\ fetched.at \in Nat /\ fetched.at <= changes
        BY DEF DefaultsSound, DefaultsTypes, DefaultsCopy, CacheTrue, TrueCopy
      <4> QED BY <1>0, <1>1, <2>6, <2>13, <4>1 DEF TrueCopy
    <3>3. i \in DOMAIN saves' /\ saves'[i].phase = "served" /\ saves'[i].applied = changes'
      BY <2>9, <2>11, <2>12, <2>13
    <3> QED BY <3>1, <3>2, <3>3 DEF CacheTrue
  <2>17. NoSaveUndone'
    <3> SUFFICES ASSUME NEW g \in Forms, NEW k \in DOMAIN saves',
                        saves'[k].form = g /\ saves'[k].applied # 0,
                        \A j \in DOMAIN saves' : saves'[j].form = g => saves'[j].applied <= saves'[k].applied
                 PROVE  serverDefaults'[g] = saves'[k].chosen
      BY DEF NoSaveUndone
    <3>1. CASE k = i BY <2>4, <2>9, <2>12, <3>1
    <3>2. CASE k # i
      <4>1. saves'[k] = saves[k] /\ k \in DOMAIN saves BY <2>11, <2>12, <3>2
      <4>2. g # f
        <5> SUFFICES ASSUME g = f PROVE FALSE OBVIOUS
        <5>1. c <= saves[k].applied BY <2>9, <2>11, <2>12, <4>1
        <5> QED BY <2>6, <2>13, <4>1, <5>1
      <4>3. \A j \in DOMAIN saves : saves[j].form = g => saves[j].applied <= saves[k].applied
        BY <2>2, <2>11, <2>12, <4>1, <4>2
      <4>4. serverDefaults[g] = saves[k].chosen
        BY <4>1, <4>3 DEF DefaultsSound, NoSaveUndone
      <4> QED BY <2>4, <4>1, <4>2, <4>4
    <3> QED BY <3>1, <3>2
  <2> QED BY <2>14, <2>15, <2>16, <2>17 DEF DefaultsSound
<1> QED BY <1>2, <1>3 DEF ServeSave

(* Its reply becomes the cached copy; an answer that is lost leaves it     *)
(* astray.                                                                 *)
LEMMA AnswerSaveSound ==
  ASSUME DefaultsSound, NEW i \in DOMAIN saves, AnswerSave(i)
  PROVE  DefaultsSound'
<1>0. /\ Len(saves) \in Nat /\ DOMAIN saves = 1 .. Len(saves)
      /\ \A k \in DOMAIN saves : saves[k] \in SaveRecord
      /\ form \in [Forms -> FormRecord] /\ astray \in BOOLEAN /\ cachedAt \in Nat
  BY SaveDomains DEF DefaultsSound, DefaultsTypes
<1>1. PICK f \in Forms, reply \in DefaultsCopy, result \in Results(saves[i].applied # 0) :
        /\ f = saves[i].form /\ reply = saves[i].reply
        /\ IF result = "value"
           THEN /\ CacheReply(reply)
                /\ form' = [Redrafted(form, reply.value) EXCEPT ![f].draft = reply.value[f], ![f].open = FALSE]
           ELSE /\ astray' = (astray \/ saves[i].applied # 0)
                /\ UNCHANGED <<cachedDefaults, cachedAt, form>>
  BY <1>0 DEF AnswerSave, SaveRecord
<1>2. /\ saves[i].phase = "served" /\ saves' = [saves EXCEPT ![i].phase = "answered"]
      /\ UNCHANGED <<serverDefaults, changes, defaultsFetch, fetched, choices>>
  BY DEF AnswerSave
<1>3. /\ saves' \in Seq(SaveRecord) /\ DOMAIN saves' = DOMAIN saves
      /\ \A k \in DOMAIN saves :
           /\ saves'[k].form = saves[k].form /\ saves'[k].update = saves[k].update
           /\ saves'[k].chosen = saves[k].chosen /\ saves'[k].applied = saves[k].applied
           /\ saves'[k].reply = saves[k].reply
           /\ k # i => saves'[k].phase = saves[k].phase
  BY <1>2, SavePhase DEF DefaultsSound
<1>4. SavesTrue' /\ NoSaveUndone' BY <1>2, <1>3, SavesKept
<1>5. defaultsFetch' = "read" => fetched' \in DefaultsCopy /\ TrueCopy(fetched)'
  BY <1>2 DEF DefaultsSound, DefaultsTypes, CacheTrue, TrueCopy
<1>6. CASE result = "value"
  <2>1. saves[i].applied # 0
    <3> SUFFICES ASSUME saves[i].applied = 0 PROVE FALSE OBVIOUS
    <3>1. result \in Results(FALSE) BY <1>1
    <3> QED BY <1>6, <3>1, ResultsOfRequest
  <2>2. TrueCopy(reply) /\ reply.at = saves[i].applied
    BY <1>1, <2>1 DEF DefaultsSound, SavesTrue
  <2>3. Land(reply) BY <1>1, <1>6 DEF CacheReply
  <2>4. \A k \in DOMAIN saves : saves[k].phase = "served" /\ saves[k].applied = changes =>
          \/ reply.at = changes
          \/ k \in DOMAIN saves' /\ saves'[k].phase = "served" /\ saves'[k].applied = changes
    BY <1>3, <2>2
  <2>5. /\ cachedAt' \in Nat /\ astray' \in BOOLEAN /\ cachedDefaults' \in [Forms -> Nat]
        /\ cachedAt' <= changes'
        /\ cachedAt' = changes' => cachedDefaults' = serverDefaults'
        /\ \/ cachedAt' = changes' \/ astray'
           \/ \E k \in DOMAIN saves' : saves'[k].phase = "served" /\ saves'[k].applied = changes'
    BY <1>2, <2>2, <2>3, <2>4, LandSound
  <2>6. form' \in [Forms -> FormRecord]
    <3>1. PICK forms \in [Forms -> FormRecord] : forms = Redrafted(form, reply.value)
      BY <1>0, RedraftedForms DEF DefaultsCopy
    <3>2. PICK v \in Nat : v = reply.value[f] BY DEF DefaultsCopy
    <3>3. [forms[f] EXCEPT !.draft = v] \in FormRecord
      BY DEF FormRecord
    <3>4. [[forms[f] EXCEPT !.draft = v] EXCEPT !.open = FALSE] \in FormRecord
      BY <3>3 DEF FormRecord
    <3>5. form' = [forms EXCEPT ![f] = [[forms[f] EXCEPT !.draft = v] EXCEPT !.open = FALSE]]
      BY <1>1, <1>6, <3>1, <3>2
    <3> QED BY <3>4, <3>5
  <2>7. DefaultsTypes' BY <1>2, <1>3, <1>5, <2>5, <2>6 DEF DefaultsSound, DefaultsTypes
  <2>8. CacheTrue' BY <1>5, <2>5 DEF CacheTrue
  <2> QED BY <1>4, <2>7, <2>8 DEF DefaultsSound
<1>7. CASE result # "value"
  <2>1. astray' = (astray \/ saves[i].applied # 0) /\ UNCHANGED <<cachedDefaults, cachedAt, form>>
    BY <1>1, <1>7
  <2>2. astray' \in BOOLEAN BY <2>1
  <2>3. DefaultsTypes' BY <1>2, <1>3, <1>5, <2>1, <2>2 DEF DefaultsSound, DefaultsTypes
  <2>4. \/ cachedAt' = changes' \/ astray'
        \/ \E k \in DOMAIN saves' : saves'[k].phase = "served" /\ saves'[k].applied = changes'
    <3>1. CASE cachedAt = changes BY <1>2, <2>1, <3>1
    <3>2. CASE astray BY <2>1, <3>2
    <3>3. ASSUME NEW k \in DOMAIN saves, saves[k].phase = "served", saves[k].applied = changes,
                 cachedAt # changes
          PROVE  astray' \/ (k \in DOMAIN saves' /\ saves'[k].phase = "served" /\ saves'[k].applied = changes')
      <4>1. changes # 0 BY <1>0, <3>3 DEF DefaultsSound, DefaultsTypes, CacheTrue
      <4>2. CASE k = i BY <2>1, <3>3, <4>1, <4>2
      <4>3. CASE k # i BY <1>2, <1>3, <3>3, <4>3
      <4> QED BY <4>2, <4>3
    <3> QED BY <3>1, <3>2, <3>3 DEF DefaultsSound, CacheTrue
  <2>5. CacheTrue' BY <1>2, <1>5, <2>1, <2>4 DEF DefaultsSound, CacheTrue
  <2> QED BY <1>4, <2>3, <2>5 DEF DefaultsSound
<1> QED BY <1>6, <1>7

(* What one form saved is undone by no save of the other, and with nothing *)
(* under way or astray the page shows the server's defaults.               *)
THEOREM DefaultsAreKept == DefaultsSpec => []DefaultsKept
<1>1. DefaultsInit => DefaultsSound
  <2> SUFFICES ASSUME DefaultsInit PROVE DefaultsSound OBVIOUS
  <2>1. saves = <<>> /\ saves \in Seq(SaveRecord) /\ DOMAIN saves = {}
    BY EmptySeq DEF DefaultsInit
  <2>2. /\ serverDefaults = [f \in Forms |-> 0] /\ changes = 0 /\ choices = 0
        /\ cachedDefaults = NoDraft /\ cachedAt = 0 /\ astray = FALSE
        /\ defaultsFetch = "idle"
    BY DEF DefaultsInit
  <2>3. Closed \in FormRecord BY DEF Closed, FormRecord
  <2>4. form \in [Forms -> FormRecord] BY <2>3 DEF DefaultsInit
  <2>5. serverDefaults \in [Forms -> Nat] /\ astray \in BOOLEAN BY <2>2
  <2>6. DefaultsTypes BY <2>1, <2>2, <2>4, <2>5 DEF DefaultsTypes
  <2> QED BY <2>1, <2>2, <2>6 DEF DefaultsSound, SavesTrue, CacheTrue, NoSaveUndone
<1>2. DefaultsSound /\ [DefaultsNext]_defaultsVars => DefaultsSound'
  <2> SUFFICES ASSUME DefaultsSound, [DefaultsNext]_defaultsVars PROVE DefaultsSound' OBVIOUS
  <2>1. CASE UNCHANGED defaultsVars
    <3>1. UNCHANGED <<serverDefaults, changes, cachedDefaults, cachedAt, astray,
                      defaultsFetch, fetched, form, saves, choices>>
      BY <2>1 DEF defaultsVars
    <3> QED BY <3>1 DEF DefaultsSound, DefaultsTypes, SavesTrue, CacheTrue, TrueCopy, NoSaveUndone
  <2> QED
    BY <2>1, FetchSound, FormSound, SaveSound, ServeSaveSound, AnswerSaveSound DEF DefaultsNext
<1>3. DefaultsSound => DefaultsKept
  <2> SUFFICES ASSUME DefaultsSound PROVE DefaultsKept OBVIOUS
  <2>1. DefaultsShown BY DEF DefaultsSound, CacheTrue, DefaultsShown
  <2> QED BY <2>1 DEF DefaultsSound, DefaultsKept
<1> QED BY <1>1, <1>2, <1>3, PTL DEF DefaultsSpec

-----------------------------------------------------------------------------
(* The approval card.  A decision that is awaited is one the card shows as *)
(* "resolving", or the card has been taken away since and forgot of one.   *)

BrokerStates == {"none", "pending", "approved", "rejected", "cancelled"}
Resolutions == {"none", "resolving", "error"}
Decision ==
  [approval : Approvals, approved : BOOLEAN, phase : {"posted", "served", "answered"},
   done : BOOLEAN, watched : BOOLEAN]

CardTypes ==
  /\ cardSession \in CardSessions /\ cardMounted \in BOOLEAN
  /\ pendingApprovals \subseteq Approvals /\ activeApprovalId \in 0 .. MaxApprovals
  /\ resolutionById \in [Approvals -> Resolutions]
  /\ broker \in [Approvals -> BrokerStates]
  /\ decisions \in Seq(Decision)
  /\ \A a \in pendingApprovals : broker[a] # "none"

(* The card once forgot of a decision about the approval a.                *)
Forgotten(a) == \E k \in DOMAIN decisions : decisions[k].approval = a /\ ~decisions[k].watched

DecisionsTrue ==
  /\ \A a \in Approvals : resolutionById[a] = "resolving" => broker[a] # "none"
  /\ \A i \in DOMAIN decisions :
       /\ decisions[i].done => broker[decisions[i].approval] # "pending"
       /\ broker[decisions[i].approval] # "none"
       /\ decisions[i].phase # "answered" =>
            resolutionById[decisions[i].approval] = "resolving" \/ Forgotten(decisions[i].approval)

CardSound == CardTypes /\ DecisionsTrue /\ ApprovalDecided

(* What the domain of the decisions is, and what is in it.                 *)
LEMMA DecisionDomains ==
  ASSUME decisions \in Seq(Decision)
  PROVE  /\ Len(decisions) \in Nat /\ DOMAIN decisions = 1 .. Len(decisions)
         /\ \A i \in DOMAIN decisions : decisions[i] \in Decision /\ decisions[i].approval \in Approvals
<1>1. \A x \in Decision : x.approval \in Approvals BY DEF Decision
<1> QED BY <1>1, LenProperties, ElementOfSeq

(* The first of the approvals of a Session is one of them.                 *)
LEMMA FirstSelected ==
  ASSUME NEW s \in CardSessions, NEW approvals \in SUBSET Approvals, Selected(s, approvals) # {}
  PROVE  /\ First(Selected(s, approvals)) \in Selected(s, approvals)
         /\ First(Selected(s, approvals))[2] \in 1 .. MaxApprovals
         /\ <<s, First(Selected(s, approvals))[2]>> \in approvals
<1>1. PICK S \in SUBSET Approvals : S = Selected(s, approvals) /\ \A a \in S : a[1] = s /\ a \in approvals
  BY DEF Selected
<1>2. \A a \in S : a[2] \in 1 .. MaxApprovals /\ a = <<s, a[2]>> BY <1>1 DEF Approvals
<1> DEFINE T == {a[2] : a \in S}
<1>3. T \in SUBSET Nat /\ T # {} BY <1>1, <1>2
<1>4. PICK x \in T : \A y \in T : x <= y BY <1>3, LeastNumber
<1>5. \E a \in S : \A b \in S : a[2] <= b[2] BY <1>4
<1>6. First(S) \in S BY <1>5 DEF First
<1> QED BY <1>1, <1>2, <1>6

(* The card forgets: a decision is forgotten with what the card knew of    *)
(* its approval, or both stay.                                             *)
LEMMA CardForgets ==
  ASSUME CardSound, decisions' \in Seq(Decision), DOMAIN decisions' = DOMAIN decisions,
         \A i \in DOMAIN decisions :
           /\ decisions'[i].approval = decisions[i].approval /\ decisions'[i].phase = decisions[i].phase
           /\ decisions'[i].done = decisions[i].done
           /\ ~decisions[i].watched => ~decisions'[i].watched
           /\ \/ ~decisions'[i].watched
              \/ resolutionById'[decisions[i].approval] = resolutionById[decisions[i].approval],
         \A a \in Approvals : resolutionById'[a] \in {"none", resolutionById[a]},
         broker' = broker
  PROVE  DecisionsTrue' /\ ResolvingIsTrue' /\ DecidedOnce'
<1>0. \A i \in DOMAIN decisions : decisions[i].approval \in Approvals
  BY DecisionDomains DEF CardSound, CardTypes
<1>1. \A a \in Approvals : Awaited(a)' = Awaited(a) BY DEF Awaited
<1>2. \A a \in Approvals : Forgotten(a) => Forgotten(a)' BY DEF Forgotten
<1>3. ResolvingIsTrue'
  <2> SUFFICES ASSUME NEW a \in Approvals, resolutionById'[a] = "resolving"
               PROVE  Awaited(a)' # {} \/ broker'[a] # "pending"
    BY DEF ResolvingIsTrue
  <2> QED BY <1>1 DEF CardSound, ApprovalDecided, ResolvingIsTrue
<1>4. DecidedOnce'
  <2> SUFFICES ASSUME NEW a \in Approvals, NEW i \in Awaited(a)', NEW j \in Awaited(a)', i # j
               PROVE  Forgotten(a)'
    BY DEF DecidedOnce, Forgotten
  <2>1. i \in Awaited(a) /\ j \in Awaited(a) BY <1>1
  <2>2. Forgotten(a) BY <2>1 DEF CardSound, ApprovalDecided, DecidedOnce, Forgotten
  <2> QED BY <1>2, <2>2
<1>5. \A i \in DOMAIN decisions : decisions[i].phase # "answered" =>
        resolutionById'[decisions[i].approval] = "resolving" \/ Forgotten(decisions[i].approval)'
  <2> SUFFICES ASSUME NEW i \in DOMAIN decisions, decisions[i].phase # "answered",
                      NEW a \in Approvals, a = decisions[i].approval
               PROVE  resolutionById'[a] = "resolving" \/ Forgotten(a)'
    BY <1>0
  <2>1. CASE ~decisions'[i].watched BY <2>1 DEF Forgotten
  <2>2. CASE Forgotten(a) BY <1>2, <2>2
  <2>3. CASE resolutionById'[a] = resolutionById[a] /\ resolutionById[a] = "resolving" BY <2>3
  <2> QED BY <2>1, <2>2, <2>3 DEF CardSound, DecisionsTrue
<1>6. \A i \in DOMAIN decisions' :
        /\ decisions'[i].done => broker'[decisions'[i].approval] # "pending"
        /\ broker'[decisions'[i].approval] # "none"
        /\ decisions'[i].phase # "answered" =>
             resolutionById'[decisions'[i].approval] = "resolving"
             \/ Forgotten(decisions[i].approval)'
  BY <1>5 DEF CardSound, DecisionsTrue
<1>7. \A a \in Approvals : resolutionById'[a] = "resolving" => broker'[a] # "none"
  BY DEF CardSound, DecisionsTrue
<1>8. DecisionsTrue' BY <1>6, <1>7 DEF DecisionsTrue
<1> QED BY <1>3, <1>4, <1>8

(* After each render the approval shown is pending, if one is.             *)
LEMMA RefreshedSound ==
  ASSUME CardSound, NEW s \in CardSessions, NEW approvals \in SUBSET Approvals,
         Refreshed(s, approvals), broker' = broker
  PROVE  /\ DecisionsTrue' /\ ResolvingIsTrue' /\ DecidedOnce'
         /\ decisions' \in Seq(Decision) /\ resolutionById' \in [Approvals -> Resolutions]
         /\ activeApprovalId' \in 0 .. MaxApprovals
         /\ Selected(s, approvals) # {} => <<s, activeApprovalId'>> \in approvals
<1>0. /\ Len(decisions) \in Nat /\ DOMAIN decisions = 1 .. Len(decisions)
      /\ \A i \in DOMAIN decisions : decisions[i] \in Decision /\ decisions[i].approval \in Approvals
      /\ resolutionById \in [Approvals -> Resolutions] /\ activeApprovalId \in 0 .. MaxApprovals
  BY DecisionDomains DEF CardSound, CardTypes
<1> DEFINE gone(a) == a[1] = s /\ a \notin Selected(s, approvals)
<1>1. /\ activeApprovalId' = IF <<s, activeApprovalId>> \in Selected(s, approvals) THEN activeApprovalId
                             ELSE IF Selected(s, approvals) = {} THEN 0
                             ELSE First(Selected(s, approvals))[2]
      /\ resolutionById' = [a \in Approvals |-> IF gone(a) THEN "none" ELSE resolutionById[a]]
      /\ decisions' = [i \in 1 .. Len(decisions) |->
                         IF gone(decisions[i].approval) THEN [decisions[i] EXCEPT !.watched = FALSE]
                         ELSE decisions[i]]
  BY <1>0 DEF Refreshed
<1> HIDE DEF gone
<1>2. \A i \in DOMAIN decisions :
        /\ [decisions[i] EXCEPT !.watched = FALSE] \in Decision
        /\ [decisions[i] EXCEPT !.watched = FALSE].approval = decisions[i].approval
        /\ [decisions[i] EXCEPT !.watched = FALSE].phase = decisions[i].phase
        /\ [decisions[i] EXCEPT !.watched = FALSE].done = decisions[i].done
        /\ ~[decisions[i] EXCEPT !.watched = FALSE].watched
  BY <1>0 DEF Decision
<1>3. DOMAIN decisions' = DOMAIN decisions
      /\ \A i \in DOMAIN decisions :
           \/ gone(decisions[i].approval) /\ decisions'[i] = [decisions[i] EXCEPT !.watched = FALSE]
           \/ ~gone(decisions[i].approval) /\ decisions'[i] = decisions[i]
  BY <1>0, <1>1
<1>4. decisions' \in Seq(Decision)
  <2>1. decisions' \in [1 .. Len(decisions) -> Decision] BY <1>0, <1>1, <1>2, <1>3
  <2> QED BY <1>0, <2>1, SeqDef
<1>5. /\ resolutionById' \in [Approvals -> Resolutions]
      /\ \A a \in Approvals : resolutionById'[a] \in {"none", resolutionById[a]}
      /\ \A a \in Approvals : ~gone(a) => resolutionById'[a] = resolutionById[a]
  BY <1>0, <1>1 DEF Resolutions
<1>6. \A i \in DOMAIN decisions :
        /\ decisions'[i].approval = decisions[i].approval /\ decisions'[i].phase = decisions[i].phase
        /\ decisions'[i].done = decisions[i].done
        /\ ~decisions[i].watched => ~decisions'[i].watched
        /\ \/ ~decisions'[i].watched
           \/ resolutionById'[decisions[i].approval] = resolutionById[decisions[i].approval]
  BY <1>0, <1>2, <1>3, <1>5
<1>7. DecisionsTrue' /\ ResolvingIsTrue' /\ DecidedOnce'
  BY <1>3, <1>4, <1>5, <1>6, CardForgets
<1>8. CASE Selected(s, approvals) = {}
  <2>1. activeApprovalId' \in {0, activeApprovalId} BY <1>1, <1>8
  <2>2. 0 \in 0 .. MaxApprovals BY ApprovalCardAssumption
  <2> QED BY <1>0, <1>4, <1>5, <1>7, <1>8, <2>1, <2>2
<1>9. CASE Selected(s, approvals) # {}
  <2>1. First(Selected(s, approvals))[2] \in 0 .. MaxApprovals
        /\ <<s, First(Selected(s, approvals))[2]>> \in approvals
    <3>1. First(Selected(s, approvals))[2] \in 1 .. MaxApprovals
          /\ <<s, First(Selected(s, approvals))[2]>> \in approvals
      BY <1>9, FirstSelected
    <3>2. 1 .. MaxApprovals \subseteq 0 .. MaxApprovals BY ApprovalCardAssumption
    <3> QED BY <3>1, <3>2
  <2>2. <<s, activeApprovalId>> \in Selected(s, approvals) => <<s, activeApprovalId>> \in approvals
    BY DEF Selected
  <2> QED BY <1>0, <1>1, <1>4, <1>5, <1>7, <1>9, <2>1, <2>2
<1> QED BY <1>8, <1>9

(* What the card lists or shows changes.                                   *)
LEMMA CardRenders ==
  ASSUME CardSound, NEW s \in CardSessions, NEW approvals \in SUBSET Approvals,
         \A a \in approvals : broker[a] # "none",
         cardSession' = s, pendingApprovals' = approvals, broker' = broker,
         \/ cardMounted' = TRUE /\ Refreshed(s, approvals)
         \/ cardMounted' = FALSE /\ UNCHANGED <<activeApprovalId, resolutionById, decisions>>
  PROVE  CardSound'
<1>1. CASE cardMounted' = TRUE /\ Refreshed(s, approvals)
  <2>1. /\ DecisionsTrue' /\ ResolvingIsTrue' /\ DecidedOnce'
        /\ decisions' \in Seq(Decision) /\ resolutionById' \in [Approvals -> Resolutions]
        /\ activeApprovalId' \in 0 .. MaxApprovals
        /\ Selected(s, approvals) # {} => <<s, activeApprovalId'>> \in approvals
    BY <1>1, RefreshedSound
  <2>2. CardShown' BY <1>1, <2>1 DEF CardShown, Onscreen, ShownApproval
  <2>3. CardTypes' BY <1>1, <2>1 DEF CardSound, CardTypes
  <2> QED BY <2>1, <2>2, <2>3 DEF CardSound, ApprovalDecided
<1>2. CASE cardMounted' = FALSE /\ UNCHANGED <<activeApprovalId, resolutionById, decisions>>
  <2>1. DecisionsTrue' /\ ResolvingIsTrue' /\ DecidedOnce'
    BY <1>2 DEF CardSound, ApprovalDecided, DecisionsTrue, ResolvingIsTrue, DecidedOnce, Awaited, Forgotten
  <2>2. CardShown' BY <1>2 DEF CardShown, Onscreen
  <2>3. CardTypes' BY <1>2 DEF CardSound, CardTypes
  <2> QED BY <2>1, <2>2, <2>3 DEF CardSound, ApprovalDecided
<1> QED BY <1>1, <1>2

(* The page is left for an error or a spinner.                             *)
LEMMA HideSound ==
  ASSUME CardSound, HideCard
  PROVE  CardSound'
<1>0. /\ Len(decisions) \in Nat /\ DOMAIN decisions = 1 .. Len(decisions)
      /\ \A i \in DOMAIN decisions : decisions[i] \in Decision
  BY DecisionDomains DEF CardSound, CardTypes
<1>1. /\ cardMounted' = FALSE /\ activeApprovalId' = 0 /\ resolutionById' = [a \in Approvals |-> "none"]
      /\ decisions' = [i \in 1 .. Len(decisions) |-> [decisions[i] EXCEPT !.watched = FALSE]]
      /\ UNCHANGED <<cardSession, pendingApprovals, broker>>
  BY <1>0 DEF HideCard, NoResolutions
<1>2. \A i \in DOMAIN decisions :
        /\ [decisions[i] EXCEPT !.watched = FALSE] \in Decision
        /\ [decisions[i] EXCEPT !.watched = FALSE].approval = decisions[i].approval
        /\ [decisions[i] EXCEPT !.watched = FALSE].phase = decisions[i].phase
        /\ [decisions[i] EXCEPT !.watched = FALSE].done = decisions[i].done
        /\ ~[decisions[i] EXCEPT !.watched = FALSE].watched
  BY <1>0 DEF Decision
<1>3. DOMAIN decisions' = DOMAIN decisions
      /\ \A i \in DOMAIN decisions : decisions'[i] = [decisions[i] EXCEPT !.watched = FALSE]
  BY <1>0, <1>1
<1>4. decisions' \in Seq(Decision)
  <2>1. decisions' \in [1 .. Len(decisions) -> Decision] BY <1>0, <1>1, <1>2, <1>3
  <2> QED BY <1>0, <2>1, SeqDef
<1>5. DecisionsTrue' /\ ResolvingIsTrue' /\ DecidedOnce'
  BY <1>1, <1>2, <1>3, <1>4, CardForgets
<1>6. 0 \in 0 .. MaxApprovals BY ApprovalCardAssumption
<1>7. resolutionById' \in [Approvals -> Resolutions] BY <1>1 DEF Resolutions
<1>8. CardTypes' BY <1>1, <1>4, <1>6, <1>7 DEF CardSound, CardTypes
<1>9. CardShown' BY <1>1 DEF CardShown, Onscreen
<1> QED BY <1>5, <1>8, <1>9 DEF CardSound, ApprovalDecided

(* The user turns to another approval, or decides the one shown: one that  *)
(* is not being resolved, so no decision of it is awaited that the card    *)
(* has not forgotten.                                                      *)
LEMMA UserSound ==
  ASSUME CardSound,
         \/ \E a \in Approvals : TurnTo(a)
         \/ \E approved \in BOOLEAN : Decide(approved)
  PROVE  CardSound'
<1>1. ASSUME NEW a \in Approvals, TurnTo(a) PROVE CardSound'
  <2>1. /\ a \in pendingApprovals /\ a[1] = cardSession /\ activeApprovalId' = a[2]
        /\ UNCHANGED <<cardSession, cardMounted, pendingApprovals, resolutionById, decisions, broker>>
    BY <1>1 DEF TurnTo, Selected
  <2>2. a[2] \in 0 .. MaxApprovals /\ a = <<a[1], a[2]>>
    BY ApprovalCardAssumption DEF Approvals
  <2>3. CardTypes' BY <2>1, <2>2 DEF CardSound, CardTypes
  <2>4. CardShown' BY <2>1, <2>2 DEF CardShown, ShownApproval
  <2>5. DecisionsTrue' /\ ResolvingIsTrue' /\ DecidedOnce'
    BY <2>1 DEF CardSound, ApprovalDecided, DecisionsTrue, ResolvingIsTrue, DecidedOnce, Awaited, Forgotten
  <2> QED BY <2>3, <2>4, <2>5 DEF CardSound, ApprovalDecided
<1>2. ASSUME NEW approved \in BOOLEAN, Decide(approved) PROVE CardSound'
  <2>0. /\ Len(decisions) \in Nat /\ DOMAIN decisions = 1 .. Len(decisions)
        /\ decisions \in Seq(Decision)
        /\ \A i \in DOMAIN decisions : decisions[i] \in Decision /\ decisions[i].approval \in Approvals
        /\ resolutionById \in [Approvals -> Resolutions]
    BY DecisionDomains DEF CardSound, CardTypes
  <2>1. PICK a \in pendingApprovals : a = ShownApproval
    BY <1>2 DEF Decide, CardSound, ApprovalDecided, CardShown
  <2>2. a \in Approvals /\ broker[a] # "none" BY DEF CardSound, CardTypes
  <2>3. PICK x : x = [approval |-> a, approved |-> approved, phase |-> "posted",
                      done |-> FALSE, watched |-> TRUE]
    OBVIOUS
  <2>4. /\ x \in Decision /\ x.approval = a /\ x.phase = "posted" /\ ~x.done /\ x.watched
    BY <2>2, <2>3 DEF Decision
  <2>5. /\ resolutionById[a] # "resolving"
        /\ resolutionById' = [resolutionById EXCEPT ![a] = "resolving"]
        /\ decisions' = Append(decisions, x)
        /\ UNCHANGED <<cardSession, cardMounted, pendingApprovals, activeApprovalId, broker>>
    BY <1>2, <2>1, <2>3 DEF Decide
  <2>6. PICK n \in Nat : n = Len(decisions) + 1 BY <2>0
  <2>7. /\ decisions' \in Seq(Decision) /\ DOMAIN decisions' = DOMAIN decisions \cup {n}
        /\ n \notin DOMAIN decisions
        /\ decisions'[n] = x /\ \A i \in DOMAIN decisions : decisions'[i] = decisions[i]
    <3>1. /\ decisions' \in Seq(Decision) /\ Len(decisions') = n
          /\ decisions'[n] = x /\ \A i \in DOMAIN decisions : decisions'[i] = decisions[i]
      BY <2>0, <2>4, <2>5, <2>6, AppendProperties
    <3>2. DOMAIN decisions' = 1 .. n BY <3>1, LenProperties
    <3> QED BY <2>0, <2>6, <3>1, <3>2
  <2>8. /\ resolutionById' \in [Approvals -> Resolutions] /\ resolutionById'[a] = "resolving"
        /\ \A b \in Approvals : b # a => resolutionById'[b] = resolutionById[b]
    BY <2>0, <2>2, <2>5 DEF Resolutions
  <2>9. CardTypes' BY <2>5, <2>7, <2>8 DEF CardSound, CardTypes
  <2>10. CardShown' BY <2>5 DEF CardSound, ApprovalDecided, CardShown, Onscreen, ShownApproval
  <2>11. \A b \in Approvals : Awaited(b)' = IF b = a THEN Awaited(b) \cup {n} ELSE Awaited(b)
    BY <2>4, <2>7 DEF Awaited
  <2>12. \A b \in Approvals : Forgotten(b) => Forgotten(b)' BY <2>7 DEF Forgotten
  <2>13. ResolvingIsTrue'
    <3> SUFFICES ASSUME NEW b \in Approvals, resolutionById'[b] = "resolving"
                 PROVE  Awaited(b)' # {} \/ broker'[b] # "pending"
      BY DEF ResolvingIsTrue
    <3>1. CASE b = a BY <2>11, <3>1
    <3>2. CASE b # a
      BY <2>5, <2>8, <2>11, <3>2 DEF CardSound, ApprovalDecided, ResolvingIsTrue
    <3> QED BY <3>1, <3>2
  <2>14. Awaited(a) # {} => Forgotten(a)
    BY <2>5 DEF Awaited, CardSound, DecisionsTrue
  <2>15. DecidedOnce'
    <3> SUFFICES ASSUME NEW b \in Approvals, NEW i \in Awaited(b)', NEW j \in Awaited(b)', i # j
                 PROVE  Forgotten(b)'
      BY DEF DecidedOnce, Forgotten
    <3>1. CASE i \in Awaited(b) /\ j \in Awaited(b)
      <4>1. Forgotten(b) BY <3>1 DEF CardSound, ApprovalDecided, DecidedOnce, Forgotten
      <4> QED BY <2>12, <4>1
    <3>2. CASE ~(i \in Awaited(b) /\ j \in Awaited(b))
      <4>1. b = a /\ Awaited(a) # {} BY <2>11, <3>2
      <4> QED BY <2>12, <2>14, <4>1
    <3> QED BY <3>1, <3>2
  <2>16. \A i \in DOMAIN decisions' :
           /\ decisions'[i].done => broker'[decisions'[i].approval] # "pending"
           /\ broker'[decisions'[i].approval] # "none"
           /\ decisions'[i].phase # "answered" =>
                resolutionById'[decisions'[i].approval] = "resolving"
                \/ \E k \in DOMAIN decisions' :
                     decisions'[k].approval = decisions'[i].approval /\ ~decisions'[k].watched
    <3> SUFFICES ASSUME NEW i \in DOMAIN decisions'
                 PROVE  /\ decisions'[i].done => broker'[decisions'[i].approval] # "pending"
                        /\ broker'[decisions'[i].approval] # "none"
                        /\ decisions'[i].phase # "answered" =>
                             resolutionById'[decisions'[i].approval] = "resolving"
                             \/ \E k \in DOMAIN decisions' :
                                  decisions'[k].approval = decisions'[i].approval /\ ~decisions'[k].watched
      OBVIOUS
    <3>1. CASE i = n BY <2>2, <2>4, <2>5, <2>7, <2>8, <3>1
    <3>2. CASE i \in DOMAIN decisions
      <4>1. decisions'[i] = decisions[i] /\ decisions[i].approval \in Approvals
            /\ (resolutionById[decisions[i].approval] = "resolving"
                  => resolutionById'[decisions[i].approval] = "resolving")
        BY <2>0, <2>7, <2>8, <3>2
      <4> QED BY <2>5, <2>7, <3>2, <4>1 DEF CardSound, DecisionsTrue, Forgotten
    <3> QED BY <2>7, <3>1, <3>2
  <2>17. \A b \in Approvals : resolutionById'[b] = "resolving" => broker'[b] # "none"
    BY <2>2, <2>5, <2>8 DEF CardSound, DecisionsTrue
  <2>18. DecisionsTrue' BY <2>16, <2>17 DEF DecisionsTrue, Forgotten
  <2> QED BY <2>9, <2>10, <2>13, <2>15, <2>18 DEF CardSound, ApprovalDecided
<1> QED BY <1>1, <1>2

(* A decision changes in what happened to it, and keeps its approval.      *)
LEMMA DecisionChanges ==
  ASSUME decisions \in Seq(Decision), NEW i \in DOMAIN decisions, NEW x \in Decision,
         x.approval = decisions[i].approval, x.watched = decisions[i].watched,
         decisions' = [decisions EXCEPT ![i] = x]
  PROVE  /\ decisions' \in Seq(Decision) /\ DOMAIN decisions' = DOMAIN decisions
         /\ decisions'[i] = x /\ \A k \in DOMAIN decisions : k # i => decisions'[k] = decisions[k]
         /\ \A a : Forgotten(a)' <=> Forgotten(a)
<1>0. Len(decisions) \in Nat /\ DOMAIN decisions = 1 .. Len(decisions)
  BY DecisionDomains
<1>1. decisions' \in Seq(Decision) /\ DOMAIN decisions' = DOMAIN decisions
  BY <1>0, ExceptSeq
<1>2. decisions'[i] = x /\ \A k \in DOMAIN decisions : k # i => decisions'[k] = decisions[k]
  BY <1>0
<1>3. \A k \in DOMAIN decisions : decisions'[k].approval = decisions[k].approval
                                  /\ decisions'[k].watched = decisions[k].watched
  BY <1>2
<1>4. \A a : Forgotten(a)' <=> Forgotten(a) BY <1>1, <1>3 DEF Forgotten
<1> QED BY <1>1, <1>2, <1>4

(* An answer: one that says it is decided is true, and any other gives the *)
(* approval back to the user.                                              *)
LEMMA AnswerDecisionSound ==
  ASSUME CardSound, NEW i \in DOMAIN decisions, AnswerDecision(i)
  PROVE  CardSound'
<1>0. /\ decisions \in Seq(Decision) /\ decisions[i] \in Decision /\ decisions[i].approval \in Approvals
      /\ DOMAIN decisions = 1 .. Len(decisions) /\ Len(decisions) \in Nat
      /\ \A k \in DOMAIN decisions : decisions[k].approval \in Approvals
      /\ resolutionById \in [Approvals -> Resolutions]
  BY DecisionDomains DEF CardSound, CardTypes
<1>1. PICK a \in Approvals, result \in Results(decisions[i].done) :
        /\ a = decisions[i].approval
        /\ IF result = "error" THEN ResolutionFailed(a) ELSE UNCHANGED resolutionById
  BY <1>0 DEF AnswerDecision
<1>2. /\ decisions[i].phase = "served" /\ decisions' = [decisions EXCEPT ![i].phase = "answered"]
      /\ UNCHANGED <<cardSession, cardMounted, pendingApprovals, activeApprovalId, broker>>
  BY DEF AnswerDecision
<1>3. PICK x : x = [decisions[i] EXCEPT !.phase = "answered"] OBVIOUS
<1>4. /\ x \in Decision /\ x.approval = a /\ x.watched = decisions[i].watched
      /\ x.phase = "answered" /\ x.done = decisions[i].done
  BY <1>0, <1>1, <1>3 DEF Decision
<1>5. decisions' = [decisions EXCEPT ![i] = x] BY <1>0, <1>2, <1>3
<1>6. /\ decisions' \in Seq(Decision) /\ DOMAIN decisions' = DOMAIN decisions
      /\ decisions'[i] = x /\ \A k \in DOMAIN decisions : k # i => decisions'[k] = decisions[k]
      /\ \A b : Forgotten(b)' <=> Forgotten(b)
  BY <1>0, <1>1, <1>4, <1>5, DecisionChanges
<1>7. /\ resolutionById' \in [Approvals -> Resolutions]
      /\ \A b \in Approvals : b # a => resolutionById'[b] = resolutionById[b]
      /\ resolutionById'[a] = "resolving" => result # "error" /\ resolutionById[a] = "resolving"
  <2>1. CASE result = "error"
    <3>1. PICK r \in Resolutions : r = IF resolutionById[a] = "none" THEN resolutionById[a] ELSE "error"
      BY <1>0 DEF Resolutions
    <3>2. r # "resolving" BY <3>1
    <3>3. resolutionById' = [resolutionById EXCEPT ![a] = r]
      BY <1>1, <2>1, <3>1, <1>0 DEF ResolutionFailed
    <3> QED BY <1>0, <3>2, <3>3
  <2>2. CASE result # "error" BY <1>0, <1>1, <2>2
  <2> QED BY <2>1, <2>2
<1>8. result # "error" => broker[a] # "pending"
  <2> SUFFICES ASSUME result # "error" PROVE broker[a] # "pending" OBVIOUS
  <2>1. decisions[i].done
    <3> SUFFICES ASSUME ~decisions[i].done PROVE FALSE OBVIOUS
    <3>1. decisions[i].done = FALSE BY <1>0 DEF Decision
    <3> QED BY <1>1, <3>1, ResultsOfRequest
  <2> QED BY <1>1, <2>1 DEF CardSound, DecisionsTrue
<1>9. \A b \in Approvals : Awaited(b)' = Awaited(b) \ {i}
  BY <1>4, <1>6 DEF Awaited
<1>10. CardTypes' BY <1>2, <1>6, <1>7 DEF CardSound, CardTypes
<1>11. CardShown' BY <1>2 DEF CardSound, ApprovalDecided, CardShown, Onscreen, ShownApproval
<1>12. ResolvingIsTrue'
  <2> SUFFICES ASSUME NEW b \in Approvals, resolutionById'[b] = "resolving"
               PROVE  Awaited(b)' # {} \/ broker'[b] # "pending"
    BY DEF ResolvingIsTrue
  <2>1. CASE b = a BY <1>2, <1>7, <1>8, <2>1
  <2>2. CASE b # a
    <3>1. Awaited(b) # {} \/ broker[b] # "pending"
      BY <1>7, <2>2 DEF CardSound, ApprovalDecided, ResolvingIsTrue
    <3>2. i \notin Awaited(b) BY <1>1, <2>2 DEF Awaited
    <3> QED BY <1>2, <1>9, <3>1, <3>2
  <2> QED BY <2>1, <2>2
<1>13. DecidedOnce'
  <2> SUFFICES ASSUME NEW b \in Approvals, NEW j \in Awaited(b)', NEW k \in Awaited(b)', j # k
               PROVE  Forgotten(b)'
    BY DEF DecidedOnce, Forgotten
  <2>1. j \in Awaited(b) /\ k \in Awaited(b) BY <1>9
  <2> QED BY <1>6, <2>1 DEF CardSound, ApprovalDecided, DecidedOnce, Forgotten
<1>14. ASSUME NEW j \in DOMAIN decisions'
       PROVE  /\ decisions'[j].done => broker'[decisions'[j].approval] # "pending"
              /\ broker'[decisions'[j].approval] # "none"
              /\ decisions'[j].phase # "answered" =>
                   resolutionById'[decisions'[j].approval] = "resolving"
                   \/ Forgotten(decisions[j].approval)'
  <2>0. decisions'[j].approval = decisions[j].approval /\ decisions'[j].done = decisions[j].done
    BY <1>1, <1>4, <1>6
  <2>1. CASE j = i BY <1>2, <1>4, <1>6, <2>0, <2>1 DEF CardSound, DecisionsTrue
  <2>2. CASE j # i /\ decisions[j].approval # a
    <3>1. decisions'[j] = decisions[j] /\ decisions[j].approval \in Approvals BY <1>0, <1>6, <2>2
    <3>2. Forgotten(decisions[j].approval) => Forgotten(decisions[j].approval)'
      <4>1. PICK b : b = decisions[j].approval OBVIOUS
      <4>2. decisions'[j].approval = b BY <2>0, <4>1
      <4> QED BY <1>6, <4>1, <4>2
    <3> QED BY <1>2, <1>6, <1>7, <2>2, <3>1, <3>2 DEF CardSound, DecisionsTrue
  <2>3. CASE j # i /\ decisions[j].approval = a
    <3>1. decisions'[j] = decisions[j] BY <1>6, <2>3
    <3>2. decisions[j].phase # "answered" => Forgotten(a)
      <4> SUFFICES ASSUME decisions[j].phase # "answered" PROVE Forgotten(a) OBVIOUS
      <4>1. i \in Awaited(a) /\ j \in Awaited(a) BY <1>1, <1>2, <1>6, <2>3 DEF Awaited
      <4> QED BY <2>3, <4>1 DEF CardSound, ApprovalDecided, DecidedOnce, Forgotten
    <3>3. decisions[j].phase # "answered" => Forgotten(a)' BY <1>6, <3>2
    <3>4. decisions'[j].approval = a BY <2>3, <3>1
    <3> QED BY <1>2, <1>6, <2>3, <3>1, <3>3, <3>4 DEF CardSound, DecisionsTrue
  <2> QED BY <2>1, <2>2, <2>3
<1>15. \A b \in Approvals : resolutionById'[b] = "resolving" => broker'[b] # "none"
  BY <1>2, <1>7 DEF CardSound, DecisionsTrue
<1>16. DecisionsTrue' BY <1>14, <1>15 DEF DecisionsTrue
<1> QED BY <1>10, <1>11, <1>12, <1>13, <1>16 DEF CardSound, ApprovalDecided

(* The broker decides what is pending, and what is over stays over.        *)
LEMMA BrokerSound ==
  ASSUME CardSound,
         UNCHANGED <<cardSession, cardMounted, pendingApprovals, activeApprovalId, resolutionById>>,
         broker' \in [Approvals -> BrokerStates],
         \A a \in Approvals : broker[a] # "none" =>
           broker'[a] # "none" /\ (broker[a] # "pending" => broker'[a] # "pending"),
         decisions' \in Seq(Decision), DOMAIN decisions' = DOMAIN decisions,
         \A k \in DOMAIN decisions :
           /\ decisions'[k].approval = decisions[k].approval /\ decisions'[k].watched = decisions[k].watched
           /\ decisions'[k].phase = "answered" <=> decisions[k].phase = "answered"
           /\ decisions'[k].done => decisions[k].done \/ broker'[decisions[k].approval] # "pending"
  PROVE  CardSound'
<1>0. \A k \in DOMAIN decisions : decisions[k].approval \in Approvals
  BY DecisionDomains DEF CardSound, CardTypes
<1>1. \A a \in Approvals : Awaited(a)' = Awaited(a) BY DEF Awaited
<1>2. \A a : Forgotten(a)' <=> Forgotten(a) BY DEF Forgotten
<1>3. CardTypes' BY DEF CardSound, CardTypes
<1>4. CardShown' BY DEF CardSound, ApprovalDecided, CardShown, Onscreen, ShownApproval
<1>5. ResolvingIsTrue'
  <2> SUFFICES ASSUME NEW a \in Approvals, resolutionById'[a] = "resolving"
               PROVE  Awaited(a)' # {} \/ broker'[a] # "pending"
    BY DEF ResolvingIsTrue
  <2>1. broker[a] # "none" BY DEF CardSound, DecisionsTrue
  <2> QED BY <1>1, <2>1 DEF CardSound, ApprovalDecided, ResolvingIsTrue
<1>6. DecidedOnce'
  <2> SUFFICES ASSUME NEW a \in Approvals, NEW i \in Awaited(a)', NEW j \in Awaited(a)', i # j
               PROVE  Forgotten(a)'
    BY DEF DecidedOnce, Forgotten
  <2>1. i \in Awaited(a) /\ j \in Awaited(a) BY <1>1
  <2> QED BY <1>2, <2>1 DEF CardSound, ApprovalDecided, DecidedOnce, Forgotten
<1>7. ASSUME NEW k \in DOMAIN decisions'
      PROVE  /\ decisions'[k].done => broker'[decisions'[k].approval] # "pending"
             /\ broker'[decisions'[k].approval] # "none"
             /\ decisions'[k].phase # "answered" =>
                  resolutionById'[decisions'[k].approval] = "resolving"
                  \/ Forgotten(decisions[k].approval)'
  <2>1. PICK a \in Approvals : a = decisions[k].approval /\ decisions'[k].approval = a BY <1>0
  <2>2. broker[a] # "none" /\ (decisions[k].done => broker[a] # "pending")
    BY <2>1 DEF CardSound, DecisionsTrue
  <2>3. decisions[k].phase # "answered" => resolutionById[a] = "resolving" \/ Forgotten(a)
    BY <2>1 DEF CardSound, DecisionsTrue
  <2> QED BY <1>2, <2>1, <2>2, <2>3
<1>8. \A a \in Approvals : resolutionById'[a] = "resolving" => broker'[a] # "none"
  BY DEF CardSound, DecisionsTrue
<1>9. DecisionsTrue' BY <1>7, <1>8 DEF DecisionsTrue
<1> QED BY <1>3, <1>4, <1>5, <1>6, <1>9 DEF CardSound, ApprovalDecided

(* The card tells the truth of an approval that is being decided, does not *)
(* have it decided twice, and always shows one that can be decided.        *)
THEOREM CardDecides == CardSpec => []ApprovalDecided
<1>1. CardInit => CardSound
  <2> SUFFICES ASSUME CardInit PROVE CardSound OBVIOUS
  <2>1. /\ cardSession \in CardSessions /\ cardMounted = TRUE /\ pendingApprovals = {}
        /\ activeApprovalId = 0 /\ activeApprovalId \in 0 .. MaxApprovals
    BY ApprovalCardAssumption DEF CardInit
  <2>2. /\ \A a \in Approvals : resolutionById[a] = "none" /\ broker[a] = "none"
        /\ resolutionById \in [Approvals -> Resolutions] /\ broker \in [Approvals -> BrokerStates]
    BY DEF CardInit, NoResolutions, Resolutions, BrokerStates
  <2>3. decisions \in Seq(Decision) /\ DOMAIN decisions = {}
    <3>1. decisions = <<>> BY DEF CardInit
    <3> QED BY <3>1, EmptySeq
  <2>4. CardTypes BY <2>1, <2>2, <2>3 DEF CardTypes
  <2>5. ~Onscreen BY <2>1 DEF Onscreen, Selected
  <2>6. \A a : Awaited(a) = {} BY <2>3 DEF Awaited
  <2>7. ApprovalDecided
    BY <2>2, <2>5, <2>6 DEF ApprovalDecided, ResolvingIsTrue, DecidedOnce, CardShown
  <2> QED BY <2>2, <2>3, <2>4, <2>7 DEF CardSound, DecisionsTrue
<1>2. CardSound /\ [CardNext]_cardVars => CardSound'
  <2> SUFFICES ASSUME CardSound, [CardNext]_cardVars PROVE CardSound' OBVIOUS
  <2>0. /\ decisions \in Seq(Decision) /\ pendingApprovals \in SUBSET Approvals
        /\ cardSession \in CardSessions /\ broker \in [Approvals -> BrokerStates]
        /\ \A a \in pendingApprovals : broker[a] # "none"
        /\ DOMAIN decisions = 1 .. Len(decisions) /\ Len(decisions) \in Nat
        /\ \A i \in DOMAIN decisions : decisions[i] \in Decision /\ decisions[i].approval \in Approvals
        /\ cardMounted \in BOOLEAN
    BY DecisionDomains DEF CardSound, CardTypes
  <2>1. ASSUME NEW a \in Approvals, ListApproval(a) \/ DropApproval(a) PROVE CardSound'
    <3>1. PICK approvals \in SUBSET Approvals :
            /\ approvals = pendingApprovals' /\ \A b \in approvals : broker[b] # "none"
      BY <2>0, <2>1 DEF ListApproval, DropApproval
    <3>2. /\ Rerender(cardSession, approvals)
          /\ UNCHANGED <<cardSession, cardMounted, broker>>
      BY <2>1, <3>1 DEF ListApproval, DropApproval
    <3>3. \/ cardMounted' = TRUE /\ Refreshed(cardSession, approvals)
          \/ cardMounted' = FALSE /\ UNCHANGED <<activeApprovalId, resolutionById, decisions>>
      BY <2>0, <3>2 DEF Rerender
    <3>4. PICK s \in CardSessions : s = cardSession BY <2>0
    <3>5. cardSession' = s /\ pendingApprovals' = approvals /\ broker' = broker
          /\ (\/ cardMounted' = TRUE /\ Refreshed(s, approvals)
              \/ cardMounted' = FALSE /\ UNCHANGED <<activeApprovalId, resolutionById, decisions>>)
      BY <3>1, <3>2, <3>3, <3>4
    <3> QED BY <3>1, <3>5, CardRenders
  <2>2. ASSUME NEW s \in CardSessions, ShowCard(s) PROVE CardSound'
    <3>1. PICK approvals \in SUBSET Approvals : approvals = pendingApprovals BY <2>0
    <3>2. cardSession' = s /\ pendingApprovals' = approvals /\ broker' = broker
          /\ (\/ cardMounted' = TRUE /\ Refreshed(s, approvals)
              \/ cardMounted' = FALSE /\ UNCHANGED <<activeApprovalId, resolutionById, decisions>>)
      BY <2>0, <2>2, <3>1 DEF ShowCard, Rerender
    <3> QED BY <2>0, <3>1, <3>2, CardRenders
  <2>3. CASE HideCard BY <2>3, HideSound
  <2>4. CASE MountCard
    <3>1. PICK approvals \in SUBSET Approvals, s \in CardSessions :
            approvals = pendingApprovals /\ s = cardSession
      BY <2>0
    <3>2. cardSession' = s /\ pendingApprovals' = approvals /\ broker' = broker
          /\ cardMounted' = TRUE /\ Refreshed(s, approvals)
      BY <2>4, <3>1 DEF MountCard
    <3> QED BY <2>0, <3>1, <3>2, CardRenders
  <2>5. ASSUME NEW a \in Approvals, TurnTo(a) PROVE CardSound' BY <2>5, UserSound
  <2>6. ASSUME NEW approved \in BOOLEAN, Decide(approved) PROVE CardSound' BY <2>6, UserSound
  <2>7. ASSUME NEW i \in DOMAIN decisions, AnswerDecision(i) PROVE CardSound'
    BY <2>7, AnswerDecisionSound
  <2>8. ASSUME NEW a \in Approvals, CancelApproval(a) PROVE CardSound'
    <3>1. /\ broker[a] = "pending" /\ broker' = [broker EXCEPT ![a] = "cancelled"]
          /\ UNCHANGED <<cardSession, cardMounted, pendingApprovals, activeApprovalId, resolutionById, decisions>>
      BY <2>8 DEF CancelApproval
    <3>2. broker' \in [Approvals -> BrokerStates]
          /\ \A b \in Approvals : broker[b] # "none" =>
               broker'[b] # "none" /\ (broker[b] # "pending" => broker'[b] # "pending")
      BY <2>0, <3>1 DEF BrokerStates
    <3> QED BY <2>0, <3>1, <3>2, BrokerSound
  <2>9. ASSUME NEW a \in Approvals, AskApproval(a) PROVE CardSound'
    <3>1. /\ broker[a] = "none" /\ broker' = [broker EXCEPT ![a] = "pending"]
          /\ UNCHANGED <<cardSession, cardMounted, pendingApprovals, activeApprovalId, resolutionById, decisions>>
      BY <2>9 DEF AskApproval
    <3>2. broker' \in [Approvals -> BrokerStates]
          /\ \A b \in Approvals : broker[b] # "none" =>
               broker'[b] # "none" /\ (broker[b] # "pending" => broker'[b] # "pending")
      BY <2>0, <3>1 DEF BrokerStates
    <3> QED BY <2>0, <3>1, <3>2, BrokerSound
  <2>10. ASSUME NEW i \in DOMAIN decisions, ServeDecision(i) PROVE CardSound'
    <3>1. PICK a \in Approvals : a = decisions[i].approval BY <2>0
    <3>2. PICK d \in BOOLEAN : (broker[a] = "pending") = d
      <4>1. CASE broker[a] = "pending"
        <5>1. (broker[a] = "pending") = TRUE BY <4>1
        <5> QED BY <5>1
      <4>2. CASE broker[a] # "pending"
        <5>1. (broker[a] = "pending") = FALSE BY <4>2
        <5> QED BY <5>1
      <4> QED BY <4>1, <4>2
    <3>3. /\ decisions[i].phase = "posted"
          /\ decisions' = [decisions EXCEPT ![i].phase = "served", ![i].done = d]
          /\ broker' = IF d THEN [broker EXCEPT ![a] = IF decisions[i].approved THEN "approved" ELSE "rejected"]
                       ELSE broker
          /\ UNCHANGED <<cardSession, cardMounted, pendingApprovals, activeApprovalId, resolutionById>>
      BY <2>10, <3>1, <3>2 DEF ServeDecision
    <3>4. PICK x : x = [decisions[i] EXCEPT !.phase = "served", !.done = d] OBVIOUS
    <3>5. /\ x \in Decision /\ x.approval = a /\ x.watched = decisions[i].watched
          /\ x.phase = "served" /\ x.done = d
      BY <2>0, <3>1, <3>4 DEF Decision
    <3>6. decisions' = [decisions EXCEPT ![i] = x] BY <2>0, <3>3, <3>4
    <3>7. /\ decisions' \in Seq(Decision) /\ DOMAIN decisions' = DOMAIN decisions
          /\ decisions'[i] = x /\ \A k \in DOMAIN decisions : k # i => decisions'[k] = decisions[k]
      BY <2>0, <3>1, <3>5, <3>6, DecisionChanges
    <3>8. /\ broker' \in [Approvals -> BrokerStates]
          /\ \A b \in Approvals : broker[b] # "none" =>
               broker'[b] # "none" /\ (broker[b] # "pending" => broker'[b] # "pending")
          /\ d => broker'[a] # "pending"
      <4>1. PICK v \in {"approved", "rejected"} :
              v = IF decisions[i].approved THEN "approved" ELSE "rejected"
        OBVIOUS
      <4> QED BY <2>0, <3>3, <4>1 DEF BrokerStates
    <3>9. \A k \in DOMAIN decisions :
            /\ decisions'[k].approval = decisions[k].approval /\ decisions'[k].watched = decisions[k].watched
            /\ decisions'[k].phase = "answered" <=> decisions[k].phase = "answered"
            /\ decisions'[k].done => decisions[k].done \/ broker'[decisions[k].approval] # "pending"
      BY <3>1, <3>3, <3>5, <3>7, <3>8
    <3> QED BY <3>3, <3>7, <3>8, <3>9, BrokerSound
  <2>11. ASSUME NEW i \in DOMAIN decisions, LoseDecision(i) PROVE CardSound'
    <3>1. /\ decisions[i].phase = "posted"
          /\ decisions' = [decisions EXCEPT ![i].phase = "served"]
          /\ UNCHANGED <<cardSession, cardMounted, pendingApprovals, activeApprovalId, resolutionById, broker>>
      BY <2>11 DEF LoseDecision
    <3>2. PICK x : x = [decisions[i] EXCEPT !.phase = "served"] OBVIOUS
    <3>3. /\ x \in Decision /\ x.approval = decisions[i].approval /\ x.watched = decisions[i].watched
          /\ x.phase = "served" /\ x.done = decisions[i].done
      BY <2>0, <3>2 DEF Decision
    <3>4. decisions' = [decisions EXCEPT ![i] = x] BY <2>0, <3>1, <3>2
    <3>5. /\ decisions' \in Seq(Decision) /\ DOMAIN decisions' = DOMAIN decisions
          /\ decisions'[i] = x /\ \A k \in DOMAIN decisions : k # i => decisions'[k] = decisions[k]
      BY <2>0, <3>3, <3>4, DecisionChanges
    <3>6. \A k \in DOMAIN decisions :
            /\ decisions'[k].approval = decisions[k].approval /\ decisions'[k].watched = decisions[k].watched
            /\ decisions'[k].phase = "answered" <=> decisions[k].phase = "answered"
            /\ decisions'[k].done => decisions[k].done
      BY <3>1, <3>3, <3>5
    <3> QED BY <2>0, <3>1, <3>5, <3>6, BrokerSound
  <2>12. CASE UNCHANGED cardVars
    <3>1. UNCHANGED <<cardSession, cardMounted, pendingApprovals, activeApprovalId, resolutionById, decisions, broker>>
      BY <2>12 DEF cardVars
    <3> QED BY <2>0, <3>1, BrokerSound
  <2> QED
    BY <2>1, <2>2, <2>3, <2>4, <2>5, <2>6, <2>7, <2>8, <2>9, <2>10, <2>11, <2>12 DEF CardNext
<1>3. CardSound => ApprovalDecided BY DEF CardSound
<1> QED BY <1>1, <1>2, <1>3, PTL DEF CardSpec

-----------------------------------------------------------------------------
(* The queue strip.  What it shows comes from runtime states, which have   *)
(* the number of items, and from snapshots, which have the items: of each, *)
(* what the page has or what is on its way to it is the server's.          *)

Queues == [items : Seq(Nat), paused : BOOLEAN, version : Nat, made : Nat]
Snapshots == [items : Seq(Nat), count : Nat, paused : BOOLEAN, version : Nat]
StripEvent == [kind : {"runtime_state"}, count : Nat, paused : BOOLEAN, version : Nat]
              \cup [kind : {"follow_up"}]
ClickRecord ==
  [operation : {"remove", "clear", "resume"}, item : Nat, phase : {"posted", "served", "answered"},
   done : BOOLEAN, reply : Snapshots \cup {NoReply}]

StripTypes ==
  /\ queue \in Queues /\ (queue.paused => queue.items # <<>>)
  /\ stripEvents \in Seq(StripEvent) /\ stripState \in Snapshots
  /\ seen \in Nat /\ seen <= queue.version /\ doubt \in Nat /\ doubt <= queue.version
  /\ \/ resync = Idle \/ resync = [phase |-> "asked"]
     \/ \E s \in Snapshots : resync = [phase |-> "read", state |-> s]
  /\ clicks \in Seq(ClickRecord)
  /\ \A i \in DOMAIN clicks :
       /\ clicks[i].phase = "posted" => ~clicks[i].done
       /\ clicks[i].phase = "served" /\ clicks[i].done => clicks[i].reply \in Snapshots

(* The events that wait: the runtime states among them in the order of     *)
(* their versions, up to the queue's own.                                  *)
FollowUpWaits(es) == \E k \in DOMAIN es : es[k].kind = "follow_up"
RuntimeWaits(es, v) == \E k \in DOMAIN es : es[k].kind = "runtime_state" /\ es[k].version = v
EventsTrue(es, q) ==
  /\ \A k \in DOMAIN es : es[k].kind = "runtime_state" =>
       /\ es[k].version <= q.version
       /\ es[k].version = q.version => es[k].count = Len(q.items) /\ es[k].paused = q.paused
       /\ RuntimeWaits(es, q.version)
  /\ \A j, k \in DOMAIN es :
       j < k /\ es[j].kind = "runtime_state" /\ es[k].kind = "runtime_state" => es[j].version < es[k].version

(* The snapshots that are under way.                                       *)
Carries(i, s) == clicks[i].phase = "served" /\ clicks[i].done /\ clicks[i].reply = s
UnderWay(s) ==
  (resync.phase = "read" /\ resync.state = s) \/ \E i \in DOMAIN clicks : Carries(i, s)

(* A read of the state is going to be made.                                *)
ReadDue == resync.phase = "asked" \/ FollowUpWaits(stripEvents)

(* What is newer than version n is known of, or on its way.                *)
KnownOf(n) == doubt > n \/ seen > n
Newer(n) == ReadDue \/ KnownOf(n) \/ \E s \in Snapshots : UnderWay(s) /\ s.version > n

SnapshotsTrue ==
  \A s \in Snapshots : UnderWay(s) =>
    /\ s.version <= queue.version
    /\ s.version = queue.version => s = Snapshot(queue)
    /\ s.items = queue.items \/ Newer(s.version)

ItemsComing ==
  \/ stripState.items = queue.items \/ ReadDue \/ doubt # 0 \/ resync.phase = "read"
  \/ \E s \in Snapshots : UnderWay(s) /\ s.version # 0

StateCurrent == stripState.count = Len(queue.items) /\ stripState.paused = queue.paused
RuntimeComing ==
  RuntimeWaits(stripEvents, queue.version) \/ (seen = queue.version /\ (doubt # 0 \/ StateCurrent))

StripSound ==
  StripTypes /\ EventsTrue(stripEvents, queue) /\ SnapshotsTrue /\ ItemsComing /\ RuntimeComing

(* A snapshot has what the queue has.                                      *)
LEMMA SnapshotOfQueue ==
  ASSUME NEW q \in Queues
  PROVE  /\ Snapshot(q) \in Snapshots /\ Snapshot(q).items = q.items
         /\ Snapshot(q).count = Len(q.items) /\ Snapshot(q).paused = q.paused
         /\ Snapshot(q).version = q.version
<1>1. q.items \in Seq(Nat) /\ q.paused \in BOOLEAN /\ q.version \in Nat BY DEF Queues
<1>2. Len(q.items) \in Nat BY <1>1, LenProperties
<1> QED BY <1>1, <1>2 DEF Snapshot, Snapshots

(* A change of the queue is announced: what waits is true of the new one.  *)
LEMMA RuntimeAnnounced ==
  ASSUME NEW es \in Seq(StripEvent), NEW q \in Queues, NEW q2 \in Queues,
         EventsTrue(es, q), q2.version = q.version + 1, NEW es2, es2 = Append(es, RuntimeState(q2))
  PROVE  /\ es2 \in Seq(StripEvent) /\ EventsTrue(es2, q2) /\ RuntimeWaits(es2, q2.version)
         /\ FollowUpWaits(es) => FollowUpWaits(es2)
<1>1. PICK e : e = RuntimeState(q2) OBVIOUS
<1>2. q.version \in Nat /\ q2.version \in Nat /\ q2.items \in Seq(Nat) /\ Len(q2.items) \in Nat
      /\ q2.paused \in BOOLEAN
  BY LenProperties DEF Queues
<1>3. /\ e \in StripEvent /\ e.kind = "runtime_state" /\ e.version = q2.version
      /\ e.count = Len(q2.items) /\ e.paused = q2.paused
  BY <1>1, <1>2 DEF RuntimeState, StripEvent
<1>4. Len(es) \in Nat /\ DOMAIN es = 1 .. Len(es) /\ \A k \in DOMAIN es : es[k] \in StripEvent
  BY LenProperties, ElementOfSeq
<1>5. PICK n \in Nat : n = Len(es) + 1 BY <1>4
<1>6. /\ es2 \in Seq(StripEvent) /\ Len(es2) = n
      /\ es2[n] = e /\ \A k \in DOMAIN es : es2[k] = es[k]
  BY <1>1, <1>3, <1>4, <1>5, AppendProperties
<1>7. DOMAIN es2 = 1 .. n BY <1>6, LenProperties
<1>8. DOMAIN es2 = DOMAIN es \cup {n} /\ n \notin DOMAIN es /\ \A k \in DOMAIN es : k < n
  BY <1>4, <1>5, <1>7
<1>9. RuntimeWaits(es2, q2.version) BY <1>3, <1>6, <1>8 DEF RuntimeWaits
<1>10. \A k \in DOMAIN es : es[k].kind = "runtime_state" =>
         es[k].version \in Nat /\ es[k].version <= q.version /\ es[k].version < q2.version
  <2> TAKE k \in DOMAIN es
  <2> HAVE es[k].kind = "runtime_state"
  <2>1. es[k].version \in Nat BY <1>4 DEF StripEvent
  <2>2. es[k].version <= q.version BY DEF EventsTrue
  <2> QED BY <1>2, <2>1, <2>2
<1>11. \A k \in DOMAIN es2 : es2[k].kind = "runtime_state" =>
         /\ es2[k].version <= q2.version
         /\ es2[k].version = q2.version => es2[k].count = Len(q2.items) /\ es2[k].paused = q2.paused
         /\ RuntimeWaits(es2, q2.version)
  <2> TAKE k \in DOMAIN es2
  <2> HAVE es2[k].kind = "runtime_state"
  <2>1. CASE k = n BY <1>2, <1>3, <1>6, <1>9, <2>1
  <2>2. CASE k \in DOMAIN es BY <1>2, <1>6, <1>9, <1>10, <2>2
  <2> QED BY <1>8, <2>1, <2>2
<1>12. ASSUME NEW j \in DOMAIN es2, NEW k \in DOMAIN es2,
              j < k, es2[j].kind = "runtime_state", es2[k].kind = "runtime_state"
       PROVE  es2[j].version < es2[k].version
  <2>1. j \in DOMAIN es BY <1>4, <1>5, <1>7, <1>12
  <2>2. CASE k = n BY <1>3, <1>6, <1>10, <1>12, <2>1, <2>2
  <2>3. CASE k \in DOMAIN es BY <1>6, <1>12, <2>1, <2>3 DEF EventsTrue
  <2> QED BY <1>8, <2>2, <2>3
<1>13. EventsTrue(es2, q2) BY <1>11, <1>12 DEF EventsTrue
<1>14. FollowUpWaits(es) => FollowUpWaits(es2) BY <1>6, <1>8 DEF FollowUpWaits
<1> QED BY <1>6, <1>9, <1>13, <1>14

(* A follow-up is announced beside it.                                     *)
LEMMA FollowUpAnnounced ==
  ASSUME NEW es \in Seq(StripEvent), NEW q \in Queues,
         EventsTrue(es, q), NEW es2, es2 = Append(es, FollowUp)
  PROVE  /\ es2 \in Seq(StripEvent) /\ EventsTrue(es2, q) /\ FollowUpWaits(es2)
         /\ RuntimeWaits(es, q.version) => RuntimeWaits(es2, q.version)
<1>1. FollowUp \in StripEvent /\ FollowUp.kind = "follow_up" BY DEF FollowUp, StripEvent
<1>2. Len(es) \in Nat /\ DOMAIN es = 1 .. Len(es) BY LenProperties
<1>3. PICK n \in Nat : n = Len(es) + 1 BY <1>2
<1>4. /\ es2 \in Seq(StripEvent) /\ Len(es2) = n
      /\ es2[n] = FollowUp /\ \A k \in DOMAIN es : es2[k] = es[k]
  BY <1>1, <1>2, <1>3, AppendProperties
<1>5. DOMAIN es2 = 1 .. n BY <1>4, LenProperties
<1>6. DOMAIN es2 = DOMAIN es \cup {n} BY <1>2, <1>3, <1>5
<1>7. \A v : RuntimeWaits(es, v) => RuntimeWaits(es2, v) BY <1>4, <1>6 DEF RuntimeWaits
<1>8. \A k \in DOMAIN es2 : es2[k].kind = "runtime_state" => k \in DOMAIN es /\ es2[k] = es[k]
  BY <1>1, <1>4, <1>6
<1>9. EventsTrue(es2, q) BY <1>7, <1>8 DEF EventsTrue
<1>10. FollowUpWaits(es2) BY <1>1, <1>4, <1>6 DEF FollowUpWaits
<1> QED BY <1>4, <1>7, <1>9, <1>10

(* Events published together are published one after the other.            *)
LEMMA EventsTogether ==
  ASSUME NEW es \in Seq(StripEvent), NEW a \in StripEvent, NEW b \in StripEvent, NEW c \in StripEvent
  PROVE  /\ es \o <<a, b>> = Append(Append(es, a), b)
         /\ es \o <<a, b, c>> = Append(Append(Append(es, a), b), c)
<1>1. /\ <<a>> \in Seq(StripEvent) /\ <<b>> \in Seq(StripEvent) /\ <<c>> \in Seq(StripEvent)
      /\ <<a, b>> \in Seq(StripEvent)
  OBVIOUS
<1>2. Append(es, a) \in Seq(StripEvent) /\ Append(Append(es, a), b) \in Seq(StripEvent)
  BY AppendProperties
<1>3. Append(es, a) = es \o <<a>> /\ Append(Append(es, a), b) = Append(es, a) \o <<b>>
      /\ Append(Append(Append(es, a), b), c) = Append(Append(es, a), b) \o <<c>>
  BY <1>2, AppendIsConcat
<1>4. <<a>> \o <<b>> = <<a, b>> /\ <<a, b>> \o <<c>> = <<a, b, c>>
  <2>1. Append(<<a>>, b) = <<a>> \o <<b>> /\ Append(<<a, b>>, c) = <<a, b>> \o <<c>>
    BY <1>1, AppendIsConcat
  <2>2. Append(<<a>>, b) = <<a, b>>
    <3>1. PICK s : s = Append(<<a>>, b) OBVIOUS
    <3>2. PICK t : t = <<a, b>> OBVIOUS
    <3>3. t \in Seq(StripEvent) /\ Len(t) = 2 /\ t[1] = a /\ t[2] = b BY <3>2
    <3>4. PICK u : u = <<a>> OBVIOUS
    <3>5. u \in Seq(StripEvent) /\ Len(u) = 1 /\ u[1] = a BY <3>4
    <3>6. s \in Seq(StripEvent) /\ Len(s) = 2 /\ s[2] = b /\ \A i \in 1 .. 1 : s[i] = u[i]
      BY <3>1, <3>4, <3>5, AppendProperties
    <3>7. \A i \in 1 .. 2 : s[i] = t[i]
      <4>1. \A i \in 1 .. 2 : i = 1 \/ i = 2 OBVIOUS
      <4> QED BY <3>3, <3>5, <3>6, <4>1
    <3>8. s = t BY <3>3, <3>6, <3>7, SeqEqual
    <3> QED BY <3>1, <3>2, <3>8
  <2>3. Append(<<a, b>>, c) = <<a, b, c>>
    <3>1. PICK s : s = Append(<<a, b>>, c) OBVIOUS
    <3>2. PICK t : t = <<a, b, c>> OBVIOUS
    <3>3. t \in Seq(StripEvent) /\ Len(t) = 3 /\ t[1] = a /\ t[2] = b /\ t[3] = c BY <3>2
    <3>4. PICK u : u = <<a, b>> OBVIOUS
    <3>5. u \in Seq(StripEvent) /\ Len(u) = 2 /\ u[1] = a /\ u[2] = b BY <3>4
    <3>6. s \in Seq(StripEvent) /\ Len(s) = 3 /\ s[3] = c /\ \A i \in 1 .. 2 : s[i] = u[i]
      BY <3>1, <3>4, <3>5, AppendProperties
    <3>7. \A i \in 1 .. 3 : s[i] = t[i]
      <4>1. \A i \in 1 .. 3 : i = 1 \/ i = 2 \/ i = 3 OBVIOUS
      <4> QED BY <3>3, <3>5, <3>6, <4>1
    <3>8. s = t BY <3>3, <3>6, <3>7, SeqEqual
    <3> QED BY <3>1, <3>2, <3>8
  <2> QED BY <2>1, <2>2, <2>3
<1>5. (es \o <<a>>) \o <<b>> = es \o (<<a>> \o <<b>>) BY <1>1, ConcatAssociative
<1>6. (es \o <<a, b>>) \o <<c>> = es \o (<<a, b>> \o <<c>>) BY <1>1, ConcatAssociative
<1> QED BY <1>3, <1>4, <1>5, <1>6

(* The first event is handled: what waits after it is still in order, and  *)
(* it was the newest runtime state only if no other waits.                 *)
LEMMA EventTaken ==
  ASSUME NEW es \in Seq(StripEvent), NEW q \in Queues, EventsTrue(es, q), es # <<>>
  PROVE  /\ Head(es) \in StripEvent /\ Tail(es) \in Seq(StripEvent) /\ EventsTrue(Tail(es), q)
         /\ FollowUpWaits(es) => Head(es).kind = "follow_up" \/ FollowUpWaits(Tail(es))
         /\ Head(es).kind = "follow_up" /\ RuntimeWaits(es, q.version) => RuntimeWaits(Tail(es), q.version)
         /\ Head(es).kind = "runtime_state" =>
              /\ Head(es).version <= q.version
              /\ \/ RuntimeWaits(Tail(es), q.version)
                 \/ /\ Head(es).version = q.version /\ Head(es).count = Len(q.items)
                    /\ Head(es).paused = q.paused
<1>1. /\ Len(es) \in Nat /\ DOMAIN es = 1 .. Len(es) /\ Len(es) # 0
      /\ \A k \in DOMAIN es : es[k] \in StripEvent
  BY LenProperties, ElementOfSeq, EmptySeq
<1>2. PICK h, t : h = Head(es) /\ t = Tail(es) OBVIOUS
<1>3. /\ h \in StripEvent /\ t \in Seq(StripEvent) /\ Len(t) = Len(es) - 1
      /\ \A k \in 1 .. Len(t) : t[k] = es[k + 1]
  BY <1>2, HeadTailProperties
<1>4. DOMAIN t = 1 .. Len(t) /\ Len(t) \in Nat BY <1>3, LenProperties
<1>5. h = es[1] /\ 1 \in DOMAIN es BY <1>1, <1>2
<1>6. \A k \in DOMAIN t : k + 1 \in DOMAIN es /\ t[k] = es[k + 1] /\ k + 1 # 1 /\ k \in Nat
  BY <1>1, <1>3, <1>4
<1>7. ASSUME NEW k \in DOMAIN es, k # 1 PROVE \E m \in DOMAIN t : k = m + 1 /\ t[m] = es[k]
  <2>1. k - 1 \in DOMAIN t BY <1>1, <1>3, <1>4, <1>7
  <2> QED BY <1>1, <1>6, <2>1
<1>8. FollowUpWaits(es) => h.kind = "follow_up" \/ FollowUpWaits(t)
  BY <1>5, <1>7 DEF FollowUpWaits
<1>9. \A v : RuntimeWaits(es, v) => (h.kind = "runtime_state" /\ h.version = v) \/ RuntimeWaits(t, v)
  BY <1>5, <1>7 DEF RuntimeWaits
<1>10. q.version \in Nat BY DEF Queues
<1>11. ASSUME NEW k \in DOMAIN t, t[k].kind = "runtime_state" PROVE RuntimeWaits(t, q.version)
  <2>1. k + 1 \in DOMAIN es /\ es[k + 1].kind = "runtime_state" /\ 1 < k + 1
        /\ es[k + 1].version \in Nat
    <3>1. k + 1 \in DOMAIN es /\ es[k + 1].kind = "runtime_state" /\ 1 < k + 1
      BY <1>4, <1>6, <1>11
    <3>2. es[k + 1] \in StripEvent BY <1>1, <3>1
    <3> QED BY <3>1, <3>2 DEF StripEvent
  <2>2. RuntimeWaits(es, q.version) /\ es[k + 1].version <= q.version
    BY <2>1 DEF EventsTrue
  <2>3. ~(h.kind = "runtime_state" /\ h.version = q.version)
    <3> SUFFICES ASSUME h.kind = "runtime_state", h.version = q.version PROVE FALSE OBVIOUS
    <3>1. es[1].version < es[k + 1].version BY <1>5, <2>1 DEF EventsTrue
    <3> QED BY <1>5, <1>10, <2>1, <2>2, <3>1
  <2> QED BY <1>9, <2>2, <2>3
<1>12. ASSUME NEW j \in DOMAIN t, NEW k \in DOMAIN t, j < k,
              t[j].kind = "runtime_state", t[k].kind = "runtime_state"
       PROVE  t[j].version < t[k].version
  <2>1. j + 1 < k + 1 BY <1>6, <1>12
  <2> QED BY <1>6, <1>12, <2>1 DEF EventsTrue
<1>13. EventsTrue(t, q) BY <1>6, <1>11, <1>12 DEF EventsTrue
<1>14. h.kind = "runtime_state" =>
         /\ h.version <= q.version
         /\ \/ RuntimeWaits(t, q.version)
            \/ h.version = q.version /\ h.count = Len(q.items) /\ h.paused = q.paused
  <2> HAVE h.kind = "runtime_state"
  <2>1. h.version <= q.version /\ RuntimeWaits(es, q.version)
        /\ (h.version = q.version => h.count = Len(q.items) /\ h.paused = q.paused)
    BY <1>5 DEF EventsTrue
  <2> QED BY <1>9, <2>1
<1>15. h.kind = "follow_up" /\ RuntimeWaits(es, q.version) => RuntimeWaits(t, q.version)
  BY <1>9
<1> QED BY <1>2, <1>3, <1>8, <1>13, <1>14, <1>15

(* What was known of or on its way still is, when a change of the server's *)
(* queue is announced and this page's requests go on.                      *)
LEMMA ServerChanges ==
  ASSUME StripSound, NEW q \in Queues, NEW es \in Seq(StripEvent), NEW N \in SUBSET Snapshots,
         queue' = q, stripEvents' = es, q.paused => q.items # <<>>,
         queue.version < q.version, EventsTrue(es, q), RuntimeWaits(es, q.version),
         FollowUpWaits(stripEvents) => FollowUpWaits(es),
         UNCHANGED <<stripState, seen, resync>>,
         doubt' \in {doubt, q.version}, clicks' \in Seq(ClickRecord),
         \A i \in DOMAIN clicks' :
           /\ clicks'[i].phase = "posted" => ~clicks'[i].done
           /\ clicks'[i].phase = "served" /\ clicks'[i].done => clicks'[i].reply \in Snapshots,
         N \subseteq {Snapshot(q)},
         \A s \in Snapshots : UnderWay(s)' <=> UnderWay(s) \/ s \in N,
         q.items = queue.items \/ FollowUpWaits(es) \/ doubt' = q.version \/ N # {}
  PROVE  StripSound'
<1>1. queue.version \in Nat /\ q.version \in Nat /\ q.version # 0 /\ queue \in Queues
  BY DEF StripSound, StripTypes, Queues
<1>2. StripTypes' BY <1>1 DEF StripSound, StripTypes
<1>3. ReadDue => ReadDue' BY DEF ReadDue
<1>4. \A n \in Nat : n <= queue.version /\ KnownOf(n) => KnownOf(n)'
  BY <1>1 DEF KnownOf, StripSound, StripTypes
<1>5. \A s \in N : s.version = q.version /\ s.items = q.items
  BY SnapshotOfQueue
<1>6. ASSUME NEW n \in Nat, n <= queue.version, Newer(n) PROVE Newer(n)'
  BY <1>3, <1>4, <1>6 DEF Newer
<1>7. ASSUME NEW n \in Nat, n <= queue.version, q.items # queue.items PROVE Newer(n)'
  <2>1. CASE FollowUpWaits(es) BY <2>1 DEF Newer, ReadDue
  <2>2. CASE doubt' = q.version BY <1>1, <1>7, <2>2 DEF Newer, KnownOf
  <2>3. CASE N # {}
    <3>1. PICK s \in N : TRUE BY <2>3
    <3>2. s \in Snapshots /\ UnderWay(s)' /\ s.version > n BY <1>1, <1>5, <1>7, <3>1
    <3> QED BY <3>2 DEF Newer
  <2> QED BY <1>7, <2>1, <2>2, <2>3
<1>8. SnapshotsTrue'
  <2> SUFFICES ASSUME NEW s \in Snapshots, UnderWay(s)'
               PROVE  /\ s.version <= q.version
                      /\ s.version = q.version => s = Snapshot(q)
                      /\ s.items = q.items \/ Newer(s.version)'
    BY DEF SnapshotsTrue
  <2>1. CASE s \in N BY <1>1, <1>5, <2>1
  <2>2. CASE UnderWay(s)
    <3>1. s.version \in Nat BY DEF Snapshots
    <3>2. s.version <= queue.version /\ (s.items = queue.items \/ Newer(s.version))
      BY <2>2 DEF StripSound, SnapshotsTrue
    <3>3. s.version < q.version BY <1>1, <3>1, <3>2
    <3>4. PICK n \in Nat : n = s.version BY <3>1
    <3>5. s.items = q.items \/ Newer(n)' BY <1>6, <1>7, <3>2, <3>4
    <3> QED BY <1>1, <3>1, <3>3, <3>4, <3>5
  <2> QED BY <2>1, <2>2
<1>9. ItemsComing'
  <2>1. CASE stripState.items = queue.items /\ q.items = queue.items BY <2>1 DEF ItemsComing
  <2>2. CASE ReadDue BY <1>3, <2>2 DEF ItemsComing
  <2>3. CASE doubt # 0 BY <1>1, <2>3 DEF ItemsComing
  <2>4. CASE resync.phase = "read" BY <2>4 DEF ItemsComing
  <2>5. CASE \E s \in Snapshots : UnderWay(s) /\ s.version # 0 BY <2>5 DEF ItemsComing
  <2>6. CASE FollowUpWaits(es) BY <2>6 DEF ItemsComing, ReadDue
  <2>7. CASE doubt' = q.version BY <1>1, <2>7 DEF ItemsComing
  <2>8. CASE N # {}
    <3>1. PICK s \in N : TRUE BY <2>8
    <3>2. s \in Snapshots /\ UnderWay(s)' /\ s.version # 0 BY <1>1, <1>5, <3>1
    <3> QED BY <3>2 DEF ItemsComing
  <2> QED BY <2>1, <2>2, <2>3, <2>4, <2>5, <2>6, <2>7, <2>8 DEF StripSound, ItemsComing
<1>10. RuntimeComing' BY DEF RuntimeComing
<1> QED BY <1>2, <1>8, <1>9, <1>10 DEF StripSound

(* What is left of a sequence without one of its elements.                 *)
LEMMA RemoveAtSeq ==
  ASSUME NEW S, NEW s \in Seq(S), NEW k \in DOMAIN s
  PROVE  RemoveAt(s, k) \in Seq(S)
<1>1. Len(s) \in Nat /\ DOMAIN s = 1 .. Len(s) /\ \A i \in DOMAIN s : s[i] \in S
  BY LenProperties, ElementOfSeq
<1>2. k \in 1 .. Len(s) BY <1>1
<1>3. SubSeq(s, 1, k - 1) \in Seq(S)
  <2>1. k - 1 \in Int /\ \A i \in 1 .. k - 1 : s[i] \in S BY <1>1, <1>2
  <2> QED BY <2>1, SubSeqProperties
<1>4. SubSeq(s, k + 1, Len(s)) \in Seq(S)
  <2>1. k + 1 \in Int /\ Len(s) \in Int /\ \A i \in k + 1 .. Len(s) : s[i] \in S BY <1>1, <1>2
  <2> QED BY <2>1, SubSeqProperties
<1> QED BY <1>3, <1>4, ConcatProperties DEF RemoveAt

(* The queue after a change of its items or of its pause.                  *)
LEMMA ChangedQueue ==
  ASSUME queue \in Queues, NEW items \in Seq(Nat), NEW paused \in BOOLEAN, NEW made \in Nat
  PROVE  /\ Changed(items, paused) \in Queues /\ Changed(items, paused).items = items
         /\ Changed(items, paused).version = queue.version + 1
         /\ Changed(items, paused).paused => items # <<>> /\ paused
         /\ [Changed(items, paused) EXCEPT !.made = made] \in Queues
         /\ [Changed(items, paused) EXCEPT !.made = made].items = items
         /\ [Changed(items, paused) EXCEPT !.made = made].version = queue.version + 1
         /\ [Changed(items, paused) EXCEPT !.made = made].paused => items # <<>>
<1>1. queue.version + 1 \in Nat BY DEF Queues
<1>2. PICK b \in BOOLEAN : b = (paused /\ items # <<>>)
  <2>1. CASE paused /\ items # <<>>
    <3>1. (paused /\ items # <<>>) = TRUE BY <2>1
    <3> QED BY <3>1
  <2>2. CASE ~(paused /\ items # <<>>)
    <3>1. (paused /\ items # <<>>) = FALSE BY <2>2
    <3> QED BY <3>1
  <2> QED BY <2>1, <2>2
<1>3. PICK q : q = [queue EXCEPT !.items = items, !.paused = b, !.version = queue.version + 1] OBVIOUS
<1>4. q = Changed(items, paused) BY <1>2, <1>3 DEF Changed, Queues
<1>5. q \in Queues /\ q.items = items /\ q.version = queue.version + 1 /\ q.paused = b
  BY <1>1, <1>3 DEF Queues
<1>6. /\ [q EXCEPT !.made = made] \in Queues /\ [q EXCEPT !.made = made].items = items
      /\ [q EXCEPT !.made = made].version = queue.version + 1 /\ [q EXCEPT !.made = made].paused = b
  BY <1>5 DEF Queues
<1>7. b => paused /\ items # <<>> BY <1>2
<1> QED BY <1>4, <1>5, <1>6, <1>7

(* The queue after its first item was promoted.                            *)
LEMMA PromotedQueue ==
  ASSUME NEW q \in Queues, q.items # <<>>, ~q.paused
  PROVE  /\ Promoted(q) \in Queues /\ Promoted(q).version = q.version + 1 /\ ~Promoted(q).paused
<1>1. PICK t \in Seq(Nat) : t = Tail(q.items) BY HeadTailProperties DEF Queues
<1>2. PICK v \in Nat : v = q.version + 1 BY DEF Queues
<1>3. PICK p : p = [q EXCEPT !.items = t, !.version = v] OBVIOUS
<1>4. p \in Queues /\ p.version = v /\ p.paused = q.paused BY <1>3 DEF Queues
<1>5. p = Promoted(q) BY <1>1, <1>2, <1>3 DEF Promoted, Queues
<1> QED BY <1>2, <1>4, <1>5

(* What the server does of its own or for another page.                    *)
LEMMA ServerStep ==
  ASSUME StripSound, SubmitItem \/ PromoteItem \/ PauseItems \/ RemoveElsewhere
  PROVE  StripSound'
<1>0. /\ queue \in Queues /\ (queue.paused => queue.items # <<>>)
      /\ queue.items \in Seq(Nat) /\ queue.paused \in BOOLEAN /\ queue.version \in Nat /\ queue.made \in Nat
      /\ stripEvents \in Seq(StripEvent) /\ EventsTrue(stripEvents, queue)
      /\ clicks \in Seq(ClickRecord)
      /\ \A i \in DOMAIN clicks :
           /\ clicks[i].phase = "posted" => ~clicks[i].done
           /\ clicks[i].phase = "served" /\ clicks[i].done => clicks[i].reply \in Snapshots
  BY DEF StripSound, StripTypes, Queues
<1>1. /\ UNCHANGED <<stripState, seen, resync, clicks>>
      /\ doubt' = doubt \/ RemoveElsewhere
  BY DEF SubmitItem, PromoteItem, PauseItems, RemoveElsewhere
<1>2. \A s \in Snapshots : UnderWay(s)' <=> UnderWay(s) \/ s \in {}
  BY <1>1 DEF UnderWay, Carries
<1>3. ASSUME NEW q \in Queues, q.version = queue.version + 1, q.paused => q.items # <<>>,
             PublishMore(q), doubt' = doubt
      PROVE  StripSound'
  <2>1. PICK es : es = Append(stripEvents, RuntimeState(q)) OBVIOUS
  <2>2. /\ es \in Seq(StripEvent) /\ EventsTrue(es, q) /\ RuntimeWaits(es, q.version)
    BY <1>0, <1>3, <2>1, RuntimeAnnounced
  <2>3. PICK es2 : es2 = Append(es, FollowUp) OBVIOUS
  <2>4. /\ es2 \in Seq(StripEvent) /\ EventsTrue(es2, q) /\ FollowUpWaits(es2)
        /\ RuntimeWaits(es2, q.version)
    BY <1>3, <2>2, <2>3, FollowUpAnnounced
  <2>5. RuntimeState(q) \in StripEvent /\ FollowUp \in StripEvent
    <3>1. q.items \in Seq(Nat) /\ q.paused \in BOOLEAN /\ q.version \in Nat /\ Len(q.items) \in Nat
      BY LenProperties DEF Queues
    <3> QED BY <3>1 DEF RuntimeState, FollowUp, StripEvent
  <2>6. queue' = q /\ stripEvents' = es2
    BY <1>0, <1>3, <2>1, <2>3, <2>5, EventsTogether DEF PublishMore
  <2>7. queue.version < q.version BY <1>0, <1>3
  <2> QED BY <1>0, <1>1, <1>2, <1>3, <2>4, <2>6, <2>7, ServerChanges
<1>4. ASSUME NEW q \in Queues, q.version = queue.version + 1, q.paused => q.items # <<>>,
             Publish(q), doubt' \in {doubt, q.version}, q.items = queue.items \/ doubt' = q.version
      PROVE  StripSound'
  <2>1. PICK es : es = Append(stripEvents, RuntimeState(q)) OBVIOUS
  <2>2. /\ es \in Seq(StripEvent) /\ EventsTrue(es, q) /\ RuntimeWaits(es, q.version)
        /\ FollowUpWaits(stripEvents) => FollowUpWaits(es)
    BY <1>0, <1>4, <2>1, RuntimeAnnounced
  <2>3. queue' = q /\ stripEvents' = es BY <1>4, <2>1 DEF Publish
  <2>4. queue.version < q.version BY <1>0, <1>4
  <2> QED BY <1>0, <1>1, <1>2, <1>4, <2>2, <2>3, <2>4, ServerChanges
<1>5. CASE SubmitItem
  <2>1. PICK m \in Nat : m = queue.made + 1 BY <1>0
  <2>2. PICK items \in Seq(Nat) : items = Append(queue.items, m) BY <1>0, <2>1, AppendProperties
  <2>3. PICK q : q = [Changed(items, queue.paused) EXCEPT !.made = m] OBVIOUS
  <2>4. /\ q \in Queues /\ q.version = queue.version + 1 /\ (q.paused => q.items # <<>>)
        /\ Changed(items, queue.paused).made = queue.made
    BY <1>0, <2>1, <2>2, <2>3, ChangedQueue DEF Changed, Queues
  <2>5. PublishMore(q) /\ doubt' = doubt
    BY <1>5, <2>1, <2>2, <2>3, <2>4 DEF SubmitItem
  <2> QED BY <1>3, <2>4, <2>5
<1>6. CASE PromoteItem
  <2>1. PICK q : q = Promoted(queue) OBVIOUS
  <2>2. q \in Queues /\ q.version = queue.version + 1 /\ ~q.paused
    BY <1>0, <1>6, <2>1, PromotedQueue DEF PromoteItem
  <2>3. PublishMore(q) /\ doubt' = doubt BY <1>6, <2>1 DEF PromoteItem
  <2> QED BY <1>3, <2>2, <2>3
<1>7. CASE PauseItems
  <2>1. PICK q : q = Changed(queue.items, TRUE) OBVIOUS
  <2>2. q \in Queues /\ q.version = queue.version + 1 /\ (q.paused => q.items # <<>>)
        /\ q.items = queue.items
    BY <1>0, <2>1, ChangedQueue
  <2>3. Publish(q) /\ doubt' = doubt BY <1>7, <2>1 DEF PauseItems
  <2> QED BY <1>4, <2>2, <2>3
<1>8. CASE RemoveElsewhere
  <2>1. PICK k \in DOMAIN queue.items : Publish(Changed(RemoveAt(queue.items, k), queue.paused))
    BY <1>8 DEF RemoveElsewhere
  <2>2. PICK items \in Seq(Nat) : items = RemoveAt(queue.items, k) BY <1>0, RemoveAtSeq
  <2>3. PICK q : q = Changed(items, queue.paused) OBVIOUS
  <2>4. q \in Queues /\ q.version = queue.version + 1 /\ (q.paused => q.items # <<>>)
        /\ q.items = items
    BY <1>0, <2>2, <2>3, ChangedQueue
  <2>5. Publish(q) /\ doubt' = q.version BY <1>8, <2>1, <2>2, <2>3, <2>4 DEF RemoveElsewhere
  <2> QED BY <1>4, <2>4, <2>5
<1> QED BY <1>5, <1>6, <1>7, <1>8

(* A request is noted as served or answered.                               *)
LEMMA ClickChanges ==
  ASSUME StripTypes, NEW i \in DOMAIN clicks, NEW x \in ClickRecord,
         x.phase = "posted" => ~x.done,
         x.phase = "served" /\ x.done => x.reply \in Snapshots,
         clicks' = [clicks EXCEPT ![i] = x]
  PROVE  /\ clicks' \in Seq(ClickRecord) /\ DOMAIN clicks' = DOMAIN clicks
         /\ clicks'[i] = x /\ \A k \in DOMAIN clicks : k # i => clicks'[k] = clicks[k]
         /\ \A k \in DOMAIN clicks' :
              /\ clicks'[k].phase = "posted" => ~clicks'[k].done
              /\ clicks'[k].phase = "served" /\ clicks'[k].done => clicks'[k].reply \in Snapshots
<1>0. Len(clicks) \in Nat /\ DOMAIN clicks = 1 .. Len(clicks) /\ clicks \in Seq(ClickRecord)
  BY LenProperties DEF StripTypes
<1>1. clicks' \in Seq(ClickRecord) /\ DOMAIN clicks' = DOMAIN clicks BY <1>0, ExceptSeq
<1>2. clicks'[i] = x /\ \A k \in DOMAIN clicks : k # i => clicks'[k] = clicks[k] BY <1>0
<1> QED BY <1>1, <1>2 DEF StripTypes

(* A step that changes nothing of what is shown, known of or under way.    *)
LEMMA NothingNews ==
  ASSUME StripSound, UNCHANGED <<queue, stripEvents, stripState, seen, doubt, resync>>,
         clicks' \in Seq(ClickRecord),
         \A k \in DOMAIN clicks' :
           /\ clicks'[k].phase = "posted" => ~clicks'[k].done
           /\ clicks'[k].phase = "served" /\ clicks'[k].done => clicks'[k].reply \in Snapshots,
         \A s : UnderWay(s)' <=> UnderWay(s)
  PROVE  StripSound'
<1>1. StripTypes' BY DEF StripSound, StripTypes
<1>2. \A n : Newer(n)' <=> Newer(n) BY DEF Newer, ReadDue, KnownOf
<1>3. SnapshotsTrue'
  <2> SUFFICES ASSUME NEW s \in Snapshots, UnderWay(s)'
               PROVE  /\ s.version <= queue.version
                      /\ s.version = queue.version => s = Snapshot(queue)
                      /\ s.items = queue.items \/ Newer(s.version)'
    BY DEF SnapshotsTrue, Snapshot
  <2>1. PICK n : n = s.version OBVIOUS
  <2>2. s.items = queue.items \/ Newer(n)' BY <1>2, <2>1 DEF StripSound, SnapshotsTrue
  <2> QED BY <2>1, <2>2 DEF StripSound, SnapshotsTrue
<1>4. ItemsComing' BY DEF StripSound, ItemsComing, ReadDue
<1>5. RuntimeComing' BY DEF StripSound, RuntimeComing, StateCurrent
<1>6. EventsTrue(stripEvents, queue)' BY DEF StripSound
<1> QED BY <1>1, <1>3, <1>4, <1>5, <1>6 DEF StripSound

(* What the server does for a request of this page: the reply carries what *)
(* became of the queue.                                                    *)
LEMMA ServeClickSound ==
  ASSUME StripSound, NEW i \in DOMAIN clicks, ServeClick(i)
  PROVE  StripSound'
<1>0. /\ queue \in Queues /\ (queue.paused => queue.items # <<>>)
      /\ queue.items \in Seq(Nat) /\ queue.paused \in BOOLEAN /\ queue.version \in Nat
      /\ stripEvents \in Seq(StripEvent) /\ EventsTrue(stripEvents, queue)
      /\ clicks \in Seq(ClickRecord) /\ StripTypes
      /\ clicks[i] \in ClickRecord
      /\ Len(clicks) \in Nat /\ DOMAIN clicks = 1 .. Len(clicks)
  BY LenProperties, ElementOfSeq DEF StripSound, StripTypes, Queues
<1>1. /\ clicks[i].phase = "posted" /\ ~clicks[i].done
      /\ UNCHANGED <<stripState, seen, doubt, resync>>
  BY <1>0 DEF ServeClick, StripTypes
<1>2. ASSUME NEW q \in Queues, Served(i, q)
      PROVE  /\ clicks' \in Seq(ClickRecord)
             /\ \A k \in DOMAIN clicks' :
                  /\ clicks'[k].phase = "posted" => ~clicks'[k].done
                  /\ clicks'[k].phase = "served" /\ clicks'[k].done => clicks'[k].reply \in Snapshots
             /\ \A s \in Snapshots : UnderWay(s)' <=> UnderWay(s) \/ s \in {Snapshot(q)}
  <2>1. PICK r \in Snapshots : r = Snapshot(q) BY SnapshotOfQueue
  <2>2. PICK x : x = [clicks[i] EXCEPT !.phase = "served", !.done = TRUE, !.reply = r] OBVIOUS
  <2>3. x \in ClickRecord /\ x.phase = "served" /\ x.done /\ x.reply = r
    BY <1>0, <2>2 DEF ClickRecord
  <2>4. clicks' = [clicks EXCEPT ![i] = x] BY <1>0, <1>2, <2>1, <2>2 DEF Served
  <2>5. /\ clicks' \in Seq(ClickRecord) /\ DOMAIN clicks' = DOMAIN clicks
        /\ clicks'[i] = x /\ \A k \in DOMAIN clicks : k # i => clicks'[k] = clicks[k]
        /\ \A k \in DOMAIN clicks' :
             /\ clicks'[k].phase = "posted" => ~clicks'[k].done
             /\ clicks'[k].phase = "served" /\ clicks'[k].done => clicks'[k].reply \in Snapshots
    BY <1>0, <2>3, <2>4, ClickChanges
  <2>6. \A s \in Snapshots : UnderWay(s)' <=> UnderWay(s) \/ s = r
    <3> TAKE s \in Snapshots
    <3>1. \A k \in DOMAIN clicks : k # i => (Carries(k, s)' <=> Carries(k, s))
      BY <2>5 DEF Carries
    <3>2. ~Carries(i, s) BY <1>1 DEF Carries
    <3>3. Carries(i, s)' <=> s = r BY <2>3, <2>5 DEF Carries
    <3> QED BY <1>1, <2>5, <3>1, <3>2, <3>3 DEF UnderWay
  <2> QED BY <2>1, <2>5, <2>6
<1>3. ASSUME NEW q \in Queues, NEW es \in Seq(StripEvent), queue' = q, stripEvents' = es,
             q.paused => q.items # <<>>, queue.version < q.version,
             EventsTrue(es, q), RuntimeWaits(es, q.version),
             FollowUpWaits(stripEvents) => FollowUpWaits(es), Served(i, q)
      PROVE  StripSound'
  <2>1. PICK N \in SUBSET Snapshots : N = {Snapshot(q)} BY SnapshotOfQueue
  <2>2. N # {} /\ N \subseteq {Snapshot(q)} BY <2>1
  <2>3. \A s \in Snapshots : UnderWay(s)' <=> UnderWay(s) \/ s \in N BY <1>2, <1>3, <2>1
  <2> QED BY <1>1, <1>2, <1>3, <2>2, <2>3, ServerChanges
<1>4. ASSUME NEW q \in Queues, q.version = queue.version + 1, q.paused => q.items # <<>>,
             Publish(q), Served(i, queue')
      PROVE  StripSound'
  <2>1. PICK es : es = Append(stripEvents, RuntimeState(q)) OBVIOUS
  <2>2. /\ es \in Seq(StripEvent) /\ EventsTrue(es, q) /\ RuntimeWaits(es, q.version)
        /\ FollowUpWaits(stripEvents) => FollowUpWaits(es)
    BY <1>0, <1>4, <2>1, RuntimeAnnounced
  <2>3. queue' = q /\ stripEvents' = es BY <1>4, <2>1 DEF Publish
  <2>4. queue.version < q.version BY <1>0, <1>4
  <2>5. Served(i, q) BY <1>4, <2>3
  <2> QED BY <1>3, <1>4, <2>2, <2>3, <2>4, <2>5
<1>5. ASSUME UNCHANGED <<queue, stripEvents>>, Served(i, queue) PROVE StripSound'
  <2>1. PICK q \in Queues : q = queue BY <1>0
  <2>2. /\ clicks' \in Seq(ClickRecord)
        /\ \A k \in DOMAIN clicks' :
             /\ clicks'[k].phase = "posted" => ~clicks'[k].done
             /\ clicks'[k].phase = "served" /\ clicks'[k].done => clicks'[k].reply \in Snapshots
        /\ \A s \in Snapshots : UnderWay(s)' <=> UnderWay(s) \/ s \in {Snapshot(q)}
    BY <1>2, <1>5, <2>1
  <2>3. StripTypes' BY <1>1, <1>5, <2>2 DEF StripSound, StripTypes
  <2>4. Snapshot(q).items = queue.items /\ Snapshot(q).version = queue.version
    BY <2>1, SnapshotOfQueue
  <2>5. \A n \in Nat : Newer(n) => Newer(n)'
    BY <1>1, <1>5, <2>2 DEF Newer, ReadDue, KnownOf
  <2>6. SnapshotsTrue'
    <3> SUFFICES ASSUME NEW s \in Snapshots, UnderWay(s)'
                 PROVE  /\ s.version <= queue.version
                        /\ s.version = queue.version => s = Snapshot(queue)
                        /\ s.items = queue.items \/ Newer(s.version)'
      BY <1>5 DEF SnapshotsTrue, Snapshot
    <3>1. CASE s = Snapshot(q) BY <1>0, <2>1, <2>4, <3>1
    <3>2. CASE UnderWay(s)
      <4>1. PICK n \in Nat : n = s.version BY DEF Snapshots
      <4>2. s.items = queue.items \/ Newer(n) BY <3>2, <4>1 DEF StripSound, SnapshotsTrue
      <4>3. s.items = queue.items \/ Newer(n)' BY <2>5, <4>2
      <4> QED BY <3>2, <4>1, <4>3 DEF StripSound, SnapshotsTrue
    <3> QED BY <2>2, <3>1, <3>2
  <2>7. ItemsComing' BY <1>1, <1>5, <2>2 DEF StripSound, ItemsComing, ReadDue
  <2>8. RuntimeComing' BY <1>1, <1>5 DEF StripSound, RuntimeComing, StateCurrent
  <2>9. EventsTrue(stripEvents, queue)' BY <1>5 DEF StripSound
  <2> QED BY <2>3, <2>6, <2>7, <2>8, <2>9 DEF StripSound
<1>6. CASE /\ clicks' = [clicks EXCEPT ![i].phase = "served"] /\ UNCHANGED <<queue, stripEvents>>
  <2>1. PICK x : x = [clicks[i] EXCEPT !.phase = "served"] OBVIOUS
  <2>2. x \in ClickRecord /\ x.phase = "served" /\ x.done = clicks[i].done
    BY <1>0, <2>1 DEF ClickRecord
  <2>3. clicks' = [clicks EXCEPT ![i] = x] BY <1>0, <1>6, <2>1
  <2>4. ~x.done BY <1>1, <2>2
  <2>5. /\ clicks' \in Seq(ClickRecord) /\ DOMAIN clicks' = DOMAIN clicks
        /\ clicks'[i] = x /\ \A k \in DOMAIN clicks : k # i => clicks'[k] = clicks[k]
        /\ \A k \in DOMAIN clicks' :
             /\ clicks'[k].phase = "posted" => ~clicks'[k].done
             /\ clicks'[k].phase = "served" /\ clicks'[k].done => clicks'[k].reply \in Snapshots
    BY <1>0, <2>2, <2>3, <2>4, ClickChanges
  <2>6. \A s : UnderWay(s)' <=> UnderWay(s)
    <3> TAKE s
    <3>1. \A k \in DOMAIN clicks : Carries(k, s)' <=> Carries(k, s)
      BY <1>1, <2>4, <2>5 DEF Carries
    <3> QED BY <1>1, <2>5, <3>1 DEF UnderWay
  <2> QED BY <1>1, <1>6, <2>5, <2>6, NothingNews
<1>7. CASE /\ clicks[i].operation = "remove"
           /\ \E k \in DOMAIN queue.items :
                queue.items[k] = clicks[i].item /\ Publish(Changed(RemoveAt(queue.items, k), queue.paused))
           /\ Served(i, queue')
  <2>1. PICK k \in DOMAIN queue.items : Publish(Changed(RemoveAt(queue.items, k), queue.paused))
    BY <1>7
  <2>2. PICK items \in Seq(Nat) : items = RemoveAt(queue.items, k) BY <1>0, RemoveAtSeq
  <2>3. PICK q : q = Changed(items, queue.paused) OBVIOUS
  <2>4. q \in Queues /\ q.version = queue.version + 1 /\ (q.paused => q.items # <<>>)
    BY <1>0, <2>2, <2>3, ChangedQueue
  <2>5. Publish(q) BY <2>1, <2>2, <2>3
  <2> QED BY <1>4, <1>7, <2>4, <2>5
<1>8. CASE Publish(Changed(<<>>, FALSE)) /\ Served(i, queue')
  <2>1. PICK q : q = Changed(<<>>, FALSE) OBVIOUS
  <2>2. <<>> \in Seq(Nat) BY EmptySeq
  <2>3. q \in Queues /\ q.version = queue.version + 1 /\ (q.paused => q.items # <<>>)
    BY <1>0, <2>1, <2>2, ChangedQueue
  <2> QED BY <1>4, <1>8, <2>1, <2>3
<1>9. CASE Publish(Changed(queue.items, FALSE)) /\ Served(i, queue')
  <2>1. PICK q : q = Changed(queue.items, FALSE) OBVIOUS
  <2>2. q \in Queues /\ q.version = queue.version + 1 /\ (q.paused => q.items # <<>>)
    BY <1>0, <2>1, ChangedQueue
  <2> QED BY <1>4, <1>9, <2>1, <2>2
<1>10. CASE /\ queue.paused /\ queue' = Promoted(Changed(queue.items, FALSE))
            /\ stripEvents' = stripEvents \o <<RuntimeState(Changed(queue.items, FALSE)),
                                               RuntimeState(queue'), FollowUp>>
            /\ Served(i, queue')
  <2>1. PICK q : q = Changed(queue.items, FALSE) OBVIOUS
  <2>2. q \in Queues /\ q.version = queue.version + 1 /\ ~q.paused /\ q.items = queue.items
    BY <1>0, <2>1, ChangedQueue
  <2>3. PICK p : p = Promoted(q) OBVIOUS
  <2>4. p \in Queues /\ p.version = q.version + 1 /\ ~p.paused
    BY <1>0, <1>10, <2>2, <2>3, PromotedQueue
  <2>5. PICK a, b : a = RuntimeState(q) /\ b = RuntimeState(p) OBVIOUS
  <2>6. a \in StripEvent /\ b \in StripEvent /\ FollowUp \in StripEvent
    <3>1. \A r \in Queues : RuntimeState(r) \in StripEvent
      <4> TAKE r \in Queues
      <4>1. r.items \in Seq(Nat) /\ r.paused \in BOOLEAN /\ r.version \in Nat /\ Len(r.items) \in Nat
        BY LenProperties DEF Queues
      <4> QED BY <4>1 DEF RuntimeState, StripEvent
    <3> QED BY <2>2, <2>4, <2>5, <3>1 DEF FollowUp, StripEvent
  <2>7. PICK e1 : e1 = Append(stripEvents, a) OBVIOUS
  <2>8. /\ e1 \in Seq(StripEvent) /\ EventsTrue(e1, q)
        /\ FollowUpWaits(stripEvents) => FollowUpWaits(e1)
    BY <1>0, <2>2, <2>5, <2>7, RuntimeAnnounced
  <2>9. PICK e2 : e2 = Append(e1, b) OBVIOUS
  <2>10. /\ e2 \in Seq(StripEvent) /\ EventsTrue(e2, p) /\ RuntimeWaits(e2, p.version)
    BY <2>2, <2>4, <2>5, <2>8, <2>9, RuntimeAnnounced
  <2>11. PICK e3 : e3 = Append(e2, FollowUp) OBVIOUS
  <2>12. /\ e3 \in Seq(StripEvent) /\ EventsTrue(e3, p) /\ FollowUpWaits(e3)
         /\ RuntimeWaits(e3, p.version)
    BY <2>4, <2>10, <2>11, FollowUpAnnounced
  <2>13. queue' = p BY <1>10, <2>1, <2>3
  <2>14. stripEvents' = stripEvents \o <<a, b, FollowUp>> BY <1>10, <2>1, <2>5, <2>13
  <2>15. stripEvents' = e3 BY <1>0, <2>6, <2>7, <2>9, <2>11, <2>14, EventsTogether
  <2>16. Served(i, p) BY <1>10, <2>13
  <2>17. queue.version < p.version BY <1>0, <2>2, <2>4
  <2> QED BY <1>3, <2>4, <2>12, <2>13, <2>15, <2>16, <2>17
<1> QED BY <1>5, <1>6, <1>7, <1>8, <1>9, <1>10 DEF ServeClick

(* A queue is taken as the one shown: what is newer, if any, is still      *)
(* known of or on its way.                                                 *)
LEMMA QueueTaken ==
  ASSUME StripSound, NEW taken \in Snapshots, UnderWay(taken),
         UNCHANGED <<queue, stripEvents>>, stripState' = taken, Trusted(taken.version),
         StripTypes', ReadDue => ReadDue',
         \A s \in Snapshots : UnderWay(s)' => UnderWay(s),
         \A s \in Snapshots : UnderWay(s) => UnderWay(s)' \/ s = taken
  PROVE  StripSound'
<1>0. queue \in Queues /\ queue.version \in Nat /\ seen \in Nat /\ seen <= queue.version /\ doubt \in Nat
  BY DEF StripSound, StripTypes, Queues
<1>1. PICK v \in Nat : v = taken.version BY DEF Snapshots
<1>2. /\ v <= queue.version /\ (v = queue.version => taken = Snapshot(queue))
      /\ taken.items = queue.items \/ Newer(v)
  BY <1>1 DEF StripSound, SnapshotsTrue
<1>3. /\ seen' = IF v > seen THEN v ELSE seen
      /\ doubt' = IF v >= seen /\ v >= doubt THEN 0 ELSE IF seen > doubt THEN seen ELSE doubt
  BY <1>1 DEF Trusted, Newest
<1>4. seen' >= v /\ seen' >= seen BY <1>0, <1>3
<1>5. \A n \in Nat : KnownOf(n) => KnownOf(n)'
  <2> SUFFICES ASSUME NEW n \in Nat, KnownOf(n) PROVE seen' > n \/ doubt' > n BY DEF KnownOf
  <2>1. doubt > n \/ seen > n BY DEF KnownOf
  <2> QED BY <1>0, <1>3, <2>1
<1>6. ASSUME NEW n \in Nat, Newer(n) PROVE Newer(n)'
  <2>1. CASE ReadDue BY <2>1 DEF Newer
  <2>2. CASE KnownOf(n) BY <1>5, <2>2 DEF Newer
  <2>3. CASE \E s \in Snapshots : UnderWay(s) /\ s.version > n
    <3>1. PICK s \in Snapshots : UnderWay(s) /\ s.version > n BY <2>3
    <3>2. CASE UnderWay(s)' BY <3>1, <3>2 DEF Newer
    <3>3. CASE s = taken
      <4>1. seen' > n BY <1>0, <1>1, <1>3, <3>1, <3>3
      <4> QED BY <4>1 DEF Newer, KnownOf
    <3> QED BY <3>1, <3>2, <3>3
  <2> QED BY <1>6, <2>1, <2>2, <2>3 DEF Newer
<1>7. SnapshotsTrue'
  <2> SUFFICES ASSUME NEW s \in Snapshots, UnderWay(s)'
               PROVE  /\ s.version <= queue.version
                      /\ s.version = queue.version => s = Snapshot(queue)
                      /\ s.items = queue.items \/ Newer(s.version)'
    BY DEF SnapshotsTrue, Snapshot
  <2>1. UnderWay(s) OBVIOUS
  <2>2. PICK n \in Nat : n = s.version BY DEF Snapshots
  <2>3. s.items = queue.items \/ Newer(n) BY <2>1, <2>2 DEF StripSound, SnapshotsTrue
  <2>4. s.items = queue.items \/ Newer(n)' BY <1>6, <2>3
  <2> QED BY <2>1, <2>2, <2>4 DEF StripSound, SnapshotsTrue
<1>8. ItemsComing'
  <2>1. CASE taken.items = queue.items BY <2>1 DEF ItemsComing
  <2>2. CASE ReadDue BY <2>2 DEF ItemsComing
  <2>3. CASE KnownOf(v)
    <3>1. doubt > v \/ seen > v BY <2>3 DEF KnownOf
    <3>2. doubt' # 0 BY <1>0, <1>3, <3>1
    <3> QED BY <3>2 DEF ItemsComing
  <2>4. CASE \E s \in Snapshots : UnderWay(s) /\ s.version > v
    <3>1. PICK s \in Snapshots : UnderWay(s) /\ s.version > v BY <2>4
    <3>2. s.version \in Nat BY DEF Snapshots
    <3>3. s # taken /\ s.version # 0 BY <1>1, <3>1, <3>2
    <3>4. UnderWay(s)' BY <3>1, <3>3
    <3> QED BY <3>3, <3>4 DEF ItemsComing
  <2> QED BY <1>2, <2>1, <2>2, <2>3, <2>4 DEF Newer
<1>9. RuntimeComing'
  <2>1. CASE RuntimeWaits(stripEvents, queue.version) BY <2>1 DEF RuntimeComing
  <2>2. CASE seen = queue.version /\ v < seen
    <3>1. seen' = queue.version /\ doubt' # 0 BY <1>0, <1>3, <2>2
    <3> QED BY <3>1 DEF RuntimeComing
  <2>3. CASE seen = queue.version /\ v = seen
    <3>1. seen' = queue.version BY <1>0, <1>3, <2>3
    <3>2. taken.count = Len(queue.items) /\ taken.paused = queue.paused
      BY <1>0, <1>2, <2>3, SnapshotOfQueue
    <3> QED BY <3>1, <3>2 DEF RuntimeComing, StateCurrent
  <2> QED BY <1>0, <1>2, <2>1, <2>2, <2>3 DEF StripSound, RuntimeComing
<1>10. EventsTrue(stripEvents, queue)' BY DEF StripSound
<1> QED BY <1>7, <1>8, <1>9, <1>10 DEF StripSound

(* A reply is lost: a later read has to bring what it had.                 *)
LEMMA ReplyLost ==
  ASSUME StripSound, NEW lost \in Snapshots, UnderWay(lost),
         UNCHANGED <<queue, stripEvents, stripState, seen, resync>>,
         doubt' = IF lost.version > doubt THEN lost.version ELSE doubt,
         StripTypes',
         \A s \in Snapshots : UnderWay(s)' => UnderWay(s),
         \A s \in Snapshots : UnderWay(s) => UnderWay(s)' \/ s = lost
  PROVE  StripSound'
<1>0. doubt \in Nat /\ seen \in Nat BY DEF StripSound, StripTypes
<1>1. PICK v \in Nat : v = lost.version BY DEF Snapshots
<1>2. doubt' \in Nat /\ doubt' >= doubt /\ doubt' >= v BY <1>0, <1>1
<1>3. ASSUME NEW n \in Nat, Newer(n) PROVE Newer(n)'
  <2>1. CASE ReadDue BY <2>1 DEF Newer, ReadDue
  <2>2. CASE KnownOf(n)
    <3>1. doubt' > n \/ seen > n BY <1>0, <1>2, <2>2 DEF KnownOf
    <3> QED BY <3>1 DEF Newer, KnownOf
  <2>3. CASE \E s \in Snapshots : UnderWay(s) /\ s.version > n
    <3>1. PICK s \in Snapshots : UnderWay(s) /\ s.version > n BY <2>3
    <3>2. CASE UnderWay(s)' BY <3>1, <3>2 DEF Newer
    <3>3. CASE s = lost
      <4>1. doubt' > n BY <1>1, <1>2, <3>1, <3>3
      <4> QED BY <4>1 DEF Newer, KnownOf
    <3> QED BY <3>1, <3>2, <3>3
  <2> QED BY <1>3, <2>1, <2>2, <2>3 DEF Newer
<1>4. SnapshotsTrue'
  <2> SUFFICES ASSUME NEW s \in Snapshots, UnderWay(s)'
               PROVE  /\ s.version <= queue.version
                      /\ s.version = queue.version => s = Snapshot(queue)
                      /\ s.items = queue.items \/ Newer(s.version)'
    BY DEF SnapshotsTrue, Snapshot
  <2>1. UnderWay(s) OBVIOUS
  <2>2. PICK n \in Nat : n = s.version BY DEF Snapshots
  <2>3. s.items = queue.items \/ Newer(n) BY <2>1, <2>2 DEF StripSound, SnapshotsTrue
  <2>4. s.items = queue.items \/ Newer(n)' BY <1>3, <2>3
  <2> QED BY <2>1, <2>2, <2>4 DEF StripSound, SnapshotsTrue
<1>5. ItemsComing'
  <2>1. CASE \E s \in Snapshots : UnderWay(s) /\ s.version # 0
    <3>1. PICK s \in Snapshots : UnderWay(s) /\ s.version # 0 BY <2>1
    <3>2. CASE UnderWay(s)' BY <3>1, <3>2 DEF ItemsComing
    <3>3. CASE s = lost
      <4>1. doubt' # 0 BY <1>1, <1>2, <3>1, <3>3
      <4> QED BY <4>1 DEF ItemsComing
    <3> QED BY <3>1, <3>2, <3>3
  <2>2. CASE doubt # 0
    <3>1. doubt' # 0 BY <1>0, <1>2, <2>2
    <3> QED BY <3>1 DEF ItemsComing
  <2>3. CASE stripState.items = queue.items \/ ReadDue \/ resync.phase = "read"
    BY <2>3 DEF ItemsComing, ReadDue
  <2> QED BY <2>1, <2>2, <2>3 DEF StripSound, ItemsComing
<1>6. RuntimeComing'
  <2>1. doubt # 0 => doubt' # 0 BY <1>0, <1>2
  <2> QED BY <2>1 DEF StripSound, RuntimeComing, StateCurrent
<1>7. EventsTrue(stripEvents, queue)' BY DEF StripSound
<1> QED BY <1>4, <1>5, <1>6, <1>7 DEF StripSound

(* An event is handled.                                                    *)
LEMMA HandleEventSound ==
  ASSUME StripSound, HandleEvent
  PROVE  StripSound'
<1>0. /\ queue \in Queues /\ queue.version \in Nat /\ Len(queue.items) \in Nat
      /\ seen \in Nat /\ seen <= queue.version /\ stripState \in Snapshots
      /\ stripEvents \in Seq(StripEvent) /\ EventsTrue(stripEvents, queue) /\ stripEvents # <<>>
      /\ resync = Idle /\ UNCHANGED <<queue, doubt, clicks, clicked>>
  BY LenProperties DEF StripSound, StripTypes, Queues, HandleEvent
<1>1. PICK event, es : event = Head(stripEvents) /\ es = Tail(stripEvents) OBVIOUS
<1>2. /\ event \in StripEvent /\ es \in Seq(StripEvent) /\ EventsTrue(es, queue)
      /\ FollowUpWaits(stripEvents) => event.kind = "follow_up" \/ FollowUpWaits(es)
      /\ event.kind = "follow_up" /\ RuntimeWaits(stripEvents, queue.version)
         => RuntimeWaits(es, queue.version)
      /\ event.kind = "runtime_state" =>
           /\ event.version <= queue.version
           /\ \/ RuntimeWaits(es, queue.version)
              \/ event.version = queue.version /\ event.count = Len(queue.items)
                 /\ event.paused = queue.paused
  BY <1>0, <1>1, EventTaken
<1>3. stripEvents' = es BY <1>1 DEF HandleEvent
<1>4. CASE /\ event.kind = "runtime_state"
           /\ stripState' = [stripState EXCEPT !.count = event.count, !.paused = event.paused]
           /\ Newest(event.version) /\ UNCHANGED resync
  <2>1. event.count \in Nat /\ event.paused \in BOOLEAN /\ event.version \in Nat
    BY <1>2, <1>4 DEF StripEvent
  <2>2. /\ stripState' \in Snapshots /\ stripState'.items = stripState.items
        /\ stripState'.count = event.count /\ stripState'.paused = event.paused
    BY <1>0, <1>4, <2>1 DEF Snapshots
  <2>3. seen' = IF event.version > seen THEN event.version ELSE seen BY <1>4 DEF Newest
  <2>4. seen' \in Nat /\ seen' >= seen /\ seen' >= event.version /\ seen' <= queue.version
    BY <1>0, <1>2, <1>4, <2>1, <2>3
  <2>5. StripTypes' BY <1>0, <1>2, <1>3, <1>4, <2>2, <2>4 DEF StripSound, StripTypes
  <2>6. \A s : UnderWay(s)' <=> UnderWay(s) BY <1>0, <1>4 DEF UnderWay, Carries
  <2>7. ReadDue => ReadDue' BY <1>2, <1>3, <1>4 DEF ReadDue
  <2>8. ASSUME NEW n \in Nat, KnownOf(n) PROVE KnownOf(n)'
    BY <1>0, <2>4, <2>8 DEF KnownOf
  <2>9. \A n \in Nat : Newer(n) => Newer(n)' BY <2>6, <2>7, <2>8 DEF Newer
  <2>10. SnapshotsTrue'
    <3> SUFFICES ASSUME NEW s \in Snapshots, UnderWay(s)
                 PROVE  /\ s.version <= queue.version
                        /\ s.version = queue.version => s = Snapshot(queue)
                        /\ s.items = queue.items \/ Newer(s.version)'
      BY <1>0, <2>6 DEF SnapshotsTrue, Snapshot
    <3>1. PICK n \in Nat : n = s.version BY DEF Snapshots
    <3>2. s.items = queue.items \/ Newer(n) BY <3>1 DEF StripSound, SnapshotsTrue
    <3>3. s.items = queue.items \/ Newer(n)' BY <2>9, <3>2
    <3> QED BY <3>1, <3>3 DEF StripSound, SnapshotsTrue
  <2>11. ItemsComing'
    BY <1>0, <1>4, <2>2, <2>6, <2>7 DEF StripSound, ItemsComing
  <2>12. RuntimeComing'
    <3>1. CASE RuntimeWaits(es, queue.version) BY <1>0, <1>3, <3>1 DEF RuntimeComing
    <3>2. CASE event.version = queue.version /\ event.count = Len(queue.items)
               /\ event.paused = queue.paused
      <4>1. seen' = queue.version BY <1>0, <2>4, <3>2
      <4> QED BY <1>0, <2>2, <3>2, <4>1 DEF RuntimeComing, StateCurrent
    <3> QED BY <1>2, <1>4, <3>1, <3>2
  <2> QED BY <1>0, <1>2, <1>3, <2>5, <2>10, <2>11, <2>12 DEF StripSound
<1>5. CASE event.kind = "follow_up" /\ resync' = [phase |-> "asked"] /\ UNCHANGED <<stripState, seen>>
  <2>1. StripTypes' BY <1>0, <1>2, <1>3, <1>5 DEF StripSound, StripTypes
  <2>2. ReadDue' BY <1>5 DEF ReadDue
  <2>3. \A s : UnderWay(s)' => UnderWay(s)
    BY <1>0, <1>5 DEF UnderWay, Carries, Idle
  <2>4. SnapshotsTrue' BY <1>0, <2>2, <2>3 DEF StripSound, SnapshotsTrue, Snapshot, Newer
  <2>5. ItemsComing' BY <2>2 DEF ItemsComing
  <2>6. RuntimeComing' BY <1>0, <1>2, <1>3, <1>5 DEF StripSound, RuntimeComing, StateCurrent
  <2> QED BY <1>0, <1>2, <1>3, <2>1, <2>4, <2>5, <2>6 DEF StripSound
<1> QED BY <1>1, <1>4, <1>5 DEF HandleEvent

(* The state is asked for.                                                 *)
LEMMA AskStateSound ==
  ASSUME StripSound, AskState
  PROVE  StripSound'
<1>0. resync = Idle /\ resync' = [phase |-> "asked"]
      /\ UNCHANGED <<queue, stripEvents, stripState, seen, doubt, clicks, clicked>>
  BY DEF AskState
<1>1. StripTypes' BY <1>0 DEF StripSound, StripTypes
<1>2. ReadDue' BY <1>0 DEF ReadDue
<1>3. \A s : UnderWay(s)' => UnderWay(s) BY <1>0 DEF UnderWay, Carries, Idle
<1>4. SnapshotsTrue' BY <1>0, <1>2, <1>3 DEF StripSound, SnapshotsTrue, Snapshot, Newer
<1>5. ItemsComing' BY <1>2 DEF ItemsComing
<1>6. RuntimeComing' BY <1>0 DEF StripSound, RuntimeComing, StateCurrent
<1>7. EventsTrue(stripEvents, queue)' BY <1>0 DEF StripSound
<1> QED BY <1>1, <1>4, <1>5, <1>6, <1>7 DEF StripSound

(* The state is read: what is read is newer than any other snapshot that   *)
(* is not the queue's.                                                     *)
LEMMA ReadStateSound ==
  ASSUME StripSound, ReadState
  PROVE  StripSound'
<1>0. /\ queue \in Queues /\ queue.version \in Nat
      /\ UNCHANGED <<queue, stripEvents, stripState, seen, doubt, clicks, clicked>>
  BY DEF StripSound, StripTypes, Queues, ReadState
<1>1. PICK r \in Snapshots : r = Snapshot(queue) BY <1>0, SnapshotOfQueue
<1>2. r.items = queue.items /\ r.version = queue.version BY <1>0, <1>1, SnapshotOfQueue
<1>3. resync.phase = "asked" /\ resync' = [phase |-> "read", state |-> r] BY <1>1 DEF ReadState
<1>4. StripTypes' BY <1>0, <1>3 DEF StripSound, StripTypes
<1>5. \A s : UnderWay(s)' <=> UnderWay(s) \/ s = r BY <1>0, <1>3 DEF UnderWay, Carries
<1>6. SnapshotsTrue'
  <2> SUFFICES ASSUME NEW s \in Snapshots, UnderWay(s)'
               PROVE  /\ s.version <= queue.version
                      /\ s.version = queue.version => s = Snapshot(queue)
                      /\ s.items = queue.items \/ Newer(s.version)'
    BY <1>0 DEF SnapshotsTrue, Snapshot
  <2>1. CASE s = r BY <1>0, <1>1, <1>2, <2>1
  <2>2. CASE UnderWay(s)
    <3>1. PICK n \in Nat : n = s.version BY DEF Snapshots
    <3>2. n <= queue.version /\ (n = queue.version => s = r)
      BY <1>1, <2>2, <3>1 DEF StripSound, SnapshotsTrue
    <3>3. CASE n = queue.version BY <1>0, <1>1, <1>2, <3>1, <3>2, <3>3
    <3>4. CASE n < queue.version
      <4>1. UnderWay(r)' /\ r.version > n BY <1>0, <1>2, <1>5, <3>4
      <4>2. Newer(n)' BY <4>1 DEF Newer
      <4> QED BY <1>0, <3>1, <3>4, <4>2
    <3> QED BY <1>0, <3>2, <3>3, <3>4
  <2> QED BY <1>5, <2>1, <2>2
<1>7. ItemsComing' BY <1>3 DEF ItemsComing
<1>8. RuntimeComing' BY <1>0 DEF StripSound, RuntimeComing, StateCurrent
<1>9. EventsTrue(stripEvents, queue)' BY <1>0 DEF StripSound
<1> QED BY <1>4, <1>6, <1>7, <1>8, <1>9 DEF StripSound

(* What was read becomes the state shown.                                  *)
LEMMA LandStateSound ==
  ASSUME StripSound, LandState
  PROVE  StripSound'
<1>0. /\ queue.version \in Nat /\ seen \in Nat /\ seen <= queue.version
      /\ doubt \in Nat /\ doubt <= queue.version
      /\ resync.phase = "read" /\ resync' = Idle
      /\ stripState' = resync.state /\ Trusted(resync.state.version)
      /\ UNCHANGED <<queue, stripEvents, clicks, clicked>>
  BY DEF StripSound, StripTypes, Queues, LandState
<1>1. PICK r \in Snapshots : resync = [phase |-> "read", state |-> r]
  BY <1>0 DEF StripSound, StripTypes, Idle
<1>2. resync.state = r /\ UnderWay(r) BY <1>1 DEF UnderWay
<1>3. \A s : UnderWay(s) => UnderWay(s)' \/ s = r BY <1>0, <1>1 DEF UnderWay, Carries
<1>4. \A s : UnderWay(s)' => UnderWay(s) BY <1>0 DEF UnderWay, Carries, Idle
<1>5. r.version \in Nat /\ r.version <= queue.version
  BY <1>2 DEF Snapshots, StripSound, SnapshotsTrue
<1>6. seen' \in Nat /\ seen' <= queue.version /\ doubt' \in Nat /\ doubt' <= queue.version
  BY <1>0, <1>2, <1>5 DEF Trusted, Newest
<1>7. StripTypes' BY <1>0, <1>2, <1>6 DEF StripSound, StripTypes
<1>8. ReadDue => ReadDue' BY <1>0 DEF ReadDue
<1> QED BY <1>0, <1>2, <1>3, <1>4, <1>7, <1>8, QueueTaken

(* A request of this page is answered: its reply is taken or lost.         *)
LEMMA AnswerClickSound ==
  ASSUME StripSound, NEW i \in DOMAIN clicks, AnswerClick(i)
  PROVE  StripSound'
<1>0. /\ queue.version \in Nat /\ seen \in Nat /\ seen <= queue.version
      /\ doubt \in Nat /\ doubt <= queue.version /\ StripTypes
      /\ clicks \in Seq(ClickRecord) /\ clicks[i] \in ClickRecord /\ clicks[i].done \in BOOLEAN
      /\ clicks[i].phase = "served" /\ UNCHANGED <<queue, stripEvents, resync, clicked>>
  <2>1. clicks \in Seq(ClickRecord) /\ clicks[i] \in ClickRecord
    BY ElementOfSeq DEF StripSound, StripTypes
  <2> QED BY <2>1 DEF StripSound, StripTypes, Queues, AnswerClick, ClickRecord
<1>1. PICK x : x = [clicks[i] EXCEPT !.phase = "answered", !.reply = NoReply] OBVIOUS
<1>2. x \in ClickRecord /\ x.phase = "answered" BY <1>0, <1>1 DEF ClickRecord
<1>3. clicks' = [clicks EXCEPT ![i] = x] BY <1>0, <1>1 DEF AnswerClick
<1>4. /\ clicks' \in Seq(ClickRecord) /\ DOMAIN clicks' = DOMAIN clicks
      /\ clicks'[i] = x /\ \A k \in DOMAIN clicks : k # i => clicks'[k] = clicks[k]
      /\ \A k \in DOMAIN clicks' :
           /\ clicks'[k].phase = "posted" => ~clicks'[k].done
           /\ clicks'[k].phase = "served" /\ clicks'[k].done => clicks'[k].reply \in Snapshots
  BY <1>0, <1>2, <1>3, ClickChanges
<1>5. \A s : UnderWay(s) => UnderWay(s)' \/ Carries(i, s)
  BY <1>0, <1>4 DEF UnderWay, Carries
<1>6. \A s : UnderWay(s)' => UnderWay(s)
  BY <1>0, <1>2, <1>4 DEF UnderWay, Carries
<1>7. PICK result \in Results(clicks[i].done) :
        IF result = "value"
        THEN stripState' = ApplyQueueMutation(clicks[i].reply) /\ Trusted(clicks[i].reply.version)
        ELSE /\ doubt' = IF clicks[i].done /\ clicks[i].reply.version > doubt
                         THEN clicks[i].reply.version ELSE doubt
             /\ UNCHANGED <<stripState, seen>>
  BY DEF AnswerClick
<1>8. CASE clicks[i].done
  <2>1. PICK r \in Snapshots : r = clicks[i].reply BY <1>0, <1>8 DEF StripTypes
  <2>2. UnderWay(r) BY <1>0, <1>8, <2>1 DEF UnderWay, Carries
  <2>3. \A s : UnderWay(s) => UnderWay(s)' \/ s = r BY <1>5, <2>1 DEF Carries
  <2>4. r.version \in Nat /\ r.version <= queue.version
    BY <2>2 DEF Snapshots, StripSound, SnapshotsTrue
  <2>5. CASE stripState' = r /\ Trusted(r.version)
    <3>1. seen' \in Nat /\ seen' <= queue.version /\ doubt' \in Nat /\ doubt' <= queue.version
      BY <1>0, <2>4, <2>5 DEF Trusted, Newest
    <3>2. StripTypes' BY <1>0, <1>4, <2>5, <3>1 DEF StripTypes
    <3>3. ReadDue => ReadDue' BY <1>0 DEF ReadDue
    <3> QED BY <1>0, <1>6, <2>2, <2>3, <2>5, <3>2, <3>3, QueueTaken
  <2>6. CASE /\ doubt' = IF r.version > doubt THEN r.version ELSE doubt
             /\ UNCHANGED <<stripState, seen>>
    <3>1. doubt' \in Nat /\ doubt' <= queue.version BY <1>0, <2>4, <2>6
    <3>2. StripTypes' BY <1>0, <1>4, <2>6, <3>1 DEF StripTypes
    <3> QED BY <1>0, <1>6, <2>2, <2>3, <2>6, <3>2, ReplyLost
  <2> QED BY <1>7, <1>8, <2>1, <2>5, <2>6 DEF ApplyQueueMutation
<1>9. CASE ~clicks[i].done
  <2>1. clicks[i].done = FALSE BY <1>0, <1>9
  <2>2. result = "error" BY <1>7, <2>1, ResultsOfRequest
  <2>3. doubt' = doubt /\ UNCHANGED <<stripState, seen>> BY <1>7, <1>9, <2>2
  <2>4. \A s : UnderWay(s)' <=> UnderWay(s) BY <1>5, <1>6, <1>9 DEF Carries
  <2> QED BY <1>0, <1>4, <2>3, <2>4, NothingNews
<1> QED BY <1>8, <1>9

(* A request is made: what it is about is one of the items shown.          *)
LEMMA ClickSound ==
  ASSUME StripSound, RemoveQueued \/ ClearQueue \/ ResumeQueue
  PROVE  StripSound'
<1>0. /\ stripState \in Snapshots /\ stripState.items \in Seq(Nat) /\ stripState.count \in Nat
      /\ clicks \in Seq(ClickRecord) /\ StripTypes
      /\ Len(clicks) \in Nat /\ DOMAIN clicks = 1 .. Len(clicks)
  BY LenProperties DEF StripSound, StripTypes, Snapshots
<1>1. Visible \in Seq(Nat)
  <2>1. PICK n \in Nat : n = Len(stripState.items) BY <1>0, LenProperties
  <2>2. \A k \in 1 .. n : stripState.items[k] \in Nat
    BY <1>0, <2>1, ElementOfSeq, LenProperties
  <2>3. ASSUME stripState.count < n
        PROVE  SubSeq(stripState.items, n - stripState.count + 1, n) \in Seq(Nat)
    <3>1. PICK m \in Int : m = n - stripState.count + 1 BY <1>0, <2>1
    <3>2. \A k \in m .. n : k \in 1 .. n BY <1>0, <2>1, <2>3, <3>1
    <3>3. \A k \in m .. n : stripState.items[k] \in Nat BY <2>2, <3>2
    <3>4. n \in Int BY <2>1
    <3> QED BY <3>1, <3>3, <3>4, SubSeqProperties
  <2> QED BY <1>0, <2>1, <2>3 DEF Visible
<1>2. ASSUME NEW operation \in {"remove", "clear", "resume"}, NEW item \in Nat, Click(operation, item)
      PROVE  StripSound'
  <2>1. PICK x : x = [operation |-> operation, item |-> item, phase |-> "posted",
                      done |-> FALSE, reply |-> NoReply]
    OBVIOUS
  <2>2. x \in ClickRecord /\ x.phase = "posted" /\ ~x.done BY <2>1 DEF ClickRecord
  <2>3. clicks' = Append(clicks, x) BY <1>2, <2>1 DEF Click
  <2>4. PICK n \in Nat : n = Len(clicks) + 1 BY <1>0
  <2>5. /\ clicks' \in Seq(ClickRecord) /\ Len(clicks') = n
        /\ clicks'[n] = x /\ \A k \in DOMAIN clicks : clicks'[k] = clicks[k]
    BY <1>0, <2>2, <2>3, <2>4, AppendProperties
  <2>6. DOMAIN clicks' = 1 .. n BY <2>5, LenProperties
  <2>7. DOMAIN clicks' = DOMAIN clicks \cup {n} BY <1>0, <2>4, <2>6
  <2>8. \A k \in DOMAIN clicks' :
          /\ clicks'[k].phase = "posted" => ~clicks'[k].done
          /\ clicks'[k].phase = "served" /\ clicks'[k].done => clicks'[k].reply \in Snapshots
    BY <1>0, <2>2, <2>5, <2>7 DEF StripTypes
  <2>9. UNCHANGED <<queue, stripEvents, stripState, seen, doubt, resync>> BY <1>2 DEF Click
  <2>10. \A s : UnderWay(s)' <=> UnderWay(s)
    BY <2>2, <2>5, <2>7, <2>9 DEF UnderWay, Carries
  <2> QED BY <2>5, <2>8, <2>9, <2>10, NothingNews
<1>3. CASE RemoveQueued
  <2>1. PICK k \in DOMAIN Visible : Click("remove", Visible[k]) BY <1>3 DEF RemoveQueued
  <2>2. PICK item \in Nat : item = Visible[k] BY <1>1, ElementOfSeq, LenProperties
  <2> QED BY <1>2, <2>1, <2>2
<1>4. CASE ClearQueue \/ ResumeQueue BY <1>2, <1>4 DEF ClearQueue, ResumeQueue
<1> QED BY <1>3, <1>4

(* The strip as it starts.                                                 *)
LEMMA StripStarts == StripInit => StripSound
<1> HAVE StripInit
<1>1. /\ queue = [items |-> <<>>, paused |-> FALSE, version |-> 0, made |-> 0]
      /\ stripEvents = <<>> /\ stripState = Snapshot(queue) /\ seen = 0 /\ doubt = 0
      /\ resync = Idle /\ clicks = <<>>
  BY DEF StripInit
<1>2. /\ <<>> \in Seq(Nat) /\ <<>> \in Seq(StripEvent) /\ <<>> \in Seq(ClickRecord)
      /\ DOMAIN <<>> = {}
  BY EmptySeq
<1>3. queue \in Queues /\ queue.version = 0 /\ queue.paused = FALSE BY <1>1, <1>2 DEF Queues
<1>4. stripState \in Snapshots /\ stripState.items = queue.items
      /\ stripState.count = Len(queue.items) /\ stripState.paused = queue.paused
  BY <1>1, <1>3, SnapshotOfQueue
<1>5. StripTypes BY <1>1, <1>2, <1>3, <1>4 DEF StripTypes
<1>6. EventsTrue(stripEvents, queue) BY <1>1, <1>2 DEF EventsTrue
<1>7. \A s : ~UnderWay(s) BY <1>1, <1>2 DEF UnderWay, Idle, Carries
<1>8. SnapshotsTrue BY <1>7 DEF SnapshotsTrue
<1>9. ItemsComing BY <1>4 DEF ItemsComing
<1>10. RuntimeComing BY <1>1, <1>3, <1>4 DEF RuntimeComing, StateCurrent
<1> QED BY <1>5, <1>6, <1>8, <1>9, <1>10 DEF StripSound

(* With nothing waiting and nothing under way, what is shown is the queue. *)
LEMMA StripShows == StripSound => QueueShown
<1> SUFFICES ASSUME StripSound, stripEvents = <<>>, resync = Idle, doubt = 0,
                    \A i \in DOMAIN clicks : clicks[i].phase = "answered"
             PROVE  /\ stripState.paused = queue.paused
                    /\ IF OnStrip THEN Visible = queue.items ELSE queue.items = <<>>
  BY DEF QueueShown
<1>1. DOMAIN stripEvents = {} BY EmptySeq
<1>2. ~ReadDue /\ \A v : ~RuntimeWaits(stripEvents, v)
  BY <1>1 DEF ReadDue, RuntimeWaits, FollowUpWaits, Idle
<1>3. \A s : ~UnderWay(s) BY DEF UnderWay, Carries, Idle
<1>4. stripState.items = queue.items BY <1>2, <1>3 DEF StripSound, ItemsComing, Idle
<1>5. StateCurrent BY <1>2 DEF StripSound, RuntimeComing
<1>6. queue.items \in Seq(Nat) /\ Len(queue.items) \in Nat
  BY LenProperties DEF StripSound, StripTypes, Queues
<1>7. Visible = queue.items BY <1>4, <1>5, <1>6 DEF Visible, StateCurrent
<1>8. ~OnStrip => queue.items = <<>> BY <1>5, <1>6, EmptySeq DEF OnStrip, StateCurrent
<1> QED BY <1>5, <1>7, <1>8 DEF StateCurrent

(* Once everything published has been handled and nothing is under way,    *)
(* the strip shows the follow-ups that wait (QueueStrip.tsx), however many *)
(* and whatever the requests and the replies that were lost; the readings  *)
(* of the state that are still due are those the property names.           *)
THEOREM StripShowsTheQueue == StripSpec => []QueueShown
<1>1. StripSound /\ [StripNext]_stripVars => StripSound'
  <2> SUFFICES ASSUME StripSound, [StripNext]_stripVars PROVE StripSound' OBVIOUS
  <2>1. CASE SubmitItem \/ PromoteItem \/ PauseItems \/ RemoveElsewhere BY <2>1, ServerStep
  <2>2. CASE HandleEvent BY <2>2, HandleEventSound
  <2>3. CASE AskState BY <2>3, AskStateSound
  <2>4. CASE ReadState BY <2>4, ReadStateSound
  <2>5. CASE LandState BY <2>5, LandStateSound
  <2>6. CASE RemoveQueued \/ ClearQueue \/ ResumeQueue BY <2>6, ClickSound
  <2>7. ASSUME UNCHANGED <<queue, stripEvents, stripState, seen, doubt, resync, clicks>>
        PROVE  StripSound'
    <3>1. \A s : UnderWay(s)' <=> UnderWay(s) BY <2>7 DEF UnderWay, Carries
    <3> QED BY <2>7, <3>1, NothingNews DEF StripSound, StripTypes
  <2>8. CASE ForgetClick BY <2>7, <2>8 DEF ForgetClick
  <2>9. CASE UNCHANGED stripVars BY <2>7, <2>9 DEF stripVars
  <2>10. CASE \E i \in DOMAIN clicks : ServeClick(i) \/ AnswerClick(i)
    BY <2>10, ServeClickSound, AnswerClickSound
  <2> QED BY <2>1, <2>2, <2>3, <2>4, <2>5, <2>6, <2>8, <2>9, <2>10 DEF StripNext
<1> QED BY <1>1, StripStarts, StripShows, PTL DEF StripSpec

-----------------------------------------------------------------------------
(* The composer.  A submission that it still watches is the one it waits   *)
(* for, or has been answered: so what is sent again was not.               *)

SendRecord ==
  [session : ComposerSessions, text : Nat, phase : Phases, applied : BOOLEAN,
   result : {"none", "value", "error"},
   watch : {"watched", "displaced", "unmounted", "left"}]

ComposerTypes ==
  /\ shownSession \in ComposerSessions /\ mounted \in BOOLEAN
  /\ typed \in [ComposerSessions -> Nat] /\ leftAt \in [ComposerSessions -> Nat]
  /\ draft \in [ComposerSessions -> Nat]
  /\ \A s \in ComposerSessions : draft[s] \in {0, typed[s]}
  /\ sends \in Seq(SendRecord) /\ observed \in 0 .. Len(sends)

Watched(i) == sends[i].watch = "watched"

(* What the composer's state says of a submission that it watches.         *)
SendSound(i) ==
  /\ sends[i].text \in 1 .. typed[sends[i].session]
  /\ sends[i].phase = "answered" <=> sends[i].result # "none"
  /\ sends[i].applied => sends[i].phase \in {"served", "answered"}
  /\ Watched(i) /\ sends[i].phase = "reading" => preparing = sends[i].session
  /\ Watched(i) /\ sends[i].phase \in {"posted", "served"} => observed = i
  /\ Watched(i) /\ sends[i].result = "value" => draft[sends[i].session] # sends[i].text

SentOver ==
  \A i, j \in DOMAIN sends :
    i < j /\ sends[i].session = sends[j].session /\ sends[i].text = sends[j].text
      => ~Watched(i) \/ sends[i].result = "error"

ComposerSound ==
  /\ ComposerTypes /\ DraftKept /\ SentOver
  /\ \A i \in DOMAIN sends : SendSound(i)

(* The submissions are numbered.                                           *)
LEMMA SendsNumbered ==
  ASSUME ComposerTypes
  PROVE  /\ Len(sends) \in Nat /\ DOMAIN sends = 1 .. Len(sends)
         /\ sends \in Seq(SendRecord) /\ \A i \in DOMAIN sends : sends[i] \in SendRecord
BY LenProperties, ElementOfSeq DEF ComposerTypes

(* One submission is replaced by what became of it.                        *)
LEMMA SendReplaced ==
  ASSUME ComposerTypes, NEW i \in DOMAIN sends, NEW x \in SendRecord, NEW list,
         list = [sends EXCEPT ![i] = x]
  PROVE  /\ list \in Seq(SendRecord) /\ DOMAIN list = DOMAIN sends /\ Len(list) = Len(sends)
         /\ list[i] = x /\ \A j \in DOMAIN sends : j # i => list[j] = sends[j]
<1>1. /\ Len(sends) \in Nat /\ DOMAIN sends = 1 .. Len(sends) /\ sends \in Seq(SendRecord)
  BY SendsNumbered
<1>2. list \in Seq(SendRecord) /\ DOMAIN list = DOMAIN sends /\ Len(list) = Len(sends)
  BY <1>1, ExceptSeq
<1> QED BY <1>1, <1>2

(* Those that are displaced differ in that alone.                          *)
LEMMA DisplacedSends ==
  ASSUME NEW list \in Seq(SendRecord), NEW which
  PROVE  /\ Displaced(list, which) \in Seq(SendRecord)
         /\ DOMAIN Displaced(list, which) = DOMAIN list /\ Len(Displaced(list, which)) = Len(list)
         /\ \A j \in DOMAIN list :
              /\ Displaced(list, which)[j].session = list[j].session
              /\ Displaced(list, which)[j].text = list[j].text
              /\ Displaced(list, which)[j].phase = list[j].phase
              /\ Displaced(list, which)[j].applied = list[j].applied
              /\ Displaced(list, which)[j].result = list[j].result
              /\ Displaced(list, which)[j].watch = "watched" => list[j].watch = "watched" /\ j \notin which
<1>1. /\ Len(list) \in Nat /\ DOMAIN list = 1 .. Len(list)
      /\ \A j \in DOMAIN list : list[j] \in SendRecord
  BY LenProperties, ElementOfSeq
<1>2. PICK r : r = Displaced(list, which) OBVIOUS
<1>3. r = [j \in 1 .. Len(list) |->
             IF j \in which /\ list[j].watch = "watched" THEN [list[j] EXCEPT !.watch = "displaced"] ELSE list[j]]
  BY <1>1, <1>2 DEF Displaced
<1>4. ASSUME NEW j \in DOMAIN list
      PROVE  /\ r[j] \in SendRecord
             /\ r[j].session = list[j].session /\ r[j].text = list[j].text /\ r[j].phase = list[j].phase
             /\ r[j].applied = list[j].applied /\ r[j].result = list[j].result
             /\ r[j].watch = "watched" => list[j].watch = "watched" /\ j \notin which
  <2>1. list[j] \in SendRecord BY <1>1
  <2>2. CASE j \in which /\ list[j].watch = "watched"
    <3>1. PICK x : x = [list[j] EXCEPT !.watch = "displaced"] OBVIOUS
    <3>2. /\ x \in SendRecord /\ x.session = list[j].session /\ x.text = list[j].text
          /\ x.phase = list[j].phase /\ x.applied = list[j].applied /\ x.result = list[j].result
          /\ x.watch = "displaced"
      BY <2>1, <3>1 DEF SendRecord
    <3>3. r[j] = x BY <1>1, <1>3, <2>2, <3>1
    <3> QED BY <3>2, <3>3
  <2>3. CASE ~(j \in which /\ list[j].watch = "watched")
    <3>1. r[j] = list[j] BY <1>1, <1>3, <2>3
    <3> QED BY <2>1, <2>3, <3>1
  <2> QED BY <2>2, <2>3
<1>5. r \in Seq(SendRecord) /\ Len(r) = Len(list) /\ DOMAIN r = DOMAIN list
  <2>1. r \in [1 .. Len(list) -> SendRecord] BY <1>1, <1>3, <1>4
  <2>2. r \in Seq(SendRecord) BY <1>1, <2>1, SeqDef
  <2> QED BY <1>1, <2>1, <2>2, LenProperties
<1> QED BY <1>2, <1>4, <1>5

(* What the server has received it has.                                     *)
LEMMA ReceivedKept ==
  ASSUME NEW s, NEW text, Received(s, text) # {},
         \A i \in DOMAIN sends :
           /\ i \in DOMAIN sends' /\ sends'[i].session = sends[i].session
           /\ sends'[i].text = sends[i].text /\ (sends[i].applied => sends'[i].applied)
  PROVE  Received(s, text)' # {}
<1>1. PICK i \in DOMAIN sends : sends[i].session = s /\ sends[i].text = text /\ sends[i].applied
  BY DEF Received
<1>2. i \in Received(s, text)' BY <1>1 DEF Received
<1> QED BY <1>2

(* The submissions go on, or are no longer watched; nothing is typed.      *)
LEMMA SendsGoOn ==
  ASSUME ComposerSound, ComposerTypes', UNCHANGED <<typed, leftAt, draft>>,
         DOMAIN sends' = DOMAIN sends,
         \A j \in DOMAIN sends :
           /\ sends'[j].session = sends[j].session /\ sends'[j].text = sends[j].text
           /\ sends'[j].result = sends[j].result
           /\ sends[j].applied => sends'[j].applied
           /\ sends'[j].phase = "answered" <=> sends[j].phase = "answered"
           /\ sends'[j].applied => sends'[j].phase \in {"served", "answered"}
           /\ sends'[j].watch = "watched" =>
                /\ sends[j].watch = "watched"
                /\ sends'[j].phase = "reading" => preparing' = sends[j].session
                /\ sends'[j].phase \in {"posted", "served"} => observed' = j
  PROVE  ComposerSound'
<1>1. ASSUME NEW s, NEW text, Received(s, text) # {} PROVE Received(s, text)' # {}
  BY <1>1 DEF Received
<1>2. DraftKept'
  <2> SUFFICES ASSUME NEW s \in ComposerSessions, typed[s] > leftAt[s]
               PROVE  draft[s] = typed[s] \/ Received(s, typed[s])' # {}
    BY DEF DraftKept, Received
  <2>1. PICK text : text = typed[s] OBVIOUS
  <2>2. draft[s] = typed[s] \/ Received(s, text) # {} BY <2>1 DEF ComposerSound, DraftKept
  <2>3. draft[s] = typed[s] \/ Received(s, text)' # {} BY <1>1, <2>2
  <2> QED BY <2>1, <2>3
<1>3. SentOver'
  BY DEF ComposerSound, SentOver, Watched
<1>4. ASSUME NEW i \in DOMAIN sends PROVE SendSound(i)'
  BY DEF ComposerSound, SendSound, Watched
<1> QED BY <1>2, <1>3, <1>4 DEF ComposerSound

(* A text is typed: it is new.                                             *)
LEMMA TypeDraftSound ==
  ASSUME ComposerSound, TypeDraft
  PROVE  ComposerSound'
<1>0. /\ ComposerTypes /\ shownSession \in ComposerSessions
      /\ UNCHANGED <<shownSession, mounted, loaded, leftAt, bubbles, preparing, sends>>
      /\ Len(sends) \in Nat /\ DOMAIN sends = 1 .. Len(sends)
      /\ \A i \in DOMAIN sends : sends[i] \in SendRecord
  BY SendsNumbered DEF ComposerSound, ComposerTypes, TypeDraft
<1>1. PICK n \in Nat : n = typed[shownSession] + 1 BY <1>0 DEF ComposerTypes
<1>2. typed' = [typed EXCEPT ![shownSession] = n] /\ draft' = [draft EXCEPT ![shownSession] = n]
  BY <1>0, <1>1 DEF TypeDraft, ComposerTypes
<1>3. observed' = observed \/ (observed # 0 /\ sends[observed].result = "error" /\ observed' = 0)
  BY DEF TypeDraft
<1>4. /\ typed' \in [ComposerSessions -> Nat] /\ draft' \in [ComposerSessions -> Nat]
      /\ typed'[shownSession] = n /\ draft'[shownSession] = n
      /\ \A s \in ComposerSessions :
           /\ typed[s] \in Nat /\ typed'[s] \in Nat /\ typed[s] <= typed'[s]
           /\ s # shownSession => typed'[s] = typed[s] /\ draft'[s] = draft[s]
  BY <1>0, <1>1, <1>2 DEF ComposerTypes
<1>5. ComposerTypes'
  <2>1. \A s \in ComposerSessions : draft'[s] \in {0, typed'[s]} BY <1>0, <1>4 DEF ComposerTypes
  <2> QED BY <1>0, <1>3, <1>4, <2>1 DEF ComposerTypes
<1>6. DraftKept'
  <2> SUFFICES ASSUME NEW s \in ComposerSessions, typed'[s] > leftAt[s]
               PROVE  draft'[s] = typed'[s] \/ Received(s, typed[s])' # {}
    BY <1>0 DEF DraftKept, Received
  <2>1. CASE s = shownSession BY <1>4, <2>1
  <2>2. CASE s # shownSession
    <3>1. PICK text : text = typed[s] OBVIOUS
    <3>2. draft[s] = typed[s] \/ Received(s, text) # {}
      BY <1>4, <2>2, <3>1 DEF ComposerSound, DraftKept
    <3>3. Received(s, text) # {} => Received(s, text)' # {} BY <1>0, ReceivedKept
    <3>4. typed'[s] = text /\ draft'[s] = draft[s] BY <1>4, <2>2, <3>1
    <3>5. draft'[s] = text \/ Received(s, text)' # {} BY <3>1, <3>2, <3>3, <3>4
    <3> QED BY <3>4, <3>5
  <2> QED BY <2>1, <2>2
<1>7. SentOver' BY <1>0 DEF ComposerSound, SentOver, Watched
<1>8. ASSUME NEW i \in DOMAIN sends PROVE SendSound(i)'
  <2>1. SendSound(i) /\ sends[i].session \in ComposerSessions /\ sends[i].text \in Nat
    BY <1>0 DEF ComposerSound, SendRecord
  <2>2. sends[i].text \in 1 .. typed'[sends[i].session] BY <1>4, <2>1 DEF SendSound
  <2>3. Watched(i) /\ sends[i].phase \in {"posted", "served"} => observed' = i
    <3> HAVE Watched(i) /\ sends[i].phase \in {"posted", "served"}
    <3>1. observed = i /\ sends[i].result = "none" BY <2>1 DEF SendSound
    <3> QED BY <1>3, <3>1
  <2>4. Watched(i) /\ sends[i].result = "value" => draft'[sends[i].session] # sends[i].text
    <3>1. CASE sends[i].session = shownSession
      <4>1. sends[i].text < n BY <1>1, <1>4, <2>1, <3>1 DEF SendSound
      <4> QED BY <1>4, <2>1, <3>1, <4>1
    <3>2. CASE sends[i].session # shownSession BY <1>4, <2>1, <3>2 DEF SendSound
    <3> QED BY <3>1, <3>2
  <2> QED BY <1>0, <2>1, <2>2, <2>3, <2>4 DEF SendSound, Watched
<1> QED BY <1>0, <1>5, <1>6, <1>7, <1>8 DEF ComposerSound

(* What the composer is about to send it does not watch under way.         *)
LEMMA NotSentYet ==
  ASSUME ComposerSound, CanSubmit(shownSession), NEW i \in DOMAIN sends,
         Watched(i), sends[i].session = shownSession
  PROVE  /\ sends[i].phase = "answered"
         /\ sends[i].text = draft[shownSession] => sends[i].result = "error"
<1>1. SendSound(i) /\ sends[i] \in SendRecord /\ i # 0
  <2>1. ComposerTypes BY DEF ComposerSound
  <2>2. Len(sends) \in Nat /\ DOMAIN sends = 1 .. Len(sends) /\ sends[i] \in SendRecord
    BY <2>1, SendsNumbered
  <2> QED BY <2>2 DEF ComposerSound
<1>2. sends[i].phase # "reading" BY <1>1 DEF CanSubmit, SendSound
<1>3. ~(sends[i].phase \in {"posted", "served"})
  BY <1>1 DEF CanSubmit, SendSound, SendPending, Unanswered
<1>4. sends[i].phase = "answered" BY <1>1, <1>2, <1>3 DEF SendRecord, Phases
<1>5. sends[i].result \in {"none", "value", "error"} BY <1>1 DEF SendRecord
<1> QED BY <1>1, <1>4, <1>5 DEF SendSound

(* A draft is submitted.                                                   *)
LEMMA SubmitDraftSound ==
  ASSUME ComposerSound, SubmitDraft
  PROVE  ComposerSound'
<1>0. /\ ComposerTypes /\ shownSession \in ComposerSessions /\ CanSubmit(shownSession)
      /\ UNCHANGED <<shownSession, mounted, loaded, typed, leftAt, draft, bubbles>>
      /\ Len(sends) \in Nat /\ DOMAIN sends = 1 .. Len(sends) /\ sends \in Seq(SendRecord)
      /\ \A i \in DOMAIN sends : sends[i] \in SendRecord
  BY SendsNumbered DEF ComposerSound, ComposerTypes, SubmitDraft
<1>1. PICK n \in Nat : n = Len(sends) + 1 BY <1>0
<1>2. draft[shownSession] \in 1 .. typed[shownSession] /\ draft[shownSession] \in Nat
  BY <1>0 DEF CanSubmit, ComposerTypes
<1>3. PICK phase \in {"posted", "reading"}, which \in SUBSET (DOMAIN sends) :
        /\ sends' = Append(Displaced(sends, which), Submission(shownSession, draft[shownSession], phase))
        /\ phase = "posted" => /\ which = Others(n, shownSession) /\ observed' = n
        /\ phase = "reading" => /\ which = {j \in Others(n, shownSession) : sends[j].phase = "reading"}
                                /\ preparing' = shownSession /\ observed' = observed
  <2>1. PICK others \in SUBSET (DOMAIN sends) : others = Others(n, shownSession) BY DEF Others
  <2>2. PICK reading \in SUBSET (DOMAIN sends) :
          reading = {j \in Others(n, shownSession) : sends[j].phase = "reading"}
    BY DEF Others
  <2>3. CASE shownSession \in loaded BY <1>1, <2>1, <2>3 DEF SubmitDraft
  <2>4. CASE shownSession \notin loaded BY <1>1, <2>2, <2>4 DEF SubmitDraft
  <2> QED BY <2>3, <2>4
<1>4. PICK list : list = Displaced(sends, which) OBVIOUS
<1>5. PICK x : x = Submission(shownSession, draft[shownSession], phase) OBVIOUS
<1>6. /\ x \in SendRecord /\ x.session = shownSession /\ x.text = draft[shownSession]
      /\ x.phase = phase /\ ~x.applied /\ x.result = "none" /\ x.watch = "watched"
  BY <1>0, <1>2, <1>5 DEF Submission, SendRecord, Phases
<1>7. /\ list \in Seq(SendRecord) /\ DOMAIN list = DOMAIN sends /\ Len(list) = Len(sends)
      /\ \A j \in DOMAIN sends :
           /\ list[j].session = sends[j].session /\ list[j].text = sends[j].text
           /\ list[j].phase = sends[j].phase /\ list[j].applied = sends[j].applied
           /\ list[j].result = sends[j].result
           /\ list[j].watch = "watched" => sends[j].watch = "watched" /\ j \notin which
  BY <1>0, <1>4, DisplacedSends
<1>8. sends' = Append(list, x) BY <1>3, <1>4, <1>5
<1>9. /\ sends' \in Seq(SendRecord) /\ Len(sends') = n /\ sends'[n] = x
      /\ \A j \in DOMAIN sends : sends'[j] = list[j]
  <2>1. DOMAIN list = 1 .. Len(list) BY <1>7, LenProperties
  <2> QED BY <1>0, <1>1, <1>6, <1>7, <1>8, <2>1, AppendProperties
<1>10. DOMAIN sends' = 1 .. n BY <1>9, LenProperties
<1>11. DOMAIN sends' = DOMAIN sends \cup {n} /\ n \notin DOMAIN sends /\ \A j \in DOMAIN sends : j < n
  BY <1>0, <1>1, <1>10
<1>12. ComposerTypes'
  <2>1. observed' \in 0 .. n BY <1>0, <1>1, <1>3 DEF ComposerTypes
  <2> QED BY <1>0, <1>9, <2>1 DEF ComposerTypes
<1>13. DraftKept'
  <2> SUFFICES ASSUME NEW s \in ComposerSessions, typed[s] > leftAt[s]
               PROVE  draft[s] = typed[s] \/ Received(s, typed[s])' # {}
    BY <1>0 DEF DraftKept, Received
  <2>1. PICK text : text = typed[s] OBVIOUS
  <2>2. draft[s] = typed[s] \/ Received(s, text) # {} BY <2>1 DEF ComposerSound, DraftKept
  <2>3. Received(s, text) # {} => Received(s, text)' # {} BY <1>7, <1>9, <1>11, ReceivedKept
  <2>4. typed'[s] = text BY <1>0, <2>1
  <2> QED BY <2>1, <2>2, <2>3, <2>4
<1>14. SentOver'
  <2> SUFFICES ASSUME NEW i \in DOMAIN sends', NEW j \in DOMAIN sends', i < j,
                      sends'[i].session = sends'[j].session, sends'[i].text = sends'[j].text,
                      sends'[i].watch = "watched"
               PROVE  sends'[i].result = "error"
    BY DEF SentOver, Watched
  <2>1. i \in DOMAIN sends BY <1>0, <1>1, <1>10, <1>11
  <2>2. sends[i].watch = "watched" /\ sends'[i].result = sends[i].result
        /\ sends'[i].session = sends[i].session /\ sends'[i].text = sends[i].text
    BY <1>7, <1>9, <2>1
  <2>3. CASE j \in DOMAIN sends
    <3>1. sends'[j].session = sends[j].session /\ sends'[j].text = sends[j].text
      BY <1>7, <1>9, <2>3
    <3> QED BY <2>1, <2>2, <2>3, <3>1 DEF ComposerSound, SentOver, Watched
  <2>4. CASE j = n
    <3>1. sends[i].session = shownSession /\ sends[i].text = draft[shownSession]
      BY <1>6, <1>9, <2>2, <2>4
    <3> QED BY <1>0, <2>1, <2>2, <3>1, NotSentYet DEF Watched
  <2> QED BY <1>11, <2>3, <2>4
<1>15. ASSUME NEW i \in DOMAIN sends' PROVE SendSound(i)'
  <2>1. CASE i = n
    <3>1. sends'[i] = x BY <1>9, <2>1
    <3> QED BY <1>0, <1>2, <1>3, <1>6, <2>1, <3>1 DEF SendSound, Watched
  <2>2. CASE i \in DOMAIN sends
    <3>1. SendSound(i) BY <2>2 DEF ComposerSound
    <3>2. /\ sends'[i].session = sends[i].session /\ sends'[i].text = sends[i].text
          /\ sends'[i].phase = sends[i].phase /\ sends'[i].applied = sends[i].applied
          /\ sends'[i].result = sends[i].result
          /\ sends'[i].watch = "watched" => sends[i].watch = "watched" /\ i \notin which
      BY <1>7, <1>9, <2>2
    <3>3. ASSUME sends'[i].watch = "watched", sends[i].phase # "answered"
          PROVE  sends[i].phase \in {"posted", "served"} /\ phase = "reading"
      <4>1. sends[i].session # shownSession BY <1>0, <2>2, <3>2, <3>3, NotSentYet DEF Watched
      <4>2. sends[i] \in SendRecord /\ i # n BY <1>0, <1>11, <2>2
      <4>3. i \in Others(n, shownSession)
        BY <2>2, <3>3, <4>1, <4>2 DEF Others, Unanswered, SendRecord, Phases
      <4>4. phase = "reading" /\ sends[i].phase # "reading" BY <1>3, <3>2, <3>3, <4>3
      <4> QED BY <3>3, <4>2, <4>4 DEF SendRecord, Phases
    <3> QED BY <1>0, <1>3, <3>1, <3>2, <3>3 DEF SendSound, Watched
  <2> QED BY <1>11, <2>1, <2>2
<1> QED BY <1>12, <1>13, <1>14, <1>15 DEF ComposerSound

(* A message is posted, by the composer that read the page before it or by *)
(* none.                                                                   *)
LEMMA PostMessageSound ==
  ASSUME ComposerSound, NEW i \in DOMAIN sends, PostMessage(i)
  PROVE  ComposerSound'
<1>0. /\ ComposerTypes /\ sends[i].phase = "reading" /\ sends[i] \in SendRecord
      /\ UNCHANGED <<shownSession, mounted, loaded, typed, leftAt, draft, bubbles>>
      /\ Len(sends) \in Nat /\ DOMAIN sends = 1 .. Len(sends) /\ sends \in Seq(SendRecord)
      /\ \A j \in DOMAIN sends : sends[j] \in SendRecord /\ SendSound(j)
  BY SendsNumbered DEF ComposerSound, PostMessage
<1>1. PICK x : x = [sends[i] EXCEPT !.phase = "posted"] OBVIOUS
<1>2. /\ x \in SendRecord /\ x.phase = "posted" /\ x.session = sends[i].session /\ x.text = sends[i].text
      /\ x.applied = sends[i].applied /\ x.result = sends[i].result /\ x.watch = sends[i].watch
  BY <1>0, <1>1 DEF SendRecord, Phases
<1>3. PICK posted : posted = [sends EXCEPT ![i] = x] OBVIOUS
<1>4. posted = [sends EXCEPT ![i].phase = "posted"] BY <1>0, <1>1, <1>3
<1>5. /\ posted \in Seq(SendRecord) /\ DOMAIN posted = DOMAIN sends /\ Len(posted) = Len(sends)
      /\ posted[i] = x /\ \A j \in DOMAIN sends : j # i => posted[j] = sends[j]
  BY <1>0, <1>2, <1>3, SendReplaced
<1>6. ~sends[i].applied BY <1>0 DEF SendSound
<1>7. CASE ~Mine(i)
  <2>1. sends' = posted /\ observed' = observed /\ preparing' = preparing
    BY <1>4, <1>7 DEF PostMessage
  <2>2. ComposerTypes' BY <1>0, <1>5, <2>1 DEF ComposerTypes
  <2>3. sends[i].watch # "watched" BY <1>7 DEF Mine
  <2>4. \A j \in DOMAIN sends :
          /\ sends'[j].session = sends[j].session /\ sends'[j].text = sends[j].text
          /\ sends'[j].result = sends[j].result
          /\ sends[j].applied => sends'[j].applied
          /\ sends'[j].phase = "answered" <=> sends[j].phase = "answered"
          /\ sends'[j].applied => sends'[j].phase \in {"served", "answered"}
          /\ sends'[j].watch = "watched" =>
               /\ sends[j].watch = "watched"
               /\ sends'[j].phase = "reading" => preparing' = sends[j].session
               /\ sends'[j].phase \in {"posted", "served"} => observed' = j
    <3> TAKE j \in DOMAIN sends
    <3>1. CASE j = i BY <1>0, <1>2, <1>5, <1>6, <2>1, <2>3, <3>1
    <3>2. CASE j # i BY <1>0, <1>5, <2>1, <3>2 DEF SendSound, Watched
    <3> QED BY <3>1, <3>2
  <2>5. DOMAIN sends' = DOMAIN sends BY <1>5, <2>1
  <2> QED BY <1>0, <2>2, <2>4, <2>5, SendsGoOn
<1>8. CASE Mine(i)
  <2>1. PICK others : others = {j \in DOMAIN sends :
          /\ j # i /\ Unanswered(j)
          /\ sends[j].phase # "reading" \/ sends[j].session = sends[i].session}
    OBVIOUS
  <2>2. /\ sends' = Displaced(posted, others) /\ observed' = i
        /\ preparing' = IF preparing = sends[i].session THEN NoComposerSession ELSE preparing
    BY <1>4, <1>8, <2>1 DEF PostMessage
  <2>3. /\ sends' \in Seq(SendRecord) /\ DOMAIN sends' = DOMAIN sends /\ Len(sends') = Len(sends)
        /\ \A j \in DOMAIN sends :
             /\ sends'[j].session = posted[j].session /\ sends'[j].text = posted[j].text
             /\ sends'[j].phase = posted[j].phase /\ sends'[j].applied = posted[j].applied
             /\ sends'[j].result = posted[j].result
             /\ sends'[j].watch = "watched" => posted[j].watch = "watched" /\ j \notin others
    BY <1>5, <2>2, DisplacedSends
  <2>4. ComposerTypes' BY <1>0, <2>2, <2>3 DEF ComposerTypes
  <2>5. \A j \in DOMAIN sends :
          /\ sends'[j].session = sends[j].session /\ sends'[j].text = sends[j].text
          /\ sends'[j].result = sends[j].result
          /\ sends[j].applied => sends'[j].applied
          /\ sends'[j].phase = "answered" <=> sends[j].phase = "answered"
          /\ sends'[j].applied => sends'[j].phase \in {"served", "answered"}
          /\ sends'[j].watch = "watched" =>
               /\ sends[j].watch = "watched"
               /\ sends'[j].phase = "reading" => preparing' = sends[j].session
               /\ sends'[j].phase \in {"posted", "served"} => observed' = j
    <3> TAKE j \in DOMAIN sends
    <3>1. CASE j = i BY <1>0, <1>2, <1>5, <1>6, <2>2, <2>3, <3>1
    <3>2. CASE j # i
      <4>1. /\ sends'[j].session = sends[j].session /\ sends'[j].text = sends[j].text
            /\ sends'[j].phase = sends[j].phase /\ sends'[j].applied = sends[j].applied
            /\ sends'[j].result = sends[j].result
            /\ sends'[j].watch = "watched" => sends[j].watch = "watched" /\ j \notin others
        BY <1>5, <2>3, <3>2
      <4>2. sends'[j].watch = "watched" => ~sends[j].phase \in {"posted", "served"}
        BY <2>1, <3>2, <4>1 DEF Unanswered
      <4>3. sends'[j].watch = "watched" /\ sends[j].phase = "reading" => preparing' = sends[j].session
        <5> HAVE sends'[j].watch = "watched" /\ sends[j].phase = "reading"
        <5>1. sends[j].session # sends[i].session BY <2>1, <3>2, <4>1 DEF Unanswered
        <5>2. preparing = sends[j].session BY <1>0, <4>1 DEF SendSound, Watched
        <5> QED BY <2>2, <5>1, <5>2
      <4> QED BY <1>0, <4>1, <4>2, <4>3 DEF SendSound
    <3> QED BY <3>1, <3>2
  <2> QED BY <1>0, <2>3, <2>4, <2>5, SendsGoOn
<1> QED BY <1>7, <1>8

(* The server does what it is asked, or refuses.                           *)
LEMMA ServeMessageSound ==
  ASSUME ComposerSound, NEW i \in DOMAIN sends, ServeMessage(i)
  PROVE  ComposerSound'
<1>0. /\ ComposerTypes /\ sends[i].phase = "posted" /\ sends[i] \in SendRecord
      /\ UNCHANGED <<shownSession, mounted, loaded, typed, leftAt, draft, bubbles, preparing, observed>>
      /\ Len(sends) \in Nat /\ DOMAIN sends = 1 .. Len(sends) /\ sends \in Seq(SendRecord)
      /\ \A j \in DOMAIN sends : sends[j] \in SendRecord /\ SendSound(j)
  BY SendsNumbered DEF ComposerSound, ServeMessage
<1>1. PICK done \in BOOLEAN : sends' = [sends EXCEPT ![i].phase = "served", ![i].applied = done]
  BY DEF ServeMessage
<1>2. PICK x : x = [sends[i] EXCEPT !.phase = "served", !.applied = done] OBVIOUS
<1>3. /\ x \in SendRecord /\ x.phase = "served" /\ x.session = sends[i].session /\ x.text = sends[i].text
      /\ x.result = sends[i].result /\ x.watch = sends[i].watch
  BY <1>0, <1>2 DEF SendRecord, Phases
<1>4. sends' = [sends EXCEPT ![i] = x] BY <1>0, <1>1, <1>2
<1>5. /\ sends' \in Seq(SendRecord) /\ DOMAIN sends' = DOMAIN sends /\ Len(sends') = Len(sends)
      /\ sends'[i] = x /\ \A j \in DOMAIN sends : j # i => sends'[j] = sends[j]
  BY <1>0, <1>3, <1>4, SendReplaced
<1>6. ComposerTypes' BY <1>0, <1>5 DEF ComposerTypes
<1>7. \A j \in DOMAIN sends :
        /\ sends'[j].session = sends[j].session /\ sends'[j].text = sends[j].text
        /\ sends'[j].result = sends[j].result
        /\ sends[j].applied => sends'[j].applied
        /\ sends'[j].phase = "answered" <=> sends[j].phase = "answered"
        /\ sends'[j].applied => sends'[j].phase \in {"served", "answered"}
        /\ sends'[j].watch = "watched" =>
             /\ sends[j].watch = "watched"
             /\ sends'[j].phase = "reading" => preparing' = sends[j].session
             /\ sends'[j].phase \in {"posted", "served"} => observed' = j
  <2> TAKE j \in DOMAIN sends
  <2>1. CASE j = i BY <1>0, <1>3, <1>5, <2>1 DEF SendSound, Watched
  <2>2. CASE j # i BY <1>0, <1>5, <2>2 DEF SendSound, Watched
  <2> QED BY <2>1, <2>2
<1> QED BY <1>0, <1>5, <1>6, <1>7, SendsGoOn

(* The answer: the draft goes only if it is what the server has.           *)
LEMMA AnswerMessageSound ==
  ASSUME ComposerSound, NEW i \in DOMAIN sends, AnswerMessage(i)
  PROVE  ComposerSound'
<1>0. /\ ComposerTypes /\ sends[i].phase = "served" /\ sends[i] \in SendRecord
      /\ sends[i].session \in ComposerSessions /\ sends[i].applied \in BOOLEAN
      /\ UNCHANGED <<shownSession, mounted, loaded, typed, leftAt, preparing, observed>>
      /\ Len(sends) \in Nat /\ DOMAIN sends = 1 .. Len(sends) /\ sends \in Seq(SendRecord)
      /\ \A j \in DOMAIN sends : sends[j] \in SendRecord /\ SendSound(j)
  BY SendsNumbered DEF ComposerSound, AnswerMessage, SendRecord
<1>1. PICK result \in Results(sends[i].applied) :
        /\ sends' = [sends EXCEPT ![i].phase = "answered", ![i].result = result]
        /\ IF result = "value" /\ sends[i].watch # "left"
           THEN ClearSubmittedDraft(sends[i].session, sends[i].text)
           ELSE UNCHANGED draft
  <2>1. PICK result \in Results(sends[i].applied) :
          /\ sends' = [sends EXCEPT ![i].phase = "answered", ![i].result = result]
          /\ IF result = "value" /\ sends[i].watch # "left"
             THEN /\ ClearSubmittedDraft(sends[i].session, sends[i].text)
                  /\ \E run_started \in BOOLEAN :
                       bubbles' = IF run_started THEN [bubbles EXCEPT ![sends[i].session] = i] ELSE bubbles
             ELSE UNCHANGED <<draft, bubbles>>
    BY DEF AnswerMessage
  <2> QED BY <2>1
<1>2. result \in {"value", "error"} /\ (result = "value" => sends[i].applied)
  <2>1. CASE sends[i].applied = TRUE BY <1>1, <2>1, ResultsOfRequest
  <2>2. CASE sends[i].applied = FALSE BY <1>1, <2>2, ResultsOfRequest
  <2> QED BY <1>0, <2>1, <2>2
<1>3. PICK x : x = [sends[i] EXCEPT !.phase = "answered", !.result = result] OBVIOUS
<1>4. /\ x \in SendRecord /\ x.phase = "answered" /\ x.session = sends[i].session /\ x.text = sends[i].text
      /\ x.result = result /\ x.watch = sends[i].watch /\ x.applied = sends[i].applied
  BY <1>0, <1>2, <1>3 DEF SendRecord, Phases
<1>5. sends' = [sends EXCEPT ![i] = x] BY <1>0, <1>1, <1>3
<1>6. /\ sends' \in Seq(SendRecord) /\ DOMAIN sends' = DOMAIN sends /\ Len(sends') = Len(sends)
      /\ sends'[i] = x /\ \A j \in DOMAIN sends : j # i => sends'[j] = sends[j]
  BY <1>0, <1>4, <1>5, SendReplaced
<1>7. /\ draft' \in [ComposerSessions -> Nat]
      /\ \A s \in ComposerSessions : draft'[s] \in {0, draft[s]}
      /\ \A s \in ComposerSessions : draft'[s] # draft[s] =>
           s = sends[i].session /\ draft[s] = sends[i].text /\ result = "value"
      /\ result = "value" /\ Watched(i) => draft'[sends[i].session] # sends[i].text
  <2>1. sends[i].text \in Nat /\ sends[i].text # 0 BY <1>0 DEF SendSound, SendRecord
  <2>2. CASE result = "value" /\ sends[i].watch # "left"
    <3>1. draft' = [draft EXCEPT ![sends[i].session] =
                      IF draft[sends[i].session] = sends[i].text THEN 0 ELSE draft[sends[i].session]]
      BY <1>0, <1>1, <2>2 DEF ClearSubmittedDraft, ComposerTypes
    <3> QED BY <1>0, <2>1, <2>2, <3>1 DEF ComposerTypes
  <2>3. CASE ~(result = "value" /\ sends[i].watch # "left")
    BY <1>0, <1>1, <2>3 DEF ComposerTypes, Watched
  <2> QED BY <2>2, <2>3
<1>8. ComposerTypes' BY <1>0, <1>6, <1>7 DEF ComposerTypes
<1>9. \A j \in DOMAIN sends :
        /\ sends'[j].session = sends[j].session /\ sends'[j].text = sends[j].text
        /\ sends'[j].applied = sends[j].applied /\ sends'[j].watch = sends[j].watch
        /\ sends[j].result # "none" => sends'[j].result = sends[j].result
  BY <1>0, <1>4, <1>6 DEF SendSound
<1>10. DraftKept'
  <2> SUFFICES ASSUME NEW s \in ComposerSessions, typed[s] > leftAt[s]
               PROVE  draft'[s] = typed[s] \/ Received(s, typed[s])' # {}
    BY <1>0 DEF DraftKept, Received
  <2>1. PICK text : text = typed[s] OBVIOUS
  <2>2. Received(s, text) # {} => Received(s, text)' # {} BY <1>6, <1>9, ReceivedKept
  <2>6. typed'[s] = text BY <1>0, <2>1
  <2>3. draft[s] = typed[s] \/ Received(s, text) # {} BY <2>1 DEF ComposerSound, DraftKept
  <2>4. CASE draft'[s] = draft[s] BY <2>1, <2>2, <2>3, <2>4, <2>6
  <2>5. CASE draft'[s] # draft[s] /\ draft[s] = typed[s]
    <3>1. i \in Received(s, text) BY <1>2, <1>7, <2>1, <2>5 DEF Received
    <3> QED BY <2>2, <2>6, <3>1
  <2> QED BY <2>1, <2>2, <2>3, <2>4, <2>5, <2>6
<1>11. SentOver' BY <1>6, <1>9 DEF ComposerSound, SentOver, Watched
<1>12. ASSUME NEW j \in DOMAIN sends PROVE SendSound(j)'
  <2>1. SendSound(j) /\ sends[j].session \in ComposerSessions /\ sends[j].text # 0
    BY <1>0 DEF SendSound, SendRecord
  <2>2. CASE j = i BY <1>0, <1>2, <1>4, <1>6, <1>7, <2>1, <2>2 DEF SendSound, Watched
  <2>3. CASE j # i
    <3>1. sends'[j] = sends[j] BY <1>6, <2>3
    <3>2. Watched(j) /\ sends[j].result = "value" => draft'[sends[j].session] # sends[j].text
      BY <1>7, <2>1 DEF SendSound
    <3> QED BY <1>0, <2>1, <3>1, <3>2 DEF SendSound, Watched
  <2> QED BY <2>2, <2>3
<1> QED BY <1>6, <1>8, <1>10, <1>11, <1>12 DEF ComposerSound

(* The composer is taken off the page: it watches none of them any more.   *)
LEMMA UnmountedSends ==
  ASSUME ComposerTypes, NEW how \in {"unmounted", "left"}, Unmount(how)
  PROVE  /\ sends' \in Seq(SendRecord) /\ DOMAIN sends' = DOMAIN sends /\ Len(sends') = Len(sends)
         /\ observed' = 0
         /\ \A j \in DOMAIN sends :
              /\ sends'[j].session = sends[j].session /\ sends'[j].text = sends[j].text
              /\ sends'[j].phase = sends[j].phase /\ sends'[j].applied = sends[j].applied
              /\ sends'[j].result = sends[j].result /\ sends'[j].watch # "watched"
<1>1. /\ Len(sends) \in Nat /\ DOMAIN sends = 1 .. Len(sends)
      /\ \A j \in DOMAIN sends : sends[j] \in SendRecord
  BY SendsNumbered
<1>2. PICK list : list = sends' OBVIOUS
<1>3. list = [j \in 1 .. Len(sends) |->
                IF Mine(j) \/ how = "left" THEN [sends[j] EXCEPT !.watch = how] ELSE sends[j]]
  BY <1>1, <1>2 DEF Unmount, Unwatched
<1>4. ASSUME NEW j \in DOMAIN sends
      PROVE  /\ list[j] \in SendRecord
             /\ list[j].session = sends[j].session /\ list[j].text = sends[j].text
             /\ list[j].phase = sends[j].phase /\ list[j].applied = sends[j].applied
             /\ list[j].result = sends[j].result /\ list[j].watch # "watched"
  <2>1. sends[j] \in SendRecord BY <1>1
  <2>2. CASE Mine(j) \/ how = "left"
    <3>1. PICK x : x = [sends[j] EXCEPT !.watch = how] OBVIOUS
    <3>2. /\ x \in SendRecord /\ x.session = sends[j].session /\ x.text = sends[j].text
          /\ x.phase = sends[j].phase /\ x.applied = sends[j].applied /\ x.result = sends[j].result
          /\ x.watch # "watched"
      BY <2>1, <3>1 DEF SendRecord
    <3>3. list[j] = x BY <1>1, <1>3, <2>2, <3>1
    <3> QED BY <3>2, <3>3
  <2>3. CASE ~(Mine(j) \/ how = "left")
    <3>1. list[j] = sends[j] BY <1>1, <1>3, <2>3
    <3> QED BY <2>1, <2>3, <3>1 DEF Mine
  <2> QED BY <2>2, <2>3
<1>5. list \in Seq(SendRecord) /\ Len(list) = Len(sends) /\ DOMAIN list = DOMAIN sends
  <2>1. list \in [1 .. Len(sends) -> SendRecord] BY <1>1, <1>3, <1>4
  <2>2. list \in Seq(SendRecord) BY <1>1, <2>1, SeqDef
  <2> QED BY <1>1, <2>1, <2>2, LenProperties
<1> QED BY <1>2, <1>4, <1>5 DEF Unmount

(* The page shows another Session, or the state of its own is there or is  *)
(* not: the composer keeps what it watches or forgets all of it.           *)
LEMMA PageStep ==
  ASSUME ComposerSound,
         \/ \E s \in ComposerSessions : ShowSession(s)
         \/ StateLoads \/ StateFails \/ HistoryLoads \/ ClearPendingMessage
  PROVE  ComposerSound'
<1>0. /\ ComposerTypes /\ UNCHANGED <<typed, leftAt, draft>>
      /\ shownSession' \in ComposerSessions /\ mounted' \in BOOLEAN
      /\ \A j \in DOMAIN sends : SendSound(j)
  BY DEF ComposerSound, ComposerTypes, ShowSession, StateLoads, StateFails, HistoryLoads, ClearPendingMessage
<1>1. Unmount("unmounted") \/ UNCHANGED <<preparing, observed, sends>>
  BY DEF ShowSession, StateLoads, StateFails, HistoryLoads, ClearPendingMessage
<1>2. CASE Unmount("unmounted")
  <2>1. PICK how \in {"unmounted", "left"} : how = "unmounted" OBVIOUS
  <2>2. Unmount(how) BY <1>2, <2>1
  <2>3. /\ sends' \in Seq(SendRecord) /\ DOMAIN sends' = DOMAIN sends /\ Len(sends') = Len(sends)
        /\ observed' = 0
        /\ \A j \in DOMAIN sends :
             /\ sends'[j].session = sends[j].session /\ sends'[j].text = sends[j].text
             /\ sends'[j].phase = sends[j].phase /\ sends'[j].applied = sends[j].applied
             /\ sends'[j].result = sends[j].result /\ sends'[j].watch # "watched"
    BY <1>0, <2>2, UnmountedSends
  <2>4. ComposerTypes'
    <3>1. Len(sends) \in Nat BY <1>0, SendsNumbered
    <3> QED BY <1>0, <2>3, <3>1 DEF ComposerTypes
  <2> QED BY <1>0, <2>3, <2>4, SendsGoOn DEF SendSound
<1>3. CASE UNCHANGED <<preparing, observed, sends>>
  <2>1. ComposerTypes' BY <1>0, <1>3 DEF ComposerTypes
  <2> QED BY <1>0, <1>3, <2>1, SendsGoOn DEF SendSound, Watched
<1> QED BY <1>1, <1>2, <1>3

(* The page is left: the drafts are gone, and no submission is watched.    *)
LEMMA LeavePageSound ==
  ASSUME ComposerSound, LeavePage
  PROVE  ComposerSound'
<1>0. /\ ComposerTypes /\ UNCHANGED <<shownSession, loaded, typed>> /\ mounted' = FALSE
      /\ draft' = [s \in ComposerSessions |-> 0] /\ leftAt' = typed /\ Unmount("left")
      /\ Len(sends) \in Nat /\ \A j \in DOMAIN sends : SendSound(j)
  BY SendsNumbered DEF ComposerSound, LeavePage
<1>1. PICK how \in {"unmounted", "left"} : how = "left" OBVIOUS
<1>2. Unmount(how) BY <1>0, <1>1
<1>3. /\ sends' \in Seq(SendRecord) /\ DOMAIN sends' = DOMAIN sends /\ Len(sends') = Len(sends)
      /\ observed' = 0
      /\ \A j \in DOMAIN sends :
           /\ sends'[j].session = sends[j].session /\ sends'[j].text = sends[j].text
           /\ sends'[j].phase = sends[j].phase /\ sends'[j].applied = sends[j].applied
           /\ sends'[j].result = sends[j].result /\ sends'[j].watch # "watched"
  BY <1>0, <1>2, UnmountedSends
<1>4. ComposerTypes'
  <2>1. typed \in [ComposerSessions -> Nat] /\ shownSession \in ComposerSessions
    BY <1>0 DEF ComposerTypes
  <2>2. /\ draft' \in [ComposerSessions -> Nat] /\ \A s \in ComposerSessions : draft'[s] = 0
    BY <1>0
  <2>3. mounted' \in BOOLEAN BY <1>0
  <2> QED BY <1>0, <1>3, <2>1, <2>2, <2>3 DEF ComposerTypes
<1>5. DraftKept' BY <1>0 DEF DraftKept, ComposerTypes
<1>6. SentOver' BY <1>3 DEF SentOver, Watched
<1>7. ASSUME NEW j \in DOMAIN sends PROVE SendSound(j)'
  BY <1>0, <1>3 DEF SendSound, Watched
<1> QED BY <1>3, <1>4, <1>5, <1>6, <1>7 DEF ComposerSound

(* The page as it starts.                                                  *)
LEMMA ComposerStarts == ComposerInit => ComposerSound
<1> HAVE ComposerInit
<1>1. shownSession \in ComposerSessions BY ComposerAssumption DEF ComposerInit
<1>2. <<>> \in Seq(SendRecord) /\ Len(<<>>) = 0 /\ DOMAIN <<>> = {} BY EmptySeq
<1>3. PICK zero : zero = [s \in ComposerSessions |-> 0] OBVIOUS
<1>4. zero \in [ComposerSessions -> Nat] /\ \A s \in ComposerSessions : zero[s] = 0 BY <1>3
<1>5. typed = zero /\ leftAt = zero /\ draft = zero BY <1>3 DEF ComposerInit
<1>6. ComposerTypes
  <2>1. mounted = FALSE /\ sends = <<>> /\ observed = 0 BY DEF ComposerInit
  <2>2. sends \in Seq(SendRecord) /\ observed \in 0 .. Len(sends) BY <1>2, <2>1
  <2>3. \A s \in ComposerSessions : draft[s] \in {0, typed[s]} BY <1>4, <1>5
  <2> QED BY <1>1, <1>4, <1>5, <2>1, <2>2, <2>3 DEF ComposerTypes
<1>7. DraftKept
  <2>1. \A s \in ComposerSessions : typed[s] = 0 /\ leftAt[s] = 0 BY <1>4, <1>5
  <2>2. \A s \in ComposerSessions : ~(typed[s] > leftAt[s]) BY <2>1
  <2> QED BY <2>2, Zenon DEF DraftKept
<1> QED BY <1>2, <1>6, <1>7 DEF ComposerSound, ComposerInit, SentOver

(* A draft is kept until the server has it, and is not sent again by a     *)
(* composer that knows of it (Composer.tsx, ConversationPage.tsx): for any *)
(* Sessions, texts and submissions.                                        *)
THEOREM DraftsAreSentOnce == ComposerSpec => []DraftSentOnce
<1>1. ComposerSound /\ [ComposerNext]_composerVars => ComposerSound'
  <2> SUFFICES ASSUME ComposerSound, [ComposerNext]_composerVars PROVE ComposerSound' OBVIOUS
  <2>1. CASE TypeDraft BY <2>1, TypeDraftSound
  <2>2. CASE SubmitDraft BY <2>2, SubmitDraftSound
  <2>3. CASE \E i \in DOMAIN sends : PostMessage(i) \/ ServeMessage(i) \/ AnswerMessage(i)
    BY <2>3, PostMessageSound, ServeMessageSound, AnswerMessageSound
  <2>4. CASE \/ \E s \in ComposerSessions : ShowSession(s)
             \/ StateLoads \/ StateFails \/ HistoryLoads \/ ClearPendingMessage
    BY <2>4, PageStep
  <2>5. CASE LeavePage BY <2>5, LeavePageSound
  <2>6. CASE UNCHANGED composerVars
    <3>1. UNCHANGED <<shownSession, mounted, typed, leftAt, draft, preparing, sends, observed>>
      BY <2>6 DEF composerVars
    <3>2. ComposerTypes' /\ \A j \in DOMAIN sends : SendSound(j)
      BY <3>1 DEF ComposerSound, ComposerTypes
    <3> QED BY <3>1, <3>2, SendsGoOn DEF SendSound, Watched
  <2> QED BY <2>1, <2>2, <2>3, <2>4, <2>5, <2>6 DEF ComposerNext
<1>2. ComposerSound => DraftSentOnce
  <2> SUFFICES ASSUME ComposerSound PROVE SentOnce BY DEF DraftSentOnce, ComposerSound
  <2> QED BY DEF ComposerSound, SentOnce, SentOver, Received, Watched
<1> QED BY <1>1, <1>2, ComposerStarts, PTL DEF ComposerSpec

-----------------------------------------------------------------------------
(* The lists of the Sessions.  DirectoryConverges is not inductive: what   *)
(* the queries hold is related to what the server has by the fetches under *)
(* way and by the changes the client has not heard of.                     *)
Holdings == UNION {[D -> SUBSET DirSessions] : D \in SUBSET Lists}
DirClients ==
  [cache : Holdings, asking : SUBSET Lists, answers : Holdings, stale : SUBSET Lists, late : SUBSET Lists,
   first : SUBSET Lists]

(* A list put into the cache or among the answers.                         *)
LEMMA HoldingWith ==
  ASSUME NEW h \in Holdings, NEW q \in Lists, NEW data \in SUBSET DirSessions
  PROVE  LET g == With(h, q, data)
         IN  /\ g \in Holdings /\ DOMAIN g = {q} \cup DOMAIN h
             /\ g[q] = data /\ \A x \in DOMAIN h : x # q => g[x] = h[x]
<1> DEFINE g == With(h, q, data)
<1>1. PICK D \in SUBSET Lists : h \in [D -> SUBSET DirSessions] BY DEF Holdings
<1>2. g = [x \in {q} \cup D |-> IF x \in {q} THEN data ELSE h[x]]
  BY <1>1 DEF With
<1>3. g \in [{q} \cup D -> SUBSET DirSessions] BY <1>1, <1>2
<1> QED BY <1>1, <1>2, <1>3 DEF Holdings

(* And some taken out.                                                     *)
LEMMA HoldingLess ==
  ASSUME NEW h \in Holdings, NEW S
  PROVE  LET g == Restrict(h, DOMAIN h \ S)
         IN  g \in Holdings /\ DOMAIN g = DOMAIN h \ S /\ \A x \in DOMAIN g : g[x] = h[x]
<1>1. PICK D \in SUBSET Lists : h \in [D -> SUBSET DirSessions] BY DEF Holdings
<1>2. Restrict(h, DOMAIN h \ S) \in [D \ S -> SUBSET DirSessions] BY <1>1 DEF Restrict
<1>3. D \ S \in SUBSET Lists BY <1>1
<1> QED BY <1>1, <1>2, <1>3 DEF Holdings, Restrict

(* What a step of the client's queries may do: Render only fetches more.   *)
LEMMA RenderIs ==
  ASSUME NEW c \in DirClients, NEW open \in BOOLEAN
  PROVE  LET d == Render(c, open)
         IN  /\ d \in DirClients /\ d.cache = c.cache /\ d.answers = c.answers /\ d.stale = c.stale
             /\ d.late = c.late /\ c.asking \subseteq d.asking
             /\ d.first = c.first \cup ((d.asking \ c.asking) \ DOMAIN c.cache)
<1> DEFINE wanted == {q \in Observed(open) \ c.asking : q \notin DOMAIN c.cache \/ q \in c.stale}
<1>1. wanted \subseteq Lists BY DEF Observed, Lists
<1>2. wanted \cap c.asking = {} OBVIOUS
<1>3. Render(c, open) = [c EXCEPT !.asking = @ \cup wanted, !.first = @ \cup (wanted \ DOMAIN c.cache)]
  BY DEF Render
<1> HIDE DEF wanted
<1> QED BY <1>1, <1>2, <1>3 DEF DirClients

(* A list that is set is no longer stale.                                  *)
LEMMA SetIs ==
  ASSUME NEW c \in DirClients, NEW q \in Lists, NEW data \in SUBSET DirSessions
  PROVE  LET d == Set(c, q, data)
         IN  /\ d \in DirClients /\ DOMAIN d.cache = {q} \cup DOMAIN c.cache
             /\ d.cache[q] = data /\ \A x \in DOMAIN c.cache : x # q => d.cache[x] = c.cache[x]
             /\ d = [c EXCEPT !.cache = d.cache, !.stale = c.stale \ {q}]
<1>1. c.cache \in Holdings BY DEF DirClients
<1> DEFINE h == With(c.cache, q, data)
<1>2. /\ h \in Holdings /\ DOMAIN h = {q} \cup DOMAIN c.cache
      /\ h[q] = data /\ \A x \in DOMAIN c.cache : x # q => h[x] = c.cache[x]
  BY <1>1, HoldingWith
<1>3. Set(c, q, data) = [c EXCEPT !.cache = h, !.stale = c.stale \ {q}] BY DEF Set
<1> HIDE DEF h
<1> QED BY <1>2, <1>3 DEF DirClients

(* A list that is in the cache, with some Sessions added and some removed. *)
Revised(c, d) ==
  /\ d \in DirClients /\ DOMAIN d.cache = DOMAIN c.cache
  /\ d.asking = c.asking /\ d.answers = c.answers /\ d.late = c.late /\ d.first = c.first

(* The page changes a list it holds, and only then.                        *)
LEMMA UpdateIs ==
  ASSUME NEW c \in DirClients, NEW q \in Lists, NEW plus \in SUBSET DirSessions, NEW minus
  PROVE  LET d == Update(c, q, plus, minus)
         IN  /\ Revised(c, d)
             /\ \A x \in DOMAIN c.cache : d.cache[x] \subseteq c.cache[x] \cup plus
<1>1. CASE q \notin DOMAIN c.cache BY <1>1 DEF Update, Revised
<1>2. CASE q \in DOMAIN c.cache
  <2> DEFINE data == (c.cache[q] \cup plus) \ minus
  <2>1. c.cache[q] \in SUBSET DirSessions BY <1>2 DEF DirClients, Holdings
  <2>2. data \in SUBSET DirSessions BY <2>1
  <2>3. Update(c, q, plus, minus) = Set(c, q, data) BY <1>2 DEF Update
  <2>4. data \subseteq c.cache[q] \cup plus OBVIOUS
  <2> HIDE DEF data
  <2>5. LET d == Set(c, q, data)
        IN  /\ d \in DirClients /\ DOMAIN d.cache = {q} \cup DOMAIN c.cache
            /\ d.cache[q] = data /\ \A x \in DOMAIN c.cache : x # q => d.cache[x] = c.cache[x]
            /\ d = [c EXCEPT !.cache = d.cache, !.stale = c.stale \ {q}]
    BY <2>2, SetIs
  <2> DEFINE e == Set(c, q, data)
  <2>6. e.asking = c.asking /\ e.answers = c.answers /\ e.late = c.late /\ e.first = c.first
    BY <2>5 DEF DirClients
  <2>7. DOMAIN e.cache = DOMAIN c.cache BY <1>2, <2>5
  <2>8. \A x \in DOMAIN c.cache : e.cache[x] \subseteq c.cache[x] \cup plus BY <2>4, <2>5
  <2> QED BY <2>3, <2>5, <2>6, <2>7, <2>8 DEF Revised
<1> QED BY <1>1, <1>2

(* After an invalidation of both lists nothing that is cached counts, and  *)
(* an answer under way is the first of its list.                           *)
LEMMA InvalidateIs ==
  ASSUME NEW c \in DirClients
  PROVE  LET d == Invalidate(c, Lists)
         IN  /\ d \in DirClients /\ d.cache = c.cache /\ d.late = c.late
             /\ DOMAIN c.cache \subseteq d.stale
             /\ d.asking = c.asking \ DOMAIN c.cache /\ d.first = c.first \ DOMAIN c.cache
             /\ DOMAIN d.answers = DOMAIN c.answers \ DOMAIN c.cache
             /\ \A q \in DOMAIN d.answers : d.answers[q] = c.answers[q]
<1>1. c.answers \in Holdings /\ c.cache \in Holdings BY DEF DirClients
<1>2. DOMAIN c.cache \subseteq Lists BY <1>1 DEF Holdings
<1> DEFINE h == Restrict(c.answers, DOMAIN c.answers \ DOMAIN c.cache)
<1>3. h \in Holdings /\ DOMAIN h = DOMAIN c.answers \ DOMAIN c.cache /\ \A x \in DOMAIN h : h[x] = c.answers[x]
  BY <1>1, HoldingLess
<1>4. Lists \cap DOMAIN c.cache = DOMAIN c.cache BY <1>2
<1>5. Invalidate(c, Lists) =
        [c EXCEPT !.stale = @ \cup (Lists \cap (DOMAIN c.cache \cup c.asking)),
                  !.asking = @ \ DOMAIN c.cache, !.first = @ \ DOMAIN c.cache, !.answers = h]
  BY <1>4 DEF Invalidate
<1> HIDE DEF h
<1> QED BY <1>2, <1>3, <1>5 DEF DirClients

(* The answer of a change that the client hears of: both lists are read    *)
(* again, whatever was under way.                                          *)
ReadAgain(c, d) ==
  /\ d \in DirClients /\ DOMAIN d.cache = DOMAIN c.cache /\ d.late = c.late
  /\ DOMAIN c.cache \subseteq d.stale
  /\ d.asking = c.asking \ DOMAIN c.cache /\ d.first = c.first \ DOMAIN c.cache
  /\ DOMAIN d.answers = DOMAIN c.answers \ DOMAIN c.cache
  /\ \A q \in DOMAIN d.answers : d.answers[q] = c.answers[q]

(* A list that is changed and invalidated.                                 *)
LEMMA RevisedRefreshed ==
  ASSUME NEW c \in DirClients, NEW e, Revised(c, e)
  PROVE  /\ ReadAgain(c, Invalidate(e, Lists)) /\ Invalidate(e, Lists).cache = e.cache
<1>1. e \in DirClients BY DEF Revised
<1>2. LET d == Invalidate(e, Lists)
      IN  /\ d \in DirClients /\ d.cache = e.cache /\ d.late = e.late
          /\ DOMAIN e.cache \subseteq d.stale
          /\ d.asking = e.asking \ DOMAIN e.cache /\ d.first = e.first \ DOMAIN e.cache
          /\ DOMAIN d.answers = DOMAIN e.answers \ DOMAIN e.cache
          /\ \A q \in DOMAIN d.answers : d.answers[q] = e.answers[q]
  BY <1>1, InvalidateIs
<1> QED BY <1>2 DEF Revised, ReadAgain

(* Both lists, one after the other.                                        *)
LEMMA RevisedTwice ==
  ASSUME NEW c \in DirClients, NEW q \in Lists, NEW r \in Lists, NEW plus \in SUBSET DirSessions, NEW minus,
         NEW more \in SUBSET DirSessions, NEW less
  PROVE  LET d == Update(Update(c, q, plus, minus), r, more, less)
         IN  /\ Revised(c, d)
             /\ \A x \in DOMAIN c.cache : d.cache[x] \subseteq c.cache[x] \cup plus \cup more
<1> DEFINE e == Update(c, q, plus, minus)
           d == Update(e, r, more, less)
<1>1. Revised(c, e) /\ \A x \in DOMAIN c.cache : e.cache[x] \subseteq c.cache[x] \cup plus BY UpdateIs
<1>2. e \in DirClients BY <1>1 DEF Revised
<1> HIDE DEF e
<1>3. Revised(e, d) /\ \A x \in DOMAIN e.cache : d.cache[x] \subseteq e.cache[x] \cup more BY <1>2, UpdateIs
<1> HIDE DEF d
<1>4. Revised(c, d) BY <1>1, <1>3 DEF Revised
<1>5. \A x \in DOMAIN c.cache : d.cache[x] \subseteq c.cache[x] \cup plus \cup more
  BY <1>1, <1>3 DEF Revised
<1> QED BY <1>4, <1>5 DEF d, e

Creating == {"create", "clear", "fork"}
DirKinds == Menu \cup {"rename", "create", "sidebar_archive", "delete", "discard", "over"}
DirOps ==
  [kind : DirKinds, of : DirSessions \cup {NoPage}, made : DirSessions \cup {NoPage},
   phase : {"posted", "served", "settling", "answered"}, applied : BOOLEAN, mine : BOOLEAN, here : BOOLEAN]

(* What the answer to a change leaves of the queries.                      *)
LEMMA HeardIs ==
  ASSUME NEW c \in DirClients, "sessions" \in DOMAIN c.cache, NEW op \in DirOps,
         op.kind \notin {"over", "compact"},
         op.kind # "create" => op.of \in DirSessions,
         op.kind \in Creating => op.made \in DirSessions
  PROVE  LET d == Heard(c, op)
         IN  /\ ReadAgain(c, d)
             /\ \A x \in DOMAIN c.cache : d.cache[x] \subseteq c.cache[x] \cup ({op.of, op.made} \ {NoPage})
<1> DEFINE named == {op.of, op.made} \ {NoPage}
           Within(e) == Revised(c, e) /\ \A x \in DOMAIN c.cache : e.cache[x] \subseteq c.cache[x] \cup named
<1>1. ASSUME NEW e, Within(e), Heard(c, op) = Invalidate(e, Lists)
      PROVE  /\ ReadAgain(c, Heard(c, op))
             /\ \A x \in DOMAIN c.cache : Heard(c, op).cache[x] \subseteq c.cache[x] \cup named
  BY <1>1, RevisedRefreshed
<1>2. NoPage \notin DirSessions BY DirectoryAssumption
<1>3. {} \subseteq DirSessions /\ "sessions" \in Lists /\ "archived" \in Lists BY DEF Lists
<1>4. ASSUME op.of \in DirSessions PROVE {op.of} \subseteq DirSessions /\ {op.of} \subseteq named BY <1>2, <1>4
<1>5. ASSUME op.made \in DirSessions PROVE {op.made} \subseteq DirSessions /\ {op.made} \subseteq named BY <1>2, <1>5
<1>6. CASE op.kind = "create"
  <2> DEFINE e == Set(c, "sessions", Listed(c) \cup {op.made})
  <2>1. Listed(c) = c.cache["sessions"] BY DEF Listed
  <2>2. c.cache["sessions"] \in SUBSET DirSessions BY DEF DirClients, Holdings
  <2>3. op.made \in DirSessions BY <1>6 DEF Creating
  <2> DEFINE data == c.cache["sessions"] \cup {op.made}
  <2>4. data \in SUBSET DirSessions BY <2>2, <2>3
  <2>5. e = Set(c, "sessions", data) BY <2>1
  <2>6. data \subseteq c.cache["sessions"] \cup named BY <1>5, <2>3
  <2> HIDE DEF data, e
  <2>7. LET d == Set(c, "sessions", data)
        IN  /\ d \in DirClients /\ DOMAIN d.cache = {"sessions"} \cup DOMAIN c.cache
            /\ d.cache["sessions"] = data /\ \A x \in DOMAIN c.cache : x # "sessions" => d.cache[x] = c.cache[x]
            /\ d = [c EXCEPT !.cache = d.cache, !.stale = c.stale \ {"sessions"}]
    BY <1>3, <2>4, SetIs
  <2>8. e.asking = c.asking /\ e.answers = c.answers /\ e.late = c.late /\ e.first = c.first
    BY <2>5, <2>7 DEF DirClients
  <2>9. DOMAIN e.cache = DOMAIN c.cache BY <2>5, <2>7
  <2>10. \A x \in DOMAIN c.cache : e.cache[x] \subseteq c.cache[x] \cup named BY <2>5, <2>6, <2>7
  <2>11. Within(e) BY <2>5, <2>7, <2>8, <2>9, <2>10 DEF Revised
  <2>12. Heard(c, op) = Invalidate(e, Lists) BY <1>6 DEF Heard, e
  <2> QED BY <1>1, <2>11, <2>12
<1>7. CASE op.kind \in {"archive", "sidebar_archive"}
  <2> DEFINE e == Update(Update(c, "sessions", {}, {op.of}), "archived", {op.of}, {})
  <2>1. op.of \in DirSessions BY <1>7
  <2>2. Revised(c, e) /\ \A x \in DOMAIN c.cache : e.cache[x] \subseteq c.cache[x] \cup {} \cup {op.of}
    BY <1>3, <1>4, <2>1, RevisedTwice
  <2>3. Heard(c, op) = Invalidate(e, Lists) BY <1>7 DEF Heard, Filed
  <2> HIDE DEF e
  <2>4. Within(e) BY <1>4, <2>1, <2>2
  <2> QED BY <1>1, <2>3, <2>4
<1>8. CASE op.kind = "unarchive"
  <2> DEFINE e == Update(Update(c, "sessions", {op.of}, {}), "archived", {}, {op.of})
  <2>1. op.of \in DirSessions BY <1>8
  <2>2. Revised(c, e) /\ \A x \in DOMAIN c.cache : e.cache[x] \subseteq c.cache[x] \cup {op.of} \cup {}
    <3>1. {op.of} \in SUBSET DirSessions /\ {} \in SUBSET DirSessions BY <2>1
    <3> QED BY <1>3, <3>1, RevisedTwice, Zenon
  <2>3. Heard(c, op) = Invalidate(e, Lists) BY <1>8 DEF Heard, Unfiled
  <2> HIDE DEF e
  <2>4. Within(e) BY <1>4, <2>1, <2>2
  <2> QED BY <1>1, <2>3, <2>4
<1>9. CASE op.kind = "fork"
  <2> DEFINE e == Update(c, "sessions", {op.made}, {})
  <2>1. op.made \in DirSessions BY <1>9 DEF Creating
  <2>2. Revised(c, e) /\ \A x \in DOMAIN c.cache : e.cache[x] \subseteq c.cache[x] \cup {op.made}
    BY <1>3, <1>5, <2>1, UpdateIs
  <2>3. Heard(c, op) = Invalidate(e, Lists) BY <1>9 DEF Heard
  <2> HIDE DEF e
  <2>4. Within(e) BY <1>5, <2>1, <2>2
  <2> QED BY <1>1, <2>3, <2>4
<1>10. CASE op.kind = "rename"
  <2> DEFINE e == Update(c, "sessions", {op.of}, {})
  <2>1. op.of \in DirSessions BY <1>10
  <2>2. Revised(c, e) /\ \A x \in DOMAIN c.cache : e.cache[x] \subseteq c.cache[x] \cup {op.of}
    BY <1>3, <1>4, <2>1, UpdateIs
  <2>3. Heard(c, op) = Invalidate(e, Lists) BY <1>10 DEF Heard
  <2> HIDE DEF e
  <2>4. Within(e) BY <1>4, <2>1, <2>2
  <2> QED BY <1>1, <2>3, <2>4
<1>11. CASE op.kind \in {"clear", "discard"}
  <2> DEFINE e == Update(c, "sessions", {}, {op.of})
  <2>1. Revised(c, e) /\ \A x \in DOMAIN c.cache : e.cache[x] \subseteq c.cache[x] \cup {}
    BY <1>3, UpdateIs
  <2>2. Heard(c, op) = Invalidate(e, Lists) BY <1>11 DEF Heard
  <2> HIDE DEF e
  <2>3. Within(e) BY <2>1
  <2> QED BY <1>1, <2>2, <2>3
<1>12. CASE op.kind = "delete"
  <2> DEFINE e == Update(Update(c, "sessions", {}, {op.of}), "archived", {}, {op.of})
  <2>1. Revised(c, e) /\ \A x \in DOMAIN c.cache : e.cache[x] \subseteq c.cache[x] \cup {} \cup {}
    BY <1>3, RevisedTwice
  <2>2. Heard(c, op) = Invalidate(e, Lists) BY <1>12 DEF Heard, Unlisted
  <2> HIDE DEF e
  <2>3. Within(e) BY <2>1
  <2> QED BY <1>1, <2>2, <2>3
<1>13. op.kind \in DirKinds BY DEF DirOps
<1> QED BY <1>6, <1>7, <1>8, <1>9, <1>10, <1>11, <1>12, <1>13 DEF DirKinds, Menu

DirServerOK ==
  /\ active \cap filed = {} /\ active \cup filed \subseteq born /\ born \subseteq DirSessions
  /\ unused \subseteq active \cup filed
DirClientOK(c) ==
  /\ c \in DirClients /\ "sessions" \in DOMAIN c.cache /\ DOMAIN c.answers \subseteq c.asking
  /\ c.first = c.asking \ DOMAIN c.cache
  /\ \A q \in DOMAIN c.cache : c.cache[q] \subseteq born
  /\ \A q \in DOMAIN c.answers : c.answers[q] \subseteq born
DirOpOK(op) ==
  /\ op \in DirOps /\ op.of \in born \cup {NoPage} /\ op.made \in born \cup {NoPage}
  /\ op.kind \notin {"create", "over"} => op.of \in born
  /\ op.kind \in Creating /\ op.phase = "served" /\ op.applied => op.made \in born
  /\ op.kind = "over" => op.phase = "answered"
  /\ op.phase = "posted" => ~op.applied
DirTyped ==
  /\ DirServerOK /\ DirClientOK(client) /\ dialog \in BOOLEAN
  /\ page \in born \cup {NoPage} /\ leaving \in born \cup {NoPage}
  /\ ops \in Seq(DirOps) /\ \A i \in DOMAIN ops : DirOpOK(ops[i])

(* A change is unheard of while its answer is under way, or for good. What *)
(* the client holds, or is about to, is otherwise what the server has,     *)
(* unless it is known to be out of date or came late with a first fetch.   *)
Lagging(list) ==
  \E i \in DOMAIN list : list[i].applied /\ list[i].kind # "compact" /\ list[i].phase \in {"served", "answered"}
ListsTrue(c) ==
  \A q \in Lists :
    /\ q \in DOMAIN c.answers \ c.first => c.answers[q] = ServerReads(q)
    /\ q \in DOMAIN c.cache \ (c.late \cup c.stale \cup c.asking) => c.cache[q] = ServerReads(q)
DirFollows == Lagging(ops) \/ ListsTrue(client)

(* Rendering keeps what is known of the queries.                           *)
LEMMA RenderOK ==
  ASSUME NEW c, DirClientOK(c), NEW open \in BOOLEAN
  PROVE  /\ DirClientOK(Render(c, open))
         /\ ListsTrue(c) => ListsTrue(Render(c, open))
<1> DEFINE d == Render(c, open)
<1>1. c \in DirClients BY DEF DirClientOK
<1>2. /\ d \in DirClients /\ d.cache = c.cache /\ d.answers = c.answers /\ d.stale = c.stale
      /\ d.late = c.late /\ c.asking \subseteq d.asking
      /\ d.first = c.first \cup ((d.asking \ c.asking) \ DOMAIN c.cache)
  BY <1>1, RenderIs
<1> HIDE DEF d
<1>3. DirClientOK(d) BY <1>2 DEF DirClientOK
<1>4. ListsTrue(c) => ListsTrue(d) BY <1>2 DEF ListsTrue
<1> QED BY <1>3, <1>4 DEF d

(* Who hears of a change knows nothing that is out of date for sure.       *)
LEMMA RefreshedOK ==
  ASSUME NEW c, DirClientOK(c), NEW d, ReadAgain(c, d), \A x \in DOMAIN c.cache : d.cache[x] \subseteq born
  PROVE  DirClientOK(d) /\ ListsTrue(d)
<1>1. c \in DirClients BY DEF DirClientOK
<1>2. DirClientOK(d) BY <1>1 DEF DirClientOK, ReadAgain
<1>3. DOMAIN d.answers \subseteq d.first BY DEF DirClientOK, ReadAgain
<1>4. DOMAIN d.cache \subseteq d.stale BY DEF ReadAgain
<1> QED BY <1>2, <1>3, <1>4 DEF ListsTrue

(* Another page disowns the changes of the menu: it says no more of them.   *)
LEMMA TurnedIs ==
  ASSUME NEW list \in Seq(DirOps), NEW p
  PROVE  LET l == Turned(list, p)
         IN  /\ l \in Seq(DirOps) /\ DOMAIN l = DOMAIN list
             /\ \A i \in DOMAIN list :
                  /\ l[i].kind = list[i].kind /\ l[i].of = list[i].of /\ l[i].made = list[i].made
                  /\ l[i].phase = list[i].phase /\ l[i].applied = list[i].applied
<1>1. CASE p = page BY <1>1 DEF Turned
<1>2. CASE p # page
  <2> DEFINE l == [i \in DOMAIN list |->
          IF list[i].kind \in Menu \cup {"rename", "discard"} THEN [list[i] EXCEPT !.mine = FALSE] ELSE list[i]]
  <2>1. Turned(list, p) = l BY <1>2 DEF Turned
  <2>2. \A i \in DOMAIN list : list[i] \in DirOps OBVIOUS
  <2>3. \A i \in DOMAIN list : l[i] \in DirOps BY <2>2 DEF DirOps
  <2>4. \A i \in DOMAIN list :
          /\ l[i].kind = list[i].kind /\ l[i].of = list[i].of /\ l[i].made = list[i].made
          /\ l[i].phase = list[i].phase /\ l[i].applied = list[i].applied
    BY <2>2 DEF DirOps
  <2>5. DOMAIN list = 1..Len(list) /\ Len(list) \in Nat OBVIOUS
  <2>6. l \in [1..Len(list) -> DirOps] BY <2>3, <2>5
  <2>7. l \in Seq(DirOps) BY <2>5, <2>6
  <2> HIDE DEF l
  <2> QED BY <2>1, <2>4, <2>6, <2>7, <2>5
<1> QED BY <1>1, <1>2

(* Which takes away nothing that is known of them.                         *)
LEMMA TurnedOK ==
  ASSUME NEW list \in Seq(DirOps), NEW p, \A i \in DOMAIN list : DirOpOK(list[i])
  PROVE  /\ Turned(list, p) \in Seq(DirOps)
         /\ \A i \in DOMAIN Turned(list, p) : DirOpOK(Turned(list, p)[i])
         /\ Lagging(Turned(list, p)) <=> Lagging(list)
<1> DEFINE l == Turned(list, p)
<1>1. /\ l \in Seq(DirOps) /\ DOMAIN l = DOMAIN list
      /\ \A i \in DOMAIN list :
           /\ l[i].kind = list[i].kind /\ l[i].of = list[i].of /\ l[i].made = list[i].made
           /\ l[i].phase = list[i].phase /\ l[i].applied = list[i].applied
  BY TurnedIs
<1> HIDE DEF l
<1>2. \A i \in DOMAIN l : l[i] \in DirOps BY <1>1
<1>3. \A i \in DOMAIN l : DirOpOK(l[i]) BY <1>1, <1>2 DEF DirOpOK
<1>4. Lagging(l) <=> Lagging(list) BY <1>1 DEF Lagging
<1> QED BY <1>1, <1>3, <1>4 DEF l

(* The page turns, and what it now observes is fetched.                    *)
LEMMA GoToOK ==
  ASSUME DirTyped, NEW p \in born \cup {NoPage}, NEW c, DirClientOK(c), NEW list \in Seq(DirOps),
         \A i \in DOMAIN list : DirOpOK(list[i]), Lagging(list) \/ ListsTrue(c),
         GoTo(p, c, list), UNCHANGED <<dirServerVars, dialog>>
  PROVE  DirTyped' /\ DirFollows'
<1>1. /\ DirClientOK(Render(c, dialog)) /\ (ListsTrue(c) => ListsTrue(Render(c, dialog)))
  BY RenderOK DEF DirTyped
<1>2. /\ Turned(list, p) \in Seq(DirOps)
      /\ \A i \in DOMAIN Turned(list, p) : DirOpOK(Turned(list, p)[i])
      /\ Lagging(Turned(list, p)) <=> Lagging(list)
  BY TurnedOK
<1>3. /\ page' = p /\ leaving' \in {leaving, page} /\ ops' = Turned(list, p) /\ client' = Render(c, dialog)
  BY DEF GoTo
<1>4. active' = active /\ filed' = filed /\ unused' = unused /\ born' = born /\ dialog' = dialog
  BY DEF dirServerVars
<1>5. DirServerOK' BY <1>4 DEF DirTyped, DirServerOK
<1>6. DirClientOK(client)' BY <1>1, <1>3, <1>4 DEF DirClientOK
<1>7. ops' \in Seq(DirOps) /\ \A i \in DOMAIN ops' : DirOpOK(ops[i])'
  BY <1>2, <1>3, <1>4 DEF DirOpOK
<1>8. DirTyped' BY <1>3, <1>4, <1>5, <1>6, <1>7 DEF DirTyped
<1>9. \A q : ServerReads(q)' = ServerReads(q) BY <1>4 DEF ServerReads
<1>10. ListsTrue(Render(c, dialog)) => ListsTrue(client)' BY <1>3, <1>9 DEF ListsTrue
<1>11. Lagging(ops)' <=> Lagging(list) BY <1>2, <1>3
<1> QED BY <1>1, <1>8, <1>10, <1>11 DEF DirFollows

(* The page starts with the list its first render was given.              *)
LEMMA DirStart == ASSUME DirInit PROVE DirTyped /\ DirFollows
<1> DEFINE c == [cache |-> [q \in {"sessions"} |-> active], asking |-> {}, answers |-> <<>>,
                 stale |-> {}, late |-> {}, first |-> {}]
<1>1. /\ FirstSessions \subseteq DirSessions /\ NoPage \notin DirSessions BY DirectoryAssumption
<1>2. <<>> \in [{} -> SUBSET DirSessions] /\ DOMAIN <<>> = {} OBVIOUS
<1>3. <<>> \in Holdings BY <1>2 DEF Holdings
<1>4. active \subseteq DirSessions /\ active = born BY <1>1 DEF DirInit
<1>5. c.cache \in [{"sessions"} -> SUBSET DirSessions] /\ {"sessions"} \in SUBSET Lists BY <1>4 DEF Lists
<1>6. c.cache \in Holdings BY <1>5 DEF Holdings
<1>7. c \in DirClients BY <1>3, <1>6 DEF DirClients
<1>8. DirClientOK(c) BY <1>2, <1>4, <1>7 DEF DirClientOK
<1>9. ListsTrue(c) BY <1>2 DEF ListsTrue, ServerReads
<1>10. client = Render(c, FALSE) BY DEF DirInit
<1> HIDE DEF c
<1>11. DirClientOK(client) /\ ListsTrue(client) BY <1>8, <1>9, <1>10, RenderOK
<1>12. DirServerOK BY <1>1 DEF DirInit, DirServerOK
<1>13. ops = <<>> /\ ops \in Seq(DirOps) /\ DOMAIN ops = {} BY DEF DirInit
<1> QED BY <1>11, <1>12, <1>13 DEF DirTyped, DirFollows, DirInit

(* The client alone moves. *)
LEMMA ClientAlone ==
  ASSUME DirTyped, DirFollows, UNCHANGED <<dirServerVars, page, leaving, ops>>,
         dialog' \in BOOLEAN, DirClientOK(client'), ListsTrue(client) => ListsTrue(client')
  PROVE  DirTyped' /\ DirFollows'
<1>1. active' = active /\ filed' = filed /\ unused' = unused /\ born' = born
  BY DEF dirServerVars
<1>2. DirServerOK' BY <1>1 DEF DirTyped, DirServerOK
<1>3. DirClientOK(client)' BY <1>1 DEF DirClientOK
<1>4. \A i \in DOMAIN ops' : DirOpOK(ops[i])' BY <1>1 DEF DirOpOK, DirTyped
<1>5. DirTyped' BY <1>1, <1>2, <1>3, <1>4 DEF DirTyped
<1>6. \A q : ServerReads(q)' = ServerReads(q) BY <1>1 DEF ServerReads
<1>7. ListsTrue(client') => ListsTrue(client)' BY <1>6 DEF ListsTrue
<1>8. Lagging(ops)' <=> Lagging(ops) OBVIOUS
<1> QED BY <1>5, <1>7, <1>8 DEF DirFollows

(* The server answers a fetch: with what it has now.                       *)
LEMMA AnswerListFollows ==
  ASSUME DirTyped, DirFollows, NEW q \in client.asking, AnswerList(q) PROVE DirTyped' /\ DirFollows'
<1> DEFINE c == client
           d == client'
           h == With(c.answers, q, ServerReads(q))
<1>1. DirClientOK(c) /\ c \in DirClients /\ dialog \in BOOLEAN BY DEF DirTyped, DirClientOK
<1>2. q \in Lists /\ c.answers \in Holdings BY <1>1 DEF DirClients
<1>3. ServerReads(q) \subseteq born /\ ServerReads(q) \in SUBSET DirSessions BY DEF ServerReads, DirTyped, DirServerOK
<1>4. /\ h \in Holdings /\ DOMAIN h = {q} \cup DOMAIN c.answers
      /\ h[q] = ServerReads(q) /\ \A x \in DOMAIN c.answers : x # q => h[x] = c.answers[x]
  BY <1>2, <1>3, HoldingWith
<1>5. d = [c EXCEPT !.answers = h] BY DEF AnswerList
<1>6. UNCHANGED <<dirServerVars, page, leaving, dialog, ops>> BY DEF AnswerList
<1> HIDE DEF h, d, c
<1>7. /\ d \in DirClients /\ d.answers = h /\ d.cache = c.cache /\ d.asking = c.asking /\ d.stale = c.stale
      /\ d.late = c.late /\ d.first = c.first
  BY <1>1, <1>4, <1>5 DEF DirClients
<1>8. q \in c.asking BY DEF c
<1>9. DirClientOK(d) BY <1>1, <1>3, <1>4, <1>7, <1>8 DEF DirClientOK
<1>10. ListsTrue(c) => ListsTrue(d) BY <1>4, <1>7 DEF ListsTrue
<1> QED BY <1>1, <1>6, <1>9, <1>10, ClientAlone DEF c, d

(* The answer lands: what it carries has been kept true while it travelled. *)
LEMMA LandListFollows ==
  ASSUME DirTyped, DirFollows, NEW q \in client.asking, LandList(q) PROVE DirTyped' /\ DirFollows'
<1> DEFINE c == client
           answer == c.answers[q]
           e == Set(c, q, answer)
           late == answer # ServerReads(q) /\ q \in c.first
           h == Restrict(c.answers, DOMAIN c.answers \ {q})
           d == [e EXCEPT !.asking = @ \ {q}, !.first = @ \ {q}, !.answers = h,
                          !.late = IF late THEN @ \cup {q} ELSE @ \ {q}]
<1>1. DirClientOK(c) /\ c \in DirClients /\ dialog \in BOOLEAN BY DEF DirTyped, DirClientOK
<1>2. q \in Lists /\ c.answers \in Holdings BY <1>1 DEF DirClients
<1>3. q \in DOMAIN c.answers BY DEF LandList
<1>4. answer \in SUBSET DirSessions /\ answer \subseteq born BY <1>1, <1>3 DEF DirClientOK, DirTyped, DirServerOK
<1>5. /\ e \in DirClients /\ DOMAIN e.cache = {q} \cup DOMAIN c.cache
      /\ e.cache[q] = answer /\ \A x \in DOMAIN c.cache : x # q => e.cache[x] = c.cache[x]
      /\ e = [c EXCEPT !.cache = e.cache, !.stale = c.stale \ {q}]
  BY <1>1, <1>2, <1>4, SetIs
<1>6. h \in Holdings /\ DOMAIN h = DOMAIN c.answers \ {q} /\ \A x \in DOMAIN h : h[x] = c.answers[x]
  BY <1>2, HoldingLess
<1>7. client' = Render([Set(client, q, client.answers[q]) EXCEPT !.asking = @ \ {q}, !.first = @ \ {q},
                          !.answers = Restrict(@, DOMAIN @ \ {q}),
                          !.late = IF late THEN @ \cup {q} ELSE @ \ {q}], dialog)
  BY DEF LandList
<1>8. UNCHANGED <<dirServerVars, page, leaving, dialog, ops>> BY DEF LandList
<1>9. /\ e.asking = c.asking /\ e.first = c.first /\ e.answers = c.answers /\ e.late = c.late
      /\ e.stale = c.stale \ {q}
  BY <1>1, <1>5 DEF DirClients
<1>10. client' = Render(d, dialog) BY <1>7, <1>9
<1> HIDE DEF h, e, answer, late
<1>11. /\ d \in DirClients /\ d.cache = e.cache /\ d.asking = c.asking \ {q} /\ d.first = c.first \ {q}
       /\ d.answers = h /\ d.stale = c.stale \ {q}
       /\ d.late = IF late THEN c.late \cup {q} ELSE c.late \ {q}
  BY <1>2, <1>5, <1>6, <1>9 DEF DirClients
<1> HIDE DEF d, c
<1>12. DirClientOK(d) BY <1>1, <1>2, <1>4, <1>5, <1>6, <1>11 DEF DirClientOK
<1>13. ASSUME ListsTrue(c) PROVE ListsTrue(d)
  <2>1. q \notin d.late => answer = ServerReads(q)
    <3>1. CASE q \in c.first BY <1>11, <3>1 DEF late
    <3>2. CASE q \notin c.first BY <1>2, <1>3, <1>13, <3>2 DEF ListsTrue, answer
    <3> QED BY <3>1, <3>2
  <2>2. \A x \in Lists : x # q =>
          /\ x \in DOMAIN d.answers \ d.first => x \in DOMAIN c.answers \ c.first /\ d.answers[x] = c.answers[x]
          /\ x \in DOMAIN d.cache \ (d.late \cup d.stale \cup d.asking) =>
               x \in DOMAIN c.cache \ (c.late \cup c.stale \cup c.asking) /\ d.cache[x] = c.cache[x]
    BY <1>5, <1>6, <1>11
  <2>3. q \notin DOMAIN d.answers BY <1>6, <1>11
  <2>4. d.cache[q] = answer BY <1>5, <1>11
  <2> QED BY <1>13, <2>1, <2>2, <2>3, <2>4 DEF ListsTrue
<1>14. DirClientOK(client') /\ (ListsTrue(c) => ListsTrue(client'))
  BY <1>1, <1>10, <1>12, <1>13, RenderOK
<1> QED BY <1>1, <1>8, <1>14, ClientAlone DEF c

(* The dialog of archived Sessions is opened or closed.                    *)
LEMMA ToggleFollows ==
  ASSUME DirTyped, DirFollows, ToggleDialog PROVE DirTyped' /\ DirFollows'
<1>1. DirClientOK(client) /\ dialog' \in BOOLEAN BY DEF DirTyped, ToggleDialog
<1>2. client' = Render(client, dialog') BY DEF ToggleDialog
<1>3. DirClientOK(client') /\ (ListsTrue(client) => ListsTrue(client')) BY <1>1, <1>2, RenderOK
<1> QED BY <1>1, <1>3, ClientAlone DEF ToggleDialog

(* Another page is opened.                                                 *)
LEMMA NavigateFollows ==
  ASSUME DirTyped, DirFollows, NEW p \in born \cup {NoPage}, Navigate(p) PROVE DirTyped' /\ DirFollows'
BY GoToOK DEF Navigate, DirTyped, DirFollows

(* A request is sent.                                                      *)
LEMMA SendFollows ==
  ASSUME DirTyped, DirFollows, NEW act \in DirKinds \ {"over"}, NEW of \in born \cup {NoPage},
         act # "create" => of \in born, Send(act, of), leaving' \in {leaving, NoPage}
  PROVE  DirTyped' /\ DirFollows'
<1> DEFINE op == Op(act, of)
<1>1. /\ ops' = Append(ops, op) /\ UNCHANGED <<dirServerVars, page, dialog, client>> BY DEF Send
<1>2. active' = active /\ filed' = filed /\ unused' = unused /\ born' = born BY <1>1 DEF dirServerVars
<1>3. born \subseteq DirSessions BY DEF DirTyped, DirServerOK
<1>4. op \in DirOps /\ op.of = of /\ op.made = NoPage /\ op.kind = act /\ op.phase = "posted" /\ ~op.applied
  BY <1>3 DEF Op, DirOps
<1> HIDE DEF op
<1>5. DirOpOK(op) BY <1>4 DEF DirOpOK
<1>6. ops \in Seq(DirOps) /\ \A i \in DOMAIN ops : DirOpOK(ops[i]) BY DEF DirTyped
<1>7. /\ ops' \in Seq(DirOps) /\ \A i \in DOMAIN ops' : (i \in DOMAIN ops /\ ops'[i] = ops[i]) \/ ops'[i] = op
      /\ \A i \in DOMAIN ops : i \in DOMAIN ops' /\ ops'[i] = ops[i]
  BY <1>1, <1>4, <1>6
<1>8. \A i \in DOMAIN ops' : DirOpOK(ops'[i]) BY <1>5, <1>6, <1>7
<1>9. \A i \in DOMAIN ops' : DirOpOK(ops[i])' BY <1>2, <1>8 DEF DirOpOK
<1>10. DirServerOK' BY <1>2 DEF DirTyped, DirServerOK
<1>11. DirClientOK(client)' BY <1>1, <1>2 DEF DirClientOK, DirTyped
<1>12. DirTyped' BY <1>1, <1>2, <1>7, <1>9, <1>10, <1>11 DEF DirTyped
<1>13. Lagging(ops) => Lagging(ops)' BY <1>7 DEF Lagging
<1>14. \A q : ServerReads(q)' = ServerReads(q) BY <1>2 DEF ServerReads
<1>15. ListsTrue(client) => ListsTrue(client)' BY <1>1, <1>14 DEF ListsTrue
<1> QED BY <1>12, <1>13, <1>15 DEF DirFollows

(* The server does a change: until the client hears of it, it is unheard.  *)
LEMMA ServeFollows ==
  ASSUME DirTyped, DirFollows, NEW i \in DOMAIN ops, Serve(i) PROVE DirTyped' /\ DirFollows'
<1> DEFINE s == ops[i].of
           act == ops[i].kind
           op == ops'[i]
<1>1. ops \in Seq(DirOps) /\ (\A j \in DOMAIN ops : DirOpOK(ops[j])) /\ DirOpOK(ops[i]) BY DEF DirTyped
<1>2. UNCHANGED <<page, leaving, dialog, client>> BY DEF Serve
<1>3. ASSUME op \in DirOps, ops' = [ops EXCEPT ![i] = op],
             born \subseteq born', op.made \in born' \cup {NoPage}, op.kind = act, op.of = s, op.phase = "served",
             act \in Creating /\ op.applied => op.made \in born', DirServerOK',
             (\A q : ServerReads(q)' = ServerReads(q)) \/ (op.applied /\ act # "compact"),
             ops[i].phase = "posted"
      PROVE  DirTyped' /\ DirFollows'
  <2>1. ops' \in Seq(DirOps) /\ DOMAIN ops' = DOMAIN ops /\ \A j \in DOMAIN ops : j # i => ops'[j] = ops[j]
    BY <1>1, <1>3
  <2>2. DirOpOK(ops[i])' BY <1>1, <1>3 DEF DirOpOK
  <2>3. \A j \in DOMAIN ops' : DirOpOK(ops[j])'
    <3>1. ASSUME NEW j \in DOMAIN ops, j # i PROVE DirOpOK(ops[j])'
      <4>1. DirOpOK(ops[j]) /\ ops'[j] = ops[j] BY <1>1, <2>1, <3>1
      <4> QED BY <1>3, <4>1 DEF DirOpOK
    <3> QED BY <2>1, <2>2, <3>1
  <2>4. DirClientOK(client)' BY <1>2, <1>3 DEF DirTyped, DirClientOK
  <2>5. DirTyped' BY <1>2, <1>3, <2>1, <2>3, <2>4 DEF DirTyped
  <2>6. Lagging(ops) => Lagging(ops)' BY <1>3, <2>1 DEF Lagging
  <2>7. op.applied /\ act # "compact" => Lagging(ops)' BY <1>3, <2>1 DEF Lagging
  <2>8. (\A q : ServerReads(q)' = ServerReads(q)) /\ ListsTrue(client) => ListsTrue(client)'
    BY <1>2 DEF ListsTrue
  <2> QED BY <1>3, <2>5, <2>6, <2>7, <2>8 DEF DirFollows
<1>4. ops[i].phase = "posted" BY DEF Serve
<1>5. ops[i] \in DirOps BY <1>1
<1>6. CASE ops' = [ops EXCEPT ![i].phase = "served"] /\ UNCHANGED dirServerVars
  <2>1. op = [ops[i] EXCEPT !.phase = "served"] BY <1>6, <1>1
  <2>2. op \in DirOps /\ op.kind = act /\ op.of = s /\ op.made = ops[i].made /\ op.phase = "served"
        /\ op.applied = ops[i].applied
    BY <1>5, <2>1 DEF DirOps
  <2>3. ops' = [ops EXCEPT ![i] = op] BY <1>1, <1>6
  <2>4. active' = active /\ filed' = filed /\ unused' = unused /\ born' = born BY <1>6 DEF dirServerVars
  <2>5. DirServerOK' BY <2>4 DEF DirTyped, DirServerOK
  <2>6. \A q : ServerReads(q)' = ServerReads(q) BY <2>4 DEF ServerReads
  <2>7. ~op.applied BY <1>1, <1>4, <2>2 DEF DirOpOK
  <2> QED BY <1>1, <1>3, <1>4, <2>2, <2>3, <2>4, <2>5, <2>6, <2>7 DEF DirOpOK
<1> DEFINE gone == IF act \in {"clear", "delete", "discard"} THEN {s} ELSE {}
           marked == IF act \in {"compact", "unarchive"} THEN {} ELSE {s}
           allowed == CASE act = "create" -> TRUE
                        [] act \in {"delete", "fork", "unarchive"} -> s \in active \cup filed
                        [] act = "discard" -> s # InitialSession /\ s \in unused \cap active
                        [] OTHER -> s \in active
           made == IF act \in {"create", "clear", "fork"} THEN DirSessions \ born ELSE {NoPage}
           Done(f) ==
             /\ ops' = [ops EXCEPT ![i].phase = "served", ![i].applied = TRUE, ![i].made = f]
             /\ born' = born \cup ({f} \ {NoPage})
             /\ unused' = (unused \ marked) \cup (IF act = "fork" THEN {} ELSE {f} \ {NoPage})
             /\ filed' = CASE act \in {"archive", "sidebar_archive"} -> filed \cup {s}
                           [] act = "unarchive" -> filed \ {s}
                           [] OTHER -> filed \ gone
             /\ active' = CASE act \in {"archive", "sidebar_archive"} -> active \ {s}
                            [] act = "unarchive" -> active \cup {s}
                            [] OTHER -> (active \ gone) \cup ({f} \ {NoPage})
<1>7. ASSUME allowed, NEW f \in made, Done(f) PROVE DirTyped' /\ DirFollows'
  <2>1. op = [ops[i] EXCEPT !.phase = "served", !.applied = TRUE, !.made = f] BY <1>1, <1>7
  <2>2. ops' = [ops EXCEPT ![i] = op] BY <1>1, <1>7, <2>1
  <2>3. NoPage \notin DirSessions /\ born \subseteq DirSessions BY DirectoryAssumption DEF DirTyped, DirServerOK
  <2>4. f \in DirSessions \cup {NoPage} /\ (act \in Creating => f \in DirSessions \ born)
        /\ (act \notin Creating => f = NoPage)
    BY <1>7 DEF Creating
  <2>5. op \in DirOps /\ op.kind = act /\ op.of = s /\ op.made = f /\ op.phase = "served" /\ op.applied
    BY <1>5, <2>1, <2>4 DEF DirOps
  <2>6. born' = born \cup ({f} \ {NoPage}) /\ f \in born' \cup {NoPage} /\ born' \subseteq DirSessions
        /\ (act \in Creating => f \in born')
    BY <1>7, <2>3, <2>4
  <2>7. DirServerOK BY DEF DirTyped
  <2>8. act \in DirKinds /\ (act # "create" => s # NoPage) /\ act # "over"
    BY <1>1, <1>4, <2>3 DEF DirOpOK, DirOps
  <2>9. DirServerOK'
    <3>1. CASE act = "create"
      <4>1. active' = active \cup {f} /\ filed' = filed /\ f \in DirSessions \ born /\ NoPage # f
        BY <1>7, <2>3, <2>4, <3>1 DEF Creating
      <4>2. unused' \subseteq unused \cup {f} BY <1>7, <3>1, <4>1
      <4> QED BY <2>6, <2>7, <4>1, <4>2 DEF DirServerOK
    <3>2. CASE act \in {"archive", "sidebar_archive"}
      <4>1. s \in active BY <1>7, <3>2
      <4>2. active' = active \ {s} /\ filed' = filed \cup {s} /\ f = NoPage
        BY <1>7, <2>4, <3>2 DEF Creating
      <4>3. unused' \subseteq unused BY <1>7, <4>2
      <4> QED BY <2>6, <2>7, <4>1, <4>2, <4>3 DEF DirServerOK
    <3>3. CASE act = "unarchive"
      <4>1. s \in active \cup filed BY <1>7, <3>3
      <4>2. active' = active \cup {s} /\ filed' = filed \ {s} /\ f = NoPage
        BY <1>7, <2>4, <3>3 DEF Creating
      <4>3. unused' \subseteq unused BY <1>7, <4>2
      <4> QED BY <2>6, <2>7, <4>1, <4>2, <4>3 DEF DirServerOK
    <3>4. CASE act = "clear"
      <4>1. active' = (active \ {s}) \cup {f} /\ filed' = filed \ {s} /\ f \in DirSessions \ born /\ NoPage # f
        BY <1>7, <2>3, <2>4, <3>4 DEF Creating
      <4>2. unused' \subseteq (unused \ {s}) \cup {f} BY <1>7, <3>4, <4>1
      <4> QED BY <2>6, <2>7, <4>1, <4>2 DEF DirServerOK
    <3>5. CASE act \in {"delete", "discard"}
      <4>1. active' = active \ {s} /\ filed' = filed \ {s} /\ f = NoPage
        BY <1>7, <2>4, <3>5 DEF Creating
      <4>2. unused' \subseteq unused \ {s} BY <1>7, <3>5, <4>1
      <4> QED BY <2>6, <2>7, <4>1, <4>2 DEF DirServerOK
    <3>6. CASE act = "fork"
      <4>1. active' = active \cup {f} /\ filed' = filed /\ f \in DirSessions \ born /\ NoPage # f
        BY <1>7, <2>3, <2>4, <3>6 DEF Creating
      <4>2. unused' \subseteq unused BY <1>7, <3>6
      <4> QED BY <2>6, <2>7, <4>1, <4>2 DEF DirServerOK
    <3>7. CASE act \in {"compact", "rename"}
      <4>1. active' = active /\ filed' = filed /\ f = NoPage
        BY <1>7, <2>4, <3>7 DEF Creating
      <4>2. unused' \subseteq unused BY <1>7, <4>1
      <4> QED BY <2>6, <2>7, <4>1, <4>2 DEF DirServerOK
    <3> QED BY <2>8, <3>1, <3>2, <3>3, <3>4, <3>5, <3>6, <3>7 DEF DirKinds, Menu
  <2>10. act = "compact" => \A q : ServerReads(q)' = ServerReads(q)
    <3>1. act = "compact" => active' = active /\ filed' = filed
      BY <1>7, <2>4 DEF Creating
    <3> QED BY <3>1 DEF ServerReads
  <2> HIDE DEF op, act, s
  <2> QED BY <1>3, <1>4, <2>2, <2>5, <2>6, <2>9, <2>10
<1>8. \/ ops' = [ops EXCEPT ![i].phase = "served"] /\ UNCHANGED dirServerVars
      \/ allowed /\ \E f \in made : Done(f)
  BY DEF Serve
<1> HIDE DEF allowed, made, Done
<1> QED BY <1>6, <1>7, <1>8

(* What is left of the changes when one is over.                           *)
LEMMA OverIs ==
  ASSUME NEW heard \in BOOLEAN
  PROVE  DirOpOK(Over(heard)) /\ Over(heard).applied = ~heard /\ Over(heard).kind = "over"
         /\ Over(heard).phase = "answered"
BY DEF Over, Op, DirOpOK, DirOps, DirKinds, Creating

(* The client hears of a change, or never will.                            *)
LEMMA AnswerOpFollows ==
  ASSUME DirTyped, DirFollows, NEW i \in DOMAIN ops, AnswerOp(i) PROVE DirTyped' /\ DirFollows'
<1> DEFINE op == ops[i]
           ignored == op.kind = "discard" /\ (~op.mine \/ page = op.of)
           after == IF op.kind = "delete" THEN [op EXCEPT !.phase = "settling", !.here = (page = op.of)] ELSE Over(TRUE)
           p == IF op.kind \in {"create", "clear", "fork"} THEN op.made ELSE page
           list == [ops EXCEPT ![i] = after]
<1>1. ops \in Seq(DirOps) /\ (\A j \in DOMAIN ops : DirOpOK(ops[j])) /\ DirOpOK(op) /\ op \in DirOps
      /\ DirClientOK(client) /\ client \in DirClients /\ born \subseteq DirSessions
  BY DEF DirTyped, DirOpOK, DirClientOK, DirServerOK
<1>2. op.phase = "served" /\ UNCHANGED <<dirServerVars, dialog>> BY DEF AnswerOp
<1>3. CASE ops' = [ops EXCEPT ![i] = Over(~op.applied)] /\ UNCHANGED <<page, leaving, client>>
  <2>1. op.applied \in BOOLEAN BY <1>1 DEF DirOps
  <2> DEFINE over == Over(~op.applied)
  <2>2. DirOpOK(over) /\ over.applied = op.applied /\ over.kind = "over" /\ over.phase = "answered"
    BY <2>1, OverIs
  <2> HIDE DEF over
  <2>3. over \in DirOps BY <2>2 DEF DirOpOK
  <2>4. /\ ops' \in Seq(DirOps) /\ DOMAIN ops' = DOMAIN ops /\ \A j \in DOMAIN ops : j # i => ops'[j] = ops[j]
        /\ ops'[i] = over
    BY <1>1, <1>3, <2>3 DEF over
  <2>5. active' = active /\ filed' = filed /\ unused' = unused /\ born' = born BY <1>2 DEF dirServerVars
  <2>6. \A j \in DOMAIN ops' : DirOpOK(ops[j])'
    <3>1. \A j \in DOMAIN ops' : DirOpOK(ops'[j]) BY <1>1, <2>2, <2>4
    <3> QED BY <2>5, <3>1 DEF DirOpOK
  <2>7. DirServerOK' BY <2>5 DEF DirTyped, DirServerOK
  <2>8. DirClientOK(client)' BY <1>3, <2>5 DEF DirTyped, DirClientOK
  <2>9. DirTyped' BY <1>2, <1>3, <2>4, <2>5, <2>6, <2>7, <2>8 DEF DirTyped
  <2>10. Lagging(ops) => Lagging(ops)' BY <2>2, <2>4 DEF Lagging
  <2>11. \A q : ServerReads(q)' = ServerReads(q) BY <2>5 DEF ServerReads
  <2>12. ListsTrue(client) => ListsTrue(client)' BY <1>3, <2>11 DEF ListsTrue
  <2> QED BY <2>9, <2>10, <2>12 DEF DirFollows
<1>4. CASE op.applied /\ GoTo(p, Heard(client, op), list)
  <2>1. DirOpOK(after) /\ after \in DirOps /\ ~(after.applied /\ after.phase \in {"served", "answered"})
    <3>1. CASE op.kind = "delete"
      <4>1. after = [op EXCEPT !.phase = "settling", !.here = (page = op.of)] BY <3>1
      <4>2. after \in DirOps /\ after.phase = "settling" /\ after.kind = op.kind /\ after.of = op.of /\ after.made = op.made
        BY <1>1, <4>1 DEF DirOps
      <4> HIDE DEF after
      <4> QED BY <1>1, <3>1, <4>2 DEF DirOpOK
    <3>2. CASE op.kind # "delete"
      <4>1. after = Over(TRUE) BY <3>2
      <4>2. DirOpOK(Over(TRUE)) /\ ~Over(TRUE).applied BY OverIs
      <4> QED BY <4>1, <4>2 DEF DirOpOK
    <3> QED BY <3>1, <3>2
  <2> HIDE DEF after
  <2>2. /\ list \in Seq(DirOps) /\ DOMAIN list = DOMAIN ops /\ (\A j \in DOMAIN ops : j # i => list[j] = ops[j])
        /\ list[i] = after
    BY <1>1, <2>1
  <2> HIDE DEF list
  <2>3. \A j \in DOMAIN list : DirOpOK(list[j]) BY <1>1, <2>1, <2>2
  <2>4. op.kind \in Creating => op.made \in born BY <1>1, <1>2, <1>4 DEF DirOpOK
  <2>5. p \in born \cup {NoPage} BY <2>4 DEF DirTyped, Creating
  <2>6. op.kind # "over" BY <1>1, <1>2 DEF DirOpOK
  <2>7. op.kind # "create" => op.of \in born BY <1>1, <2>6 DEF DirOpOK
  <2>8. op.of \in born \cup {NoPage} /\ op.made \in born \cup {NoPage} BY <1>1 DEF DirOpOK
  <2>9. CASE op.kind = "compact"
    <3>1. Heard(client, op) = client BY <2>9 DEF Heard
    <3>2. Lagging(ops) => Lagging(list) BY <2>2, <2>9 DEF Lagging
    <3>3. Lagging(list) \/ ListsTrue(client) BY <3>2 DEF DirFollows
    <3>4. GoTo(p, client, list) BY <1>4, <3>1
    <3> HIDE DEF p
    <3> QED BY <1>1, <1>2, <2>2, <2>3, <2>5, <3>3, <3>4, GoToOK
  <2>10. CASE op.kind # "compact"
    <3> DEFINE d == Heard(client, op)
    <3>1. /\ ReadAgain(client, d)
          /\ \A x \in DOMAIN client.cache : d.cache[x] \subseteq client.cache[x] \cup ({op.of, op.made} \ {NoPage})
      <4>1. "sessions" \in DOMAIN client.cache BY <1>1 DEF DirClientOK
      <4> HIDE DEF op
      <4> QED BY <1>1, <2>4, <2>6, <2>7, <2>10, <4>1, HeardIs
    <3> HIDE DEF d
    <3>2. \A x \in DOMAIN client.cache : d.cache[x] \subseteq born BY <1>1, <2>8, <3>1 DEF DirClientOK
    <3>3. DirClientOK(d) /\ ListsTrue(d) BY <1>1, <3>1, <3>2, RefreshedOK
    <3>4. GoTo(p, d, list) BY <1>4 DEF d
    <3> HIDE DEF p
    <3> QED BY <1>2, <2>2, <2>3, <2>5, <3>3, <3>4, GoToOK
  <2> QED BY <2>9, <2>10
<1>5. \E r \in Results(op.applied) :
         IF r = "error" \/ ignored
         THEN ops' = [ops EXCEPT ![i] = Over(~op.applied)] /\ UNCHANGED <<page, leaving, client>>
         ELSE GoTo(p, Heard(client, op), list)
  BY DEF AnswerOp
<1>6. op.applied \in BOOLEAN BY <1>1 DEF DirOps
<1> HIDE DEF p, list, ignored, op
<1>7. ~op.applied => Results(op.applied) = {"error"} BY <1>6, ResultsOfRequest
<1> QED BY <1>3, <1>4, <1>5, <1>6, <1>7

(* The page acts on what it has heard.                                     *)
LEMMA SettleFollows ==
  ASSUME DirTyped, DirFollows, NEW i \in DOMAIN ops, SettleDelete(i) PROVE DirTyped' /\ DirFollows'
<1> DEFINE over == Over(TRUE)
           list == [ops EXCEPT ![i] = over]
           p == IF ops[i].here THEN NoPage ELSE page
<1>1. ops \in Seq(DirOps) /\ (\A j \in DOMAIN ops : DirOpOK(ops[j])) /\ DirClientOK(client)
      /\ page \in born \cup {NoPage}
  BY DEF DirTyped
<1>2. GoTo(p, client, list) /\ UNCHANGED <<dirServerVars, dialog>> /\ ops[i].phase = "settling"
  BY DEF SettleDelete
<1>3. DirOpOK(over) /\ ~over.applied BY OverIs
<1> HIDE DEF over
<1>4. over \in DirOps BY <1>3 DEF DirOpOK
<1>5. /\ list \in Seq(DirOps) /\ DOMAIN list = DOMAIN ops /\ (\A j \in DOMAIN ops : j # i => list[j] = ops[j])
      /\ list[i] = over
  BY <1>1, <1>4
<1>6. p \in born \cup {NoPage} BY <1>1
<1> HIDE DEF list, p
<1>7. \A j \in DOMAIN list : DirOpOK(list[j]) BY <1>1, <1>3, <1>5
<1>8. Lagging(ops) => Lagging(list) BY <1>2, <1>5 DEF Lagging
<1>9. Lagging(list) \/ ListsTrue(client) BY <1>8 DEF DirFollows
<1> QED BY <1>1, <1>2, <1>5, <1>6, <1>7, <1>9, GoToOK

(* A Session gets its first message.                                       *)
LEMMA UseFollows ==
  ASSUME DirTyped, DirFollows, UseSession PROVE DirTyped' /\ DirFollows'
<1>1. unused' \subseteq unused /\ UNCHANGED <<active, filed, born, page, leaving, dialog, client, ops>>
  BY DEF UseSession
<1>2. DirTyped' BY <1>1 DEF DirTyped, DirServerOK, DirClientOK, DirOpOK
<1>3. DirFollows' BY <1>1 DEF DirFollows, ListsTrue, ServerReads
<1> QED BY <1>2, <1>3

(* From the invariant: with nothing unheard of, under way or out of date   *)
(* the lists are the server's.                                             *)
LEMMA DirEstablished == DirTyped /\ DirFollows => DirectoryConverges
<1> SUFFICES ASSUME DirTyped, DirFollows, \A i \in DOMAIN ops : ops[i].phase = "answered" /\ ~ops[i].applied,
                    client.asking = {}, NEW q \in DOMAIN client.cache \ client.late, q \notin client.stale
             PROVE  client.cache[q] = ServerReads(q)
  BY DEF DirectoryConverges
<1>1. ~Lagging(ops) BY DEF Lagging
<1>2. client \in DirClients BY DEF DirTyped, DirClientOK
<1>3. q \in Lists BY <1>2 DEF DirClients, Holdings
<1> QED BY <1>1, <1>3 DEF DirFollows, ListsTrue

(* Every step keeps both.                                                  *)
LEMMA DirStep == ASSUME DirTyped, DirFollows, [DirNext]_dirVars PROVE DirTyped' /\ DirFollows'
<1>1. ASSUME NEW q \in client.asking, AnswerList(q) PROVE DirTyped' /\ DirFollows' BY <1>1, AnswerListFollows
<1>2. ASSUME NEW q \in client.asking, LandList(q) PROVE DirTyped' /\ DirFollows' BY <1>2, LandListFollows
<1>3. ASSUME NEW p \in born \cup {NoPage}, Navigate(p) PROVE DirTyped' /\ DirFollows' BY <1>3, NavigateFollows
<1>4. CASE ToggleDialog BY <1>4, ToggleFollows
<1>5. ASSUME NEW act \in Menu \cup {"rename"}, MenuAction(act) PROVE DirTyped' /\ DirFollows'
  <2>1. page \in born /\ Send(act, page) /\ leaving' = leaving BY <1>5 DEF MenuAction, DirTyped
  <2>2. act \in DirKinds \ {"over"} BY DEF DirKinds, Menu
  <2> QED BY <2>1, <2>2, SendFollows
<1>6. CASE CreateSession
  <2>1. Send("create", NoPage) /\ leaving' = leaving BY <1>6 DEF CreateSession
  <2>2. "create" \in DirKinds \ {"over"} BY DEF DirKinds
  <2> QED BY <2>1, <2>2, SendFollows
<1>7. ASSUME NEW s \in born, SidebarAction("sidebar_archive", s) \/ SidebarAction("delete", s)
      PROVE  DirTyped' /\ DirFollows'
  <2>1. leaving' = leaving BY <1>7 DEF SidebarAction
  <2>2. {"sidebar_archive", "delete"} \subseteq DirKinds \ {"over"} BY DEF DirKinds
  <2>3. Send("sidebar_archive", s) \/ Send("delete", s) BY <1>7 DEF SidebarAction
  <2> QED BY <2>1, <2>2, <2>3, SendFollows
<1>8. CASE DiscardTimer
  <2>1. leaving \in born /\ Send("discard", leaving) /\ leaving' = NoPage BY <1>8 DEF DiscardTimer, DirTyped
  <2>2. "discard" \in DirKinds \ {"over"} BY DEF DirKinds
  <2> QED BY <2>1, <2>2, SendFollows
<1>9. ASSUME NEW i \in DOMAIN ops, Serve(i) \/ AnswerOp(i) \/ SettleDelete(i) PROVE DirTyped' /\ DirFollows'
  BY <1>9, ServeFollows, AnswerOpFollows, SettleFollows
<1>10. CASE UseSession BY <1>10, UseFollows
<1>11. CASE UNCHANGED dirVars
  <2>1. UNCHANGED <<active, filed, unused, born, page, leaving, dialog, client, ops>> BY <1>11 DEF dirVars
  <2>2. DirTyped' BY <2>1 DEF DirTyped, DirServerOK, DirClientOK, DirOpOK
  <2>3. DirFollows' BY <2>1 DEF DirFollows, ListsTrue, ServerReads
  <2> QED BY <2>2, <2>3
<1> QED BY <1>1, <1>2, <1>3, <1>4, <1>5, <1>6, <1>7, <1>8, <1>9, <1>10, <1>11 DEF DirNext

(* Once every request is answered and every fetch has landed the lists are *)
(* what the server has, whatever was fetched, changed, filed or discarded  *)
(* meanwhile and in whatever order it was answered (the onSuccess handlers *)
(* of the sidebar and the menu, discardUnusedSession).                     *)
THEOREM ListsConverge == DirSpec => []DirectoryConverges
<1>1. DirInit => DirTyped /\ DirFollows BY DirStart
<1>2. (DirTyped /\ DirFollows) /\ [DirNext]_dirVars => (DirTyped /\ DirFollows)' BY DirStep
<1>3. DirTyped /\ DirFollows => DirectoryConverges BY DirEstablished
<1> QED BY <1>1, <1>2, <1>3, PTL DEF DirSpec

-----------------------------------------------------------------------------
(* The conversation.  InputShown is about what has left the bubble: that   *)
(* no record is of a later Run than the message is why none is wrongly     *)
(* taken for it, and what a resynchronisation reported has been merged.    *)
EntryTypes == {"tool_called", "tool_output", "assistant_message", "agent_changed", "activity_label", "run_ended",
               "user_message", "user_steer"}
Entries == [seq : Nat, type : EntryTypes, run : Runs, of : Nat \cup Texts]
Seen(run) == \E i \in DOMAIN record : record[i].run = run
InputOf(run, i) == record[i].type = "user_message" /\ record[i].run = run

JournalKept ==
  /\ record \in Seq(Entries) /\ Placed(record)
  /\ activeRun \in 0..TimelineRuns /\ (activeRun # 0 => Seen(activeRun))
  /\ calls \in Seq(1..Len(record))
PagesTaken ==
  /\ pages \in Seq(Pages(Entries))
  /\ \A r \in LoadedRecords(pages) : Taken(r, record)
Merged(run) ==
  /\ Seen(run)
  /\ \A i \in DOMAIN record : InputOf(run, i) => record[i] \in LoadedRecords(pages) \/ i <= Len(record) - TimelinePage
EndsKept ==
  /\ {ended, resynced} \subseteq 0..TimelineRuns
  /\ ended # 0 => Seen(ended)
  /\ resynced # 0 => Merged(resynced)
MessageKept(m) ==
  /\ m = Message(m.text, m.run, m.base, m.known) /\ m.text \in Texts /\ m.run \in 0..TimelineRuns
  /\ IF m.run = 0 THEN m \in sending /\ 0 < TimelineRuns /\ \A i \in DOMAIN record : record[i].run < TimelineRuns
     ELSE /\ \A i \in DOMAIN record : record[i].run <= m.run
          /\ \E i \in DOMAIN record : InputOf(m.run, i) /\ record[i].of = m.text
OneMessage ==
  /\ \A m \in sending : sending = {m} /\ pending = {}
  /\ \A m \in pending : pending = {m} /\ sending = {} /\ m.run # 0
  /\ \A m \in sending \cup pending : MessageKept(m)
TimelineSound == JournalKept /\ PagesTaken /\ EndsKept /\ OneMessage

(* A record more: what was so of the journal is so still.                  *)
LEMMA RecordAdded ==
  ASSUME TimelineSound, NEW r \in Entries, r.seq = Len(record) + 1, record' = Append(record, r)
  PROVE  /\ record' \in Seq(Entries) /\ Placed(record') /\ Len(record') = Len(record) + 1
         /\ DOMAIN record \subseteq DOMAIN record' /\ \A i \in DOMAIN record : record'[i] = record[i]
         /\ \A i \in DOMAIN record' : i \in DOMAIN record \/ (i = Len(record) + 1 /\ record'[i] = r)
         /\ Len(record) + 1 \in DOMAIN record' /\ record'[Len(record) + 1] = r
         /\ \A q : Taken(q, record) => Taken(q, record')
         /\ \A run : Seen(run) => Seen(run)'
<1>1. record \in Seq(Entries) /\ Placed(record) BY DEF TimelineSound, JournalKept
<1>2. /\ record' \in Seq(Entries) /\ Len(record') = Len(record) + 1
      /\ DOMAIN record = 1..Len(record) /\ DOMAIN record' = 1..(Len(record) + 1) /\ Len(record) \in Nat
      /\ \A i \in DOMAIN record : record'[i] = record[i]
      /\ record'[Len(record) + 1] = r
  BY <1>1
<1>3. \A i \in DOMAIN record' : i \in DOMAIN record \/ (i = Len(record) + 1 /\ record'[i] = r) BY <1>2
<1>4. DOMAIN record \subseteq DOMAIN record' /\ Len(record) + 1 \in DOMAIN record' BY <1>2
<1>5. Placed(record') BY <1>1, <1>2, <1>3 DEF Placed
<1>6. \A q : Taken(q, record) => Taken(q, record') BY <1>2, <1>4 DEF Taken
<1>7. \A run : Seen(run) => Seen(run)' BY <1>2, <1>4 DEF Seen
<1> QED BY <1>2, <1>3, <1>4, <1>5, <1>6, <1>7

(* A record that begins no Run leaves all the rest as it is.               *)
LEMMA RecordFollows ==
  ASSUME TimelineSound, NEW r \in Entries, r.seq = Len(record) + 1, r.type # "user_message", Seen(r.run),
         record' = Append(record, r), pages' = pages, resynced' = resynced,
         sending' \subseteq sending, pending' = pending
  PROVE  /\ record' \in Seq(Entries) /\ Placed(record') /\ Len(record') = Len(record) + 1
         /\ (\A run : Seen(run) => Seen(run)')
         /\ PagesTaken' /\ (resynced # 0 => Merged(resynced))' /\ OneMessage'
<1>1. /\ record' \in Seq(Entries) /\ Placed(record') /\ Len(record') = Len(record) + 1
      /\ DOMAIN record \subseteq DOMAIN record' /\ \A i \in DOMAIN record : record'[i] = record[i]
      /\ \A i \in DOMAIN record' : i \in DOMAIN record \/ (i = Len(record) + 1 /\ record'[i] = r)
      /\ Len(record) + 1 \in DOMAIN record' /\ record'[Len(record) + 1] = r
      /\ \A q : Taken(q, record) => Taken(q, record')
      /\ \A run : Seen(run) => Seen(run)'
  BY RecordAdded
<1>2. Len(record) \in Nat /\ TimelinePage \in Nat BY TimelineAssumption DEF TimelineSound, JournalKept
<1>3. PagesTaken' BY <1>1 DEF TimelineSound, PagesTaken
<1>4. (resynced # 0 => Merged(resynced))'
  <2> SUFFICES ASSUME resynced' # 0 PROVE Merged(resynced)' OBVIOUS
  <2>1. Merged(resynced) /\ resynced' = resynced BY DEF TimelineSound, EndsKept
  <2>2. \A i \in DOMAIN record' : InputOf(resynced, i)' => i \in DOMAIN record /\ InputOf(resynced, i)
    BY <1>1 DEF InputOf
  <2>3. ASSUME NEW i \in DOMAIN record', InputOf(resynced, i)'
        PROVE  record'[i] \in LoadedRecords(pages') \/ i <= Len(record') - TimelinePage
    <3>1. i \in DOMAIN record /\ InputOf(resynced, i) /\ record'[i] = record[i] BY <1>1, <2>2, <2>3
    <3>2. record[i] \in LoadedRecords(pages) \/ i <= Len(record) - TimelinePage BY <2>1, <3>1 DEF Merged
    <3>3. i \in Nat /\ DOMAIN record = 1..Len(record) BY <1>2, <3>1 DEF TimelineSound, JournalKept
    <3> QED BY <1>1, <1>2, <3>1, <3>2, <3>3
  <2> QED BY <1>1, <2>1, <2>3 DEF Merged
<1>5. ASSUME NEW m \in sending' \cup pending' PROVE MessageKept(m)'
  <2>1. m \in sending \cup pending /\ MessageKept(m) BY <1>5 DEF TimelineSound, OneMessage
  <2>2. PICK j \in DOMAIN record : record[j].run = r.run BY DEF Seen
  <2>3. m.run = 0 => m \in sending'
    <3>1. m.run = 0 => m \notin pending BY <2>1 DEF TimelineSound, OneMessage
    <3> QED BY <1>5, <3>1
  <2>4. CASE m.run = 0
    <3>1. \A i \in DOMAIN record' : record'[i].run < TimelineRuns BY <1>1, <2>1, <2>2, <2>4 DEF MessageKept
    <3> QED BY <2>1, <2>3, <2>4, <3>1 DEF MessageKept
  <2>5. CASE m.run # 0
    <3>1. \A i \in DOMAIN record' : record'[i].run <= m.run BY <1>1, <2>1, <2>2, <2>5 DEF MessageKept
    <3>2. \E i \in DOMAIN record' : InputOf(m.run, i)' /\ record'[i].of = m.text
      BY <1>1, <2>1, <2>5 DEF MessageKept, InputOf
    <3> QED BY <2>1, <2>5, <3>1, <3>2 DEF MessageKept
  <2> QED BY <2>4, <2>5
<1>6. OneMessage' BY <1>5 DEF TimelineSound, OneMessage
<1> QED BY <1>1, <1>3, <1>4, <1>6

(* The newest Run there has been.                                          *)
LEMMA RunsStartedIs ==
  ASSUME TimelineSound
  PROVE  /\ RunsStarted \in 0..TimelineRuns /\ activeRun <= RunsStarted
         /\ \A i \in DOMAIN record : record[i].run <= RunsStarted
         /\ RunsStarted = 0 \/ Seen(RunsStarted)
<1> DEFINE S == {0, activeRun} \cup {record[i].run : i \in DOMAIN record}
<1>1. TimelineRuns \in Nat BY TimelineAssumption
<1>2. record \in Seq(Entries) /\ activeRun \in 0..TimelineRuns /\ (activeRun # 0 => Seen(activeRun))
  BY DEF TimelineSound, JournalKept
<1>3. \A i \in DOMAIN record : record[i].run \in 1..TimelineRuns
  <2>1. \A i \in DOMAIN record : record[i] \in Entries BY <1>2
  <2> QED BY <2>1 DEF Entries, Runs
<1>4. S \in SUBSET (0..TimelineRuns) /\ S # {} BY <1>1, <1>2, <1>3
<1> HIDE DEF S
<1>5. Max(S) \in S /\ \A x \in S : x <= Max(S) BY <1>1, <1>4, GreatestNumber
<1>6. RunsStarted = Max(S) BY DEF RunsStarted, S
<1>7. activeRun \in S /\ \A i \in DOMAIN record : record[i].run \in S BY DEF S
<1>8. RunsStarted = 0 \/ Seen(RunsStarted) BY <1>2, <1>5, <1>6 DEF S, Seen
<1> QED BY <1>4, <1>5, <1>6, <1>7, <1>8

(* A record of the Run that goes on.                                       *)
LEMMA WriteOf ==
  ASSUME TimelineSound, NEW type \in EntryTypes, NEW of \in Nat \cup Texts, Write(type, of), activeRun # 0,
         activeRun' = activeRun, ended' = ended
  PROVE  LET r == Record(Len(record) + 1, type, activeRun, of)
         IN  r \in Entries /\ r.seq = Len(record) + 1 /\ r.type = type /\ r.run = activeRun /\ Seen(r.run)
             /\ record' = Append(record, r)
<1>1. record \in Seq(Entries) /\ activeRun \in 1..TimelineRuns /\ Seen(activeRun)
  BY DEF TimelineSound, JournalKept
<1>2. Len(record) + 1 \in Nat BY <1>1
<1> QED BY <1>1, <1>2 DEF Write, NextSeq, Record, Entries, Runs

(* An output is written: of a call, so in its Run.                         *)
LEMMA WriteOutputKeeps == ASSUME TimelineSound, WriteOutput PROVE TimelineSound'
<1>1. /\ activeRun # 0 /\ activeRun' = activeRun /\ pages' = pages /\ ended' = ended /\ resynced' = resynced
      /\ sending' = sending /\ pending' = pending
  BY DEF WriteOutput
<1>2. /\ record \in Seq(Entries) /\ activeRun \in 0..TimelineRuns /\ Seen(activeRun)
      /\ calls \in Seq(1..Len(record)) /\ Len(record) \in Nat
  BY <1>1 DEF TimelineSound, JournalKept
<1>3. PICK type \in EntryTypes \ {"user_message"}, of \in Nat :
        /\ Write(type, of)
        /\ calls' = calls \/ calls' = Append(calls, Len(record) + 1) \/ (calls # <<>> /\ calls' = Tail(calls))
  <2>1. CASE Write("tool_called", 0) /\ calls' = Append(calls, NextSeq) BY <2>1 DEF EntryTypes, NextSeq
  <2>2. CASE calls # <<>> /\ Write("tool_output", Head(calls)) /\ calls' = Tail(calls)
    <3>1. Head(calls) \in Nat BY <1>2, <2>2
    <3> QED BY <2>2, <3>1 DEF EntryTypes
  <2>3. CASE Write("assistant_message", 0) /\ calls' = calls BY <2>3 DEF EntryTypes
  <2>4. CASE Write("agent_changed", 1) /\ calls' = calls BY <2>4 DEF EntryTypes
  <2> QED BY <2>1, <2>2, <2>3, <2>4 DEF WriteOutput
<1> DEFINE r == Record(Len(record) + 1, type, activeRun, of)
<1>4. r \in Entries /\ r.seq = Len(record) + 1 /\ r.type = type /\ r.run = activeRun /\ Seen(r.run)
      /\ record' = Append(record, r)
  BY <1>1, <1>3, WriteOf
<1> HIDE DEF r
<1>5. /\ record' \in Seq(Entries) /\ Placed(record') /\ Len(record') = Len(record) + 1
      /\ (\A run : Seen(run) => Seen(run)')
      /\ PagesTaken' /\ (resynced # 0 => Merged(resynced))' /\ OneMessage'
  BY <1>1, <1>3, <1>4, RecordFollows
<1>6. calls' \in Seq(1..Len(record'))
  <2>1. calls \in Seq(1..(Len(record) + 1)) BY <1>2
  <2>2. Len(record) + 1 \in 1..(Len(record) + 1) BY <1>2
  <2> DEFINE A == 1..(Len(record) + 1)
  <2> HIDE DEF A
  <2>3. calls' \in Seq(A)
    <3>1. calls \in Seq(A) /\ Len(record) + 1 \in A BY <2>1, <2>2 DEF A
    <3>2. Append(calls, Len(record) + 1) \in Seq(A) BY <3>1
    <3>3. calls # <<>> => Tail(calls) \in Seq(A) BY <3>1
    <3> QED BY <1>3, <3>1, <3>2, <3>3
  <2> QED BY <1>5, <2>3 DEF A
<1>7. JournalKept' BY <1>1, <1>2, <1>5, <1>6 DEF JournalKept
<1>8. EndsKept' BY <1>1, <1>5 DEF TimelineSound, EndsKept
<1> QED BY <1>5, <1>7, <1>8 DEF TimelineSound

(* A label is written.                                                     *)
LEMMA WriteLabelKeeps == ASSUME TimelineSound, WriteLabel PROVE TimelineSound'
<1>1. /\ activeRun' = activeRun /\ pages' = pages /\ ended' = ended /\ resynced' = resynced
      /\ sending' = sending /\ pending' = pending /\ calls' = calls
  BY DEF WriteLabel
<1>2. /\ record \in Seq(Entries) /\ activeRun \in 0..TimelineRuns /\ (activeRun # 0 => Seen(activeRun))
      /\ calls \in Seq(1..Len(record)) /\ Len(record) \in Nat /\ DOMAIN record = 1..Len(record)
  BY DEF TimelineSound, JournalKept
<1>3. PICK i \in DOMAIN record : record' = Append(record, Record(Len(record) + 1, "activity_label", record[i].run, i))
  BY DEF WriteLabel, NextSeq
<1> DEFINE r == Record(Len(record) + 1, "activity_label", record[i].run, i)
<1>4. r \in Entries /\ r.seq = Len(record) + 1 /\ r.type = "activity_label" /\ r.run = record[i].run /\ Seen(r.run)
      /\ record' = Append(record, r)
  <2>1. record[i] \in Entries /\ i \in Nat /\ Len(record) + 1 \in Nat BY <1>2
  <2>2. record[i].run \in Runs BY <2>1 DEF Entries
  <2> QED BY <1>3, <2>1, <2>2 DEF Record, Entries, EntryTypes, Seen
<1> HIDE DEF r
<1>5. /\ record' \in Seq(Entries) /\ Placed(record') /\ Len(record') = Len(record) + 1
      /\ (\A run : Seen(run) => Seen(run)')
      /\ PagesTaken' /\ (resynced # 0 => Merged(resynced))' /\ OneMessage'
  BY <1>1, <1>4, RecordFollows
<1>6. calls' \in Seq(1..Len(record')) BY <1>1, <1>2, <1>5
<1>7. JournalKept' BY <1>1, <1>2, <1>5, <1>6 DEF JournalKept
<1>8. EndsKept' BY <1>1, <1>5 DEF TimelineSound, EndsKept
<1> QED BY <1>5, <1>7, <1>8 DEF TimelineSound

(* A Run ends: what its record says is the last of its Run.                *)
LEMMA EndRunKeeps == ASSUME TimelineSound, EndRun PROVE TimelineSound'
<1>1. /\ activeRun # 0 /\ activeRun' = 0 /\ calls' = <<>> /\ pages' = pages /\ resynced' = resynced
      /\ sending' = sending /\ pending' = pending /\ ended' \in {ended, activeRun}
      /\ record' = Append(record, Record(Len(record) + 1, "run_ended", activeRun, 1))
  BY DEF EndRun, NextSeq
<1>2. record \in Seq(Entries) /\ activeRun \in 1..TimelineRuns /\ Seen(activeRun) /\ Len(record) \in Nat
  BY <1>1 DEF TimelineSound, JournalKept
<1> DEFINE r == Record(Len(record) + 1, "run_ended", activeRun, 1)
<1>3. r \in Entries /\ r.seq = Len(record) + 1 /\ r.type = "run_ended" /\ r.run = activeRun
  BY <1>2 DEF Record, Entries, EntryTypes, Runs
<1> HIDE DEF r
<1>4. /\ record' \in Seq(Entries) /\ Placed(record') /\ Len(record') = Len(record) + 1
      /\ (\A run : Seen(run) => Seen(run)')
      /\ PagesTaken' /\ (resynced # 0 => Merged(resynced))' /\ OneMessage'
  <2>1. record' = Append(record, r) BY <1>1 DEF r
  <2> QED BY <1>1, <1>2, <1>3, <2>1, RecordFollows
<1>5. JournalKept'
  <2>1. <<>> \in Seq(1..Len(record')) OBVIOUS
  <2>2. 0 \in 0..TimelineRuns BY TimelineAssumption
  <2> QED BY <1>1, <1>4, <2>1, <2>2 DEF JournalKept
<1>6. EndsKept'
  <2>1. ended' \in 0..TimelineRuns /\ (ended' # 0 => Seen(ended')) BY <1>1, <1>2 DEF TimelineSound, EndsKept
  <2>2. ended' # 0 => Seen(ended)' BY <1>4, <2>1 DEF Seen
  <2> QED BY <1>1, <1>4, <2>1, <2>2 DEF TimelineSound, EndsKept
<1> QED BY <1>4, <1>5, <1>6 DEF TimelineSound

(* A step that writes no record.                                           *)
LEMMA JournalStays ==
  ASSUME TimelineSound, record' = record, activeRun' = activeRun, calls' = calls
  PROVE  JournalKept' /\ \A run : Seen(run) => Seen(run)'
BY DEF TimelineSound, JournalKept, Seen

(* A message is sent, and shown as pending from here on.                   *)
LEMMA SubmitKeeps == ASSUME TimelineSound, NEW text \in Texts, Submit(text) PROVE TimelineSound'
<1>1. \E base, known : sending' = {Message(text, 0, base, known)}
  <2>1. PICK known \in BOOLEAN :
          sending' = {Message(text, 0, IF ~known THEN 0
                                       ELSE IF pages = NoHistory THEN Len(record) ELSE HistoryNewestSeq(pages), known)}
    BY DEF Submit
  <2> QED BY <2>1
<1> PICK base, known : sending' = {Message(text, 0, base, known)} BY <1>1
<1>2. /\ UNCHANGED <<record, activeRun, calls, pages, ended, resynced, pending>>
      /\ pending = {} /\ RunsStarted < TimelineRuns
  BY DEF Submit
<1> DEFINE m == Message(text, 0, base, known)
<1>3. m = Message(m.text, m.run, m.base, m.known) /\ m.text = text /\ m.run = 0 BY DEF Message
<1>4. sending' = {m} OBVIOUS
<1> HIDE DEF m
<1>5. \A i \in DOMAIN record : record[i].run \in Nat /\ record[i].run <= RunsStarted
  <2>1. \A i \in DOMAIN record : record[i] \in Entries BY DEF TimelineSound, JournalKept
  <2> QED BY <2>1, RunsStartedIs DEF Entries, Runs
<1>6. RunsStarted \in Nat /\ TimelineRuns \in Nat BY RunsStartedIs, TimelineAssumption
<1>7. \A i \in DOMAIN record : record[i].run < TimelineRuns BY <1>2, <1>5, <1>6
<1>8. MessageKept(m)' BY <1>2, <1>3, <1>4, <1>6, <1>7 DEF MessageKept
<1>9. OneMessage' BY <1>2, <1>4, <1>8 DEF OneMessage
<1>10. JournalKept' BY <1>2, JournalStays
<1>11. PagesTaken' /\ EndsKept' BY <1>2 DEF TimelineSound, PagesTaken, EndsKept, Merged, Seen, InputOf
<1> QED BY <1>9, <1>10, <1>11 DEF TimelineSound

(* The server takes the message: as a Run of its own, the newest.          *)
LEMMA AcceptKeeps == ASSUME TimelineSound, NEW m \in sending, Accept(m) PROVE TimelineSound'
<1>1. /\ UNCHANGED <<calls, pages, ended, resynced, pending>> /\ m.run = 0 BY DEF Accept
<1>2. /\ record \in Seq(Entries) /\ activeRun \in 0..TimelineRuns /\ (activeRun # 0 => Seen(activeRun))
      /\ calls \in Seq(1..Len(record)) /\ Len(record) \in Nat /\ DOMAIN record = 1..Len(record)
      /\ TimelineRuns \in Nat /\ TimelinePage \in Nat
  BY TimelineAssumption DEF TimelineSound, JournalKept
<1>3. /\ sending = {m} /\ pending = {} /\ 0 < TimelineRuns /\ m.text \in Texts
      /\ \A i \in DOMAIN record : record[i].run < TimelineRuns
      /\ m = Message(m.text, m.run, m.base, m.known)
  BY <1>1 DEF TimelineSound, OneMessage, MessageKept
<1>4. CASE activeRun # 0
  <2>1. Write("user_steer", m.text) /\ sending' = {} /\ activeRun' = activeRun BY <1>4 DEF Accept
  <2> DEFINE r == Record(Len(record) + 1, "user_steer", activeRun, m.text)
  <2>2. r \in Entries /\ r.seq = Len(record) + 1 /\ r.type = "user_steer" /\ r.run = activeRun /\ Seen(r.run)
        /\ record' = Append(record, r)
    <3>1. "user_steer" \in EntryTypes BY DEF EntryTypes
    <3> QED BY <1>1, <1>3, <1>4, <2>1, <3>1, WriteOf
  <2> HIDE DEF r
  <2>3. sending' \subseteq sending /\ r.type # "user_message" BY <2>1, <2>2
  <2>4. /\ record' \in Seq(Entries) /\ Placed(record') /\ Len(record') = Len(record) + 1
        /\ (\A run : Seen(run) => Seen(run)')
        /\ PagesTaken' /\ (resynced # 0 => Merged(resynced))' /\ OneMessage'
    BY <1>1, <2>2, <2>3, RecordFollows
  <2>5. calls' \in Seq(1..Len(record')) BY <1>1, <1>2, <2>4
  <2>6. JournalKept' BY <1>2, <2>1, <2>4, <2>5 DEF JournalKept
  <2>7. EndsKept' BY <1>1, <2>4 DEF TimelineSound, EndsKept
  <2> QED BY <2>4, <2>6, <2>7 DEF TimelineSound
<1>5. CASE activeRun = 0
  <2>0. PICK n : n = RunsStarted + 1 OBVIOUS
  <2> DEFINE r == Record(Len(record) + 1, "user_message", n, m.text)
             q == [m EXCEPT !.run = n]
  <2>1. activeRun' = n /\ record' = Append(record, r) /\ sending' = {q}
    BY <1>5, <2>0 DEF Accept, NextSeq
  <2>2. RunsStarted \in 0..TimelineRuns /\ (\A i \in DOMAIN record : record[i].run <= RunsStarted)
        /\ (RunsStarted = 0 \/ Seen(RunsStarted))
    BY RunsStartedIs
  <2>3. RunsStarted < TimelineRuns BY <1>2, <1>3, <2>2 DEF Seen
  <2>4. n \in Runs /\ n # 0 BY <1>2, <2>0, <2>2, <2>3 DEF Runs
  <2>5. r \in Entries /\ r.seq = Len(record) + 1 /\ r.type = "user_message" /\ r.run = n /\ r.of = m.text
    BY <1>2, <1>3, <2>4 DEF Record, Entries, EntryTypes
  <2>6. q = Message(q.text, q.run, q.base, q.known) /\ q.run = n /\ q.text = m.text BY <1>3 DEF Message
  <2> HIDE DEF r, q
  <2>7. /\ record' \in Seq(Entries) /\ Placed(record') /\ Len(record') = Len(record) + 1
        /\ DOMAIN record \subseteq DOMAIN record' /\ \A i \in DOMAIN record : record'[i] = record[i]
        /\ \A i \in DOMAIN record' : i \in DOMAIN record \/ (i = Len(record) + 1 /\ record'[i] = r)
        /\ Len(record) + 1 \in DOMAIN record' /\ record'[Len(record) + 1] = r
        /\ \A x : Taken(x, record) => Taken(x, record')
        /\ \A run : Seen(run) => Seen(run)'
    BY <2>1, <2>5, RecordAdded
  <2>8. JournalKept'
    <3>1. Seen(n)' BY <2>5, <2>7 DEF Seen
    <3>2. calls' \in Seq(1..Len(record')) BY <1>1, <1>2, <2>7
    <3>3. n \in 0..TimelineRuns BY <2>4 DEF Runs
    <3> QED BY <2>1, <2>7, <3>1, <3>2, <3>3 DEF JournalKept, Seen
  <2>9. PagesTaken' BY <1>1, <2>7 DEF TimelineSound, PagesTaken
  <2>10. ASSUME resynced' # 0 PROVE Merged(resynced)'
    <3>1. resynced' = resynced /\ Merged(resynced) BY <1>1, <2>10 DEF TimelineSound, EndsKept
    <3>2. resynced \in Nat /\ resynced <= RunsStarted
      <4>1. PICK i \in DOMAIN record : record[i].run = resynced BY <3>1 DEF Merged, Seen
      <4>2. resynced \in 0..TimelineRuns BY DEF TimelineSound, EndsKept
      <4> QED BY <1>2, <2>2, <4>1, <4>2
    <3>3. resynced # n BY <2>0, <2>2, <3>2
    <3>4. ASSUME NEW i \in DOMAIN record', InputOf(resynced, i)'
          PROVE  record'[i] \in LoadedRecords(pages') \/ i <= Len(record') - TimelinePage
      <4>1. i \in DOMAIN record /\ record'[i] = record[i] BY <2>5, <2>7, <3>1, <3>3, <3>4 DEF InputOf
      <4>2. InputOf(resynced, i) BY <3>1, <3>4, <4>1 DEF InputOf
      <4>3. record[i] \in LoadedRecords(pages) \/ i <= Len(record) - TimelinePage BY <3>1, <4>1, <4>2 DEF Merged
      <4> QED BY <1>1, <1>2, <2>7, <4>1, <4>3
    <3> QED BY <2>7, <3>1, <3>4 DEF Merged
  <2>11. EndsKept' BY <1>1, <2>7, <2>10 DEF TimelineSound, EndsKept
  <2>12. OneMessage'
    <3>1. \A i \in DOMAIN record' : record'[i].run <= n
      <4>1. \A i \in DOMAIN record : record[i] \in Entries BY <1>2
      <4>2. \A i \in DOMAIN record : record[i].run \in Nat BY <4>1 DEF Entries, Runs
      <4>3. \A i \in DOMAIN record : record[i].run <= n BY <2>0, <2>2, <4>2
      <4> QED BY <2>4, <2>5, <2>7, <4>3 DEF Runs
    <3>2. \E i \in DOMAIN record' : InputOf(n, i)' /\ record'[i].of = m.text BY <2>5, <2>7 DEF InputOf
    <3>3. n \in 0..TimelineRuns BY <2>4 DEF Runs
    <3>4. MessageKept(q)' BY <1>3, <2>4, <2>6, <3>1, <3>2, <3>3 DEF MessageKept
    <3>5. sending' = {q} /\ pending' = {} BY <1>1, <1>3, <2>1 DEF q
    <3> QED BY <3>4, <3>5 DEF OneMessage
  <2> QED BY <2>8, <2>9, <2>11, <2>12 DEF TimelineSound
<1> QED BY <1>4, <1>5

(* The answer names the Run of the message.                                *)
LEMMA RespondKeeps == ASSUME TimelineSound, NEW m \in sending, Respond(m) PROVE TimelineSound'
<1>1. /\ UNCHANGED <<record, activeRun, calls, pages, ended, resynced>> /\ m.run # 0
      /\ sending' = {} /\ pending' = {m}
  BY DEF Respond
<1>2. MessageKept(m) BY DEF TimelineSound, OneMessage
<1>3. MessageKept(m)' BY <1>1, <1>2 DEF MessageKept, InputOf
<1>4. OneMessage' BY <1>1, <1>3 DEF OneMessage
<1>5. JournalKept' BY <1>1, JournalStays
<1>6. PagesTaken' /\ EndsKept' BY <1>1 DEF TimelineSound, PagesTaken, EndsKept, Merged, Seen, InputOf
<1> QED BY <1>4, <1>5, <1>6 DEF TimelineSound

(* The bubble is given up: for a loaded record that is the input, or for   *)
(* the end of its Run.                                                     *)
LEMMA ClearPendingKeeps == ASSUME TimelineSound, ClearPending PROVE TimelineSound'
<1>1. /\ UNCHANGED <<record, activeRun, calls, pages, ended, resynced, sending>> /\ pending' = {}
  BY DEF ClearPending
<1>2. OneMessage' BY <1>1 DEF TimelineSound, OneMessage, MessageKept, InputOf
<1>3. JournalKept' BY <1>1, JournalStays
<1>4. PagesTaken' /\ EndsKept' BY <1>1 DEF TimelineSound, PagesTaken, EndsKept, Merged, Seen, InputOf
<1> QED BY <1>2, <1>3, <1>4 DEF TimelineSound

(* More of the journal is loaded, and none of it let go.                   *)
LEMMA PagesGrow ==
  ASSUME TimelineSound, UNCHANGED <<record, activeRun, calls, sending, pending>>,
         pages' \in Seq(Pages(Entries)), LoadedRecords(pages) \subseteq LoadedRecords(pages'),
         \A r \in LoadedRecords(pages') : Taken(r, record)
  PROVE  /\ JournalKept' /\ PagesTaken' /\ OneMessage'
         /\ \A run : (Seen(run) => Seen(run)') /\ (Merged(run) => Merged(run)')
<1>1. JournalKept' BY JournalStays
<1>2. PagesTaken' BY DEF PagesTaken
<1>3. OneMessage' BY DEF TimelineSound, OneMessage, MessageKept, InputOf
<1>4. \A run : (Seen(run) => Seen(run)') /\ (Merged(run) => Merged(run)') BY DEF Merged, Seen, InputOf
<1> QED BY <1>1, <1>2, <1>3, <1>4

(* A page is read, the first or an older one.                              *)
LEMMA FetchKeeps ==
  ASSUME TimelineSound, LoadHistory \/ FetchOlder PROVE TimelineSound'
<1>1. UNCHANGED <<record, activeRun, calls, ended, resynced, sending, pending>> BY DEF LoadHistory, FetchOlder
<1>2. /\ record \in Seq(Entries) /\ Placed(record) /\ pages \in Seq(Pages(Entries))
      /\ TimelinePage \in Nat \ {0} /\ \A r \in LoadedRecords(pages) : Taken(r, record)
  BY TimelineAssumption DEF TimelineSound, JournalKept, PagesTaken
<1>3. /\ pages' \in Seq(Pages(Entries)) /\ LoadedRecords(pages) \subseteq LoadedRecords(pages')
      /\ \A r \in LoadedRecords(pages') : Taken(r, record)
  <2>1. CASE LoadHistory
    <3> DEFINE p == ReadPage(record, 0, TimelinePage)
    <3>1. pages' = <<p>> /\ pages = NoHistory BY <2>1 DEF LoadHistory
    <3>2. p \in Pages(Entries) /\ \A r \in ToSet(p.records) : Taken(r, record) BY <1>2, ReadTaken
    <3> HIDE DEF p
    <3>3. <<p>> \in Seq(Pages(Entries)) /\ LoadedRecords(<<p>>) = ToSet(p.records) BY <1>2, <3>2, LoadedMore
    <3> QED BY <3>1, <3>2, <3>3, NothingLoaded
  <2>2. CASE FetchOlder
    <3> DEFINE before == NextPageParam(pages)
               p == ReadPage(record, before, TimelinePage)
    <3>1. pages' = Append(pages, p) BY <2>2 DEF FetchOlder, FetchNextPage
    <3>2. before \in 0..Len(record) BY <1>2, NextIs
    <3>3. before \in Nat BY <1>2, <3>2
    <3> HIDE DEF before
    <3>4. p \in Pages(Entries) /\ \A r \in ToSet(p.records) : Taken(r, record) BY <1>2, <3>3, ReadTaken
    <3> HIDE DEF p
    <3>5. /\ Append(pages, p) \in Seq(Pages(Entries))
          /\ LoadedRecords(Append(pages, p)) = LoadedRecords(pages) \cup ToSet(p.records)
      BY <1>2, <3>4, LoadedMore
    <3> QED BY <1>2, <3>1, <3>4, <3>5
  <2> QED BY <2>1, <2>2
<1>4. /\ JournalKept' /\ PagesTaken' /\ OneMessage'
      /\ \A run : (Seen(run) => Seen(run)') /\ (Merged(run) => Merged(run)')
  BY <1>1, <1>3, PagesGrow
<1>5. EndsKept' BY <1>1, <1>4 DEF TimelineSound, EndsKept
<1> QED BY <1>4, <1>5 DEF TimelineSound

(* A resynchronisation merges the latest page, and reports what had ended. *)
LEMMA ResyncKeeps == ASSUME TimelineSound, Resync PROVE TimelineSound'
<1> DEFINE p == ReadPage(record, 0, TimelinePage)
<1>1. /\ UNCHANGED <<record, activeRun, calls, sending, pending>>
      /\ pages' = MergeHistoryPages(pages, p, TimelinePage)
      /\ resynced' = (IF ended = 0 THEN resynced ELSE ended) /\ ended' = 0
  BY DEF Resync
<1>2. /\ record \in Seq(Entries) /\ Placed(record) /\ pages \in Seq(Pages(Entries))
      /\ TimelinePage \in Nat \ {0} /\ (\A r \in LoadedRecords(pages) : Taken(r, record))
      /\ DOMAIN record = 1..Len(record) /\ Len(record) \in Nat
  BY TimelineAssumption DEF TimelineSound, JournalKept, PagesTaken
<1>3. /\ p \in Pages(Entries) /\ \A r \in ToSet(p.records) : Taken(r, record)
      /\ \A i \in DOMAIN record : i > Len(record) - TimelinePage => record[i] \in ToSet(p.records)
  BY <1>2, ReadTaken
<1> HIDE DEF p
<1>4. /\ pages' \in Seq(Pages(Entries)) /\ LoadedRecords(pages') = LoadedRecords(pages) \cup ToSet(p.records)
  BY <1>1, <1>2, <1>3, MergedIs
<1>5. /\ JournalKept' /\ PagesTaken' /\ OneMessage'
      /\ \A run : (Seen(run) => Seen(run)') /\ (Merged(run) => Merged(run)')
  BY <1>1, <1>2, <1>3, <1>4, PagesGrow
<1>6. \A i \in DOMAIN record' : record'[i] \in LoadedRecords(pages') \/ i <= Len(record') - TimelinePage
  BY <1>1, <1>2, <1>3, <1>4
<1>7. EndsKept'
  <2>1. {ended, resynced} \subseteq 0..TimelineRuns /\ (ended # 0 => Seen(ended))
        /\ (resynced # 0 => Merged(resynced))
    BY DEF TimelineSound, EndsKept
  <2>2. 0 \in 0..TimelineRuns BY TimelineAssumption
  <2>3. ended # 0 => Seen(resynced)' BY <1>1, <2>1 DEF Seen
  <2>4. ended # 0 => Merged(resynced)' BY <1>6, <2>3 DEF Merged
  <2>5. ended = 0 /\ resynced # 0 => Merged(resynced)' BY <1>1, <1>5, <2>1
  <2> QED BY <1>1, <2>1, <2>2, <2>4, <2>5 DEF EndsKept
<1> QED BY <1>5, <1>7 DEF TimelineSound

(* An empty conversation.                                                  *)
LEMMA TimelineStarts == TimelineInit => TimelineSound
<1> SUFFICES ASSUME TimelineInit PROVE TimelineSound OBVIOUS
<1>1. /\ record = <<>> /\ activeRun = 0 /\ calls = <<>> /\ pages = NoHistory /\ ended = 0 /\ resynced = 0
      /\ sending = {} /\ pending = {}
  BY DEF TimelineInit
<1>2. 0 \in 0..TimelineRuns BY TimelineAssumption
<1>3. JournalKept BY <1>1, <1>2 DEF JournalKept, Placed
<1>4. PagesTaken BY <1>1, NothingLoaded DEF PagesTaken, NoHistory
<1>5. EndsKept BY <1>1, <1>2 DEF EndsKept
<1>6. OneMessage BY <1>1 DEF OneMessage
<1> QED BY <1>3, <1>4, <1>5, <1>6 DEF TimelineSound

(* Every step keeps TimelineSound.                                         *)
LEMMA TimelineSteps == TimelineSound /\ [TimelineNext]_timelineVars => TimelineSound'
<1> SUFFICES ASSUME TimelineSound, [TimelineNext]_timelineVars PROVE TimelineSound' OBVIOUS
<1>1. CASE WriteOutput \/ WriteLabel \/ EndRun BY <1>1, WriteOutputKeeps, WriteLabelKeeps, EndRunKeeps
<1>2. CASE Disconnect \/ UNCHANGED timelineVars
  <2>1. UNCHANGED <<record, activeRun, calls, pages, ended, resynced, sending, pending>>
    BY <1>2 DEF Disconnect, timelineVars
  <2>2. JournalKept' BY <2>1, JournalStays
  <2>3. PagesTaken' /\ EndsKept' BY <2>1 DEF TimelineSound, PagesTaken, EndsKept, Merged, Seen, InputOf
  <2>4. OneMessage' BY <2>1 DEF TimelineSound, OneMessage, MessageKept, InputOf
  <2> QED BY <2>2, <2>3, <2>4 DEF TimelineSound
<1>3. ASSUME NEW text \in Texts, Submit(text) PROVE TimelineSound' BY <1>3, SubmitKeeps
<1>4. ASSUME NEW m \in sending, Accept(m) \/ Respond(m) PROVE TimelineSound' BY <1>4, AcceptKeeps, RespondKeeps
<1>5. CASE LoadHistory \/ FetchOlder BY <1>5, FetchKeeps
<1>6. CASE Resync BY <1>6, ResyncKeeps
<1>7. CASE ClearPending BY <1>7, ClearPendingKeeps
<1> QED BY <1>1, <1>2, <1>3, <1>4, <1>5, <1>6, <1>7 DEF TimelineNext

(* Of a message that left the bubble: either a record was taken for it, or *)
(* its Run was reported as resynchronised.                                 *)
LEMMA ShownFromSound == TimelineSound => InputShown
<1> SUFFICES ASSUME TimelineSound, NEW m \in pending, ~PendingVisible(m)
             PROVE  \E i \in DOMAIN record :
                      /\ record[i].type = "user_message"
                      /\ \/ record[i].run = m.run /\ (record[i] \in Shown \/ i <= Len(record) - TimelinePage)
                         \/ record[i].of = m.text /\ record[i].run < m.run /\ i > m.base
  BY DEF InputShown
<1>1. m.run # 0 /\ MessageKept(m) BY DEF TimelineSound, OneMessage
<1>2. m.run \in 0..TimelineRuns /\ (\A i \in DOMAIN record : record[i].run <= m.run)
      /\ \E i \in DOMAIN record : InputOf(m.run, i)
  BY <1>1 DEF MessageKept
<1>3. LoadedRecords(pages) \subseteq Shown BY DEF Shown, ShownRecords
<1>4. CASE PendingCanonical(m)
  <2>1. PICK r \in LoadedRecords(pages) : r.type = "user_message" /\ r.of = m.text /\ r.seq > m.base
    BY <1>4 DEF PendingCanonical
  <2>2. r.seq \in DOMAIN record /\ record[r.seq] = r BY DEF TimelineSound, PagesTaken, Taken
  <2>3. \A i \in DOMAIN record : record[i] \in Entries BY DEF TimelineSound, JournalKept
  <2>4. r.run \in Nat /\ r.run <= m.run BY <1>2, <2>2, <2>3 DEF Entries, Runs
  <2>5. r.run = m.run \/ r.run < m.run BY <1>2, <2>4
  <2> QED BY <1>3, <2>1, <2>2, <2>5
<1>5. CASE PendingResynced(m)
  <2>1. resynced = m.run /\ Merged(m.run) BY <1>1, <1>5 DEF PendingResynced, TimelineSound, EndsKept
  <2>2. PICK i \in DOMAIN record : InputOf(m.run, i) BY <1>2
  <2>3. record[i] \in LoadedRecords(pages) \/ i <= Len(record) - TimelinePage BY <2>1, <2>2 DEF Merged
  <2> QED BY <1>3, <2>2, <2>3 DEF InputOf
<1> QED BY <1>4, <1>5 DEF PendingVisible

(* From the moment the answer is in, the message the user sent is on the   *)
(* page, as the bubble or as a record, unless a page of records has        *)
(* followed it or an earlier message of its text is taken for it: however  *)
(* its Run, its events, the reconnections and the reads of the history are *)
(* ordered (PendingMessage and the resynchronisation of ConversationPage). *)
THEOREM InputIsShown == TimelineSpec => []InputShown
<1> QED BY TimelineStarts, TimelineSteps, ShownFromSound, PTL DEF TimelineSpec

-----------------------------------------------------------------------------
(* The types are kept by every step, on their own.                         *)
LEMMA ConnTypes == ConnTypeOK /\ [ConnNext]_connVars => ConnTypeOK'
<1> SUFFICES ASSUME ConnTypeOK, [ConnNext]_connVars PROVE ConnTypeOK'
  OBVIOUS
<1> USE ConnectionAssumption
<1>1. ASSUME NEW t \in BOOLEAN, ScheduleReconnect(t)
      PROVE  reconnectTimer' \in BOOLEAN /\ reconnectAttempt' \in 0..MaxAttempt /\ told' \in Statuses
  <2>1. CASE disposed \/ t
    BY <1>1, <2>1 DEF ConnTypeOK, ScheduleReconnect
  <2>2. CASE ~(disposed \/ t)
    <3>1. reconnectTimer' = TRUE
      BY <1>1, <2>2 DEF ScheduleReconnect
    <3>2. told' \in Statuses
      BY <1>1, <2>2 DEF ScheduleReconnect, Statuses
    <3>3. reconnectAttempt' = IF reconnectAttempt < MaxAttempt THEN reconnectAttempt + 1 ELSE MaxAttempt
      BY <1>1, <2>2 DEF ScheduleReconnect
    <3>4. reconnectAttempt \in 0..MaxAttempt BY DEF ConnTypeOK
    <3>5. reconnectAttempt' \in 0..MaxAttempt
      BY <3>3, <3>4, SMT
    <3> QED BY <3>1, <3>2, <3>5
  <2> QED BY <2>1, <2>2
<1>2. CASE TimerFires
  <2>1. CASE ~CanConnect
    BY <1>2, <2>1 DEF TimerFires, Connect, ConnTypeOK
  <2>2. CASE CanConnect /\ ScheduleReconnect(FALSE) /\ UNCHANGED <<socket, readyState>>
    BY <1>1, <1>2, <2>2 DEF TimerFires, ConnTypeOK
  <2>3. ASSUME CanConnect, NEW s \in Sockets,
               socket' = s /\ readyState' = [readyState EXCEPT ![s] = "connecting"],
               told' = "reconnecting" /\ reconnectTimer' = FALSE /\ UNCHANGED reconnectAttempt
        PROVE  ConnTypeOK'
    BY <1>2, <2>3 DEF TimerFires, ConnTypeOK, Statuses
  <2> QED BY <1>2, <2>1, <2>2, <2>3 DEF TimerFires, Connect
<1>3. ASSUME NEW s \in Sockets, OnOpen(s)
      PROVE  ConnTypeOK'
  BY <1>3 DEF OnOpen, ConnTypeOK, Statuses
<1>4. ASSUME NEW s \in Sockets, OnClose(s)
      PROVE  ConnTypeOK'
  <2>1. reconnectTimer \in BOOLEAN BY DEF ConnTypeOK
  <2>2. CASE Current(s)
    <3>1. ScheduleReconnect(reconnectTimer) BY <1>4, <2>2 DEF OnClose
    <3> QED BY <1>1, <1>4, <2>1, <2>2, <3>1 DEF OnClose, ForgetSocket, ConnTypeOK
  <2>3. CASE ~Current(s)
    BY <1>4, <2>3 DEF OnClose, ConnTypeOK
  <2> QED BY <2>2, <2>3
<1>5. CASE Close
  BY <1>5 DEF Close, ConnTypeOK
<1>6. CASE NetworkChanges
  BY <1>6 DEF NetworkChanges, ConnTypeOK
<1>7. CASE UNCHANGED connVars
  BY <1>7 DEF connVars, ConnTypeOK
<1> QED BY <1>2, <1>3, <1>4, <1>5, <1>6, <1>7 DEF ConnNext

-----------------------------------------------------------------------------
(* With the types OneStream is inductive: a socket is made only by a timer *)
(* that fires with no socket there, so by NeverStranded with none live.    *)
LEMMA OneStreamStep == ConnTypeOK /\ OneStream /\ [ConnNext]_connVars => OneStream'
<1> SUFFICES ASSUME ConnTypeOK, OneStream, [ConnNext]_connVars PROVE OneStream'
  OBVIOUS
<1> USE ConnectionAssumption
<1>1. CASE TimerFires
  <2>1. CASE disposed
    BY <1>1, <2>1 DEF TimerFires, OneStream, OneSocket, NeverStranded, ToldTruly
  <2>2. CASE ~disposed
    <3>1. socket = NoSocket /\ CanConnect
      BY <1>1, <2>2 DEF TimerFires, OneStream, NeverStranded, CanConnect
    <3>2. \A t \in Sockets : readyState[t] = "closed"
      BY <2>2, <3>1 DEF OneStream, OneSocket, Live
    <3>3. CASE ScheduleReconnect(FALSE) /\ UNCHANGED <<socket, readyState>>
      BY <1>1, <2>2, <3>1, <3>2, <3>3
         DEF TimerFires, ScheduleReconnect, OneStream, OneSocket, NeverStranded, ToldTruly, Live
    <3>4. ASSUME NEW s \in Sockets,
                 socket' = s /\ readyState' = [readyState EXCEPT ![s] = "connecting"],
                 told' = "reconnecting" /\ reconnectTimer' = FALSE
          PROVE  OneStream'
      BY <2>2, <3>2, <3>4 DEF ConnTypeOK, OneStream, OneSocket, NeverStranded, ToldTruly, Live
    <3> QED BY <1>1, <3>1, <3>3, <3>4 DEF TimerFires, Connect
  <2> QED BY <2>1, <2>2
<1>2. ASSUME NEW s \in Sockets, OnOpen(s)
      PROVE  OneStream'
  <2>1. CASE disposed
    BY <1>2, <2>1 DEF OnOpen, OneStream, OneSocket, NeverStranded, ToldTruly
  <2>2. CASE ~disposed
    <3>1. socket = s /\ Current(s)
      BY <1>2, <2>2 DEF OnOpen, OneStream, OneSocket, Live, Current
    <3> QED BY <1>2, <2>2, <3>1 DEF OnOpen, ConnTypeOK, OneStream, OneSocket, NeverStranded, ToldTruly, Live
  <2> QED BY <2>1, <2>2
<1>3. ASSUME NEW s \in Sockets, OnClose(s)
      PROVE  OneStream'
  <2>1. CASE disposed
    BY <1>3, <2>1 DEF OnClose, OneStream, OneSocket, NeverStranded, ToldTruly
  <2>2. CASE ~disposed
    <3>1. socket = s /\ Current(s) /\ ~reconnectTimer
      BY <1>3, <2>2 DEF OnClose, OneStream, OneSocket, NeverStranded, Current
    <3>2. socket' = NoSocket /\ reconnectTimer' = TRUE /\ told' # "connected" /\ UNCHANGED disposed
      BY <1>3, <2>2, <3>1 DEF OnClose, ForgetSocket, ScheduleReconnect
    <3>3. \A t \in Sockets : readyState'[t] = "closed"
      BY <1>3, <2>2, <3>1 DEF OnClose, ConnTypeOK, OneStream, OneSocket, Live
    <3> QED BY <3>2, <3>3 DEF OneStream, OneSocket, NeverStranded, ToldTruly, Live
  <2> QED BY <2>1, <2>2
<1>4. CASE Close
  BY <1>4 DEF Close, OneStream, OneSocket, NeverStranded, ToldTruly
<1>5. CASE NetworkChanges \/ UNCHANGED connVars
  BY <1>5 DEF NetworkChanges, connVars, OneStream, OneSocket, NeverStranded, ToldTruly, Live
<1> QED BY <1>1, <1>2, <1>3, <1>4, <1>5 DEF ConnNext

-----------------------------------------------------------------------------
(* In every reachable state of a connection the variables have their types *)
(* and, until it is closed, it holds exactly one live websocket or waits   *)
(* for exactly one attempt, and says "connected" exactly of an open one.   *)
THEOREM StreamIsOne == ConnSpec => [](ConnTypeOK /\ OneStream)
<1>1. ConnInit => ConnTypeOK /\ OneStream
  <2> SUFFICES ASSUME ConnInit PROVE ConnTypeOK /\ OneStream
    OBVIOUS
  <2> USE ConnectionAssumption
  <2>1. ASSUME NEW s \in Sockets, socket = s,
               readyState = [t \in Sockets |-> IF t = s THEN "connecting" ELSE "closed"],
               reconnectTimer = FALSE /\ reconnectAttempt = 0 /\ told = "reconnecting"
        PROVE  ConnTypeOK /\ OneStream
    <3>1. \A t \in Sockets : readyState[t] = IF t = s THEN "connecting" ELSE "closed"
      BY <2>1
    <3>2. readyState \in [Sockets -> {"connecting", "open", "closed"}]
      BY <2>1
    <3>3. 0 \in 0..MaxAttempt BY SMT
    <3>4. ConnTypeOK BY <2>1, <3>2, <3>3, Zenon DEF ConnInit, ConnTypeOK, Statuses
    <3>5. OneStream
      BY <2>1, <3>1 DEF ConnInit, OneStream, OneSocket, NeverStranded, ToldTruly, Live
    <3> QED BY <3>4, <3>5
  <2>2. ASSUME socket = NoSocket /\ readyState = [t \in Sockets |-> "closed"],
               reconnectTimer = TRUE /\ reconnectAttempt = (IF MaxAttempt = 0 THEN 0 ELSE 1),
               told = IF onLine THEN "reconnecting" ELSE "disconnected"
        PROVE  ConnTypeOK /\ OneStream
    <3>1. reconnectAttempt \in 0..MaxAttempt BY <2>2, SMT
    <3>2. told \in Statuses /\ told # "connected" BY <2>2 DEF Statuses
    <3> QED BY <2>2, <3>1, <3>2
            DEF ConnInit, ConnTypeOK, OneStream, OneSocket, NeverStranded, ToldTruly, Live
  <2> QED BY <2>1, <2>2 DEF ConnInit
<1>2. ConnTypeOK /\ OneStream /\ [ConnNext]_connVars => ConnTypeOK' /\ OneStream'
  BY ConnTypes, OneStreamStep
<1> QED BY <1>1, <1>2, PTL DEF ConnSpec
=============================================================================
