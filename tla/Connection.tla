----------------------------- MODULE Connection -----------------------------
(* The receive-only websocket of the Web client, which reconnects itself   *)
(* with a bounded backoff until it is closed                               *)
(* (frontend/src/websocket/connection.ts, createWebSocketConnection).      *)
EXTENDS Naturals

CONSTANTS Sockets,     \* the WebSocket objects the page can have at a time
          NoSocket,    \* the null of the variable "socket"
          MaxAttempt   \* the code's 30: where reconnectAttempt stops counting

ASSUME ConnectionAssumption == NoSocket \notin Sockets /\ MaxAttempt \in Nat

VARIABLES disposed, socket, reconnectTimer, reconnectAttempt,
          told,        \* the last status given to onStatusChange
          readyState,  \* of each WebSocket, as the browser sees it
          onLine       \* navigator.onLine

connVars == <<disposed, socket, reconnectTimer, reconnectAttempt, told, readyState, onLine>>

Statuses == {"connected", "reconnecting", "disconnected"}
Live(s) == readyState[s] # "closed"

ConnTypeOK ==
  /\ disposed \in BOOLEAN /\ reconnectTimer \in BOOLEAN /\ onLine \in BOOLEAN
  /\ socket \in Sockets \cup {NoSocket}
  /\ reconnectAttempt \in 0..MaxAttempt
  /\ told \in Statuses
  /\ readyState \in [Sockets -> {"connecting", "open", "closed"}]

-----------------------------------------------------------------------------
(* scheduleReconnect, with the timer as it finds it: one timer at a time;  *)
(* its delay is a function of the attempt.                                 *)
ScheduleReconnect(timer) ==
  IF disposed \/ timer
  THEN reconnectTimer' = timer /\ UNCHANGED <<reconnectAttempt, told>>
  ELSE /\ reconnectTimer' = TRUE
       /\ reconnectAttempt' = IF reconnectAttempt < MaxAttempt THEN reconnectAttempt + 1 ELSE MaxAttempt
       /\ told' = IF onLine THEN "reconnecting" ELSE "disconnected"

(* connect, from the timer: a new WebSocket, or another attempt when there *)
(* can be none.                                                            *)
CanConnect == ~disposed /\ socket = NoSocket
Connect ==
  IF ~CanConnect THEN reconnectTimer' = FALSE /\ UNCHANGED <<socket, readyState, told, reconnectAttempt>>
  ELSE \/ \E s \in Sockets :
            /\ ~Live(s)
            /\ socket' = s /\ readyState' = [readyState EXCEPT ![s] = "connecting"]
            /\ told' = "reconnecting" /\ reconnectTimer' = FALSE
            /\ UNCHANGED reconnectAttempt
       \/ ScheduleReconnect(FALSE) /\ UNCHANGED <<socket, readyState>>

TimerFires ==
  /\ reconnectTimer
  /\ Connect
  /\ UNCHANGED <<disposed, onLine>>

(* The handlers of a socket ignore one that is no longer the connection's. *)
Current(s) == ~disposed /\ socket = s

OnOpen(s) ==
  /\ readyState[s] = "connecting"
  /\ readyState' = [readyState EXCEPT ![s] = "open"]
  /\ IF Current(s) THEN reconnectAttempt' = 0 /\ told' = "connected"
     ELSE UNCHANGED <<reconnectAttempt, told>>
  /\ UNCHANGED <<disposed, socket, reconnectTimer, onLine>>

(* The close event alone schedules: an error is followed by it.            *)
KeepSocket == socket' = socket \* Mutant: the closed socket is not forgotten.
ForgetSocket == socket' = NoSocket
OnClose(s) ==
  /\ Live(s)
  /\ readyState' = [readyState EXCEPT ![s] = "closed"]
  /\ IF Current(s) THEN ForgetSocket /\ ScheduleReconnect(reconnectTimer)
     ELSE UNCHANGED <<socket, reconnectTimer, reconnectAttempt, told>>
  /\ UNCHANGED <<disposed, onLine>>

(* close: the timer is cleared, the socket's handlers are taken off; the   *)
(* browser closes it in its own time.                                      *)
Close ==
  /\ ~disposed /\ disposed' = TRUE
  /\ reconnectTimer' = FALSE /\ socket' = NoSocket
  /\ UNCHANGED <<reconnectAttempt, told, readyState, onLine>>

NetworkChanges == onLine' = ~onLine /\ UNCHANGED <<disposed, socket, reconnectTimer, reconnectAttempt, told, readyState>>

(* createWebSocketConnection connects at once; no socket may be had.       *)
ConnInit ==
  /\ disposed = FALSE /\ onLine \in BOOLEAN
  /\ \/ /\ \E s \in Sockets : socket = s /\ readyState = [t \in Sockets |-> IF t = s THEN "connecting" ELSE "closed"]
        /\ reconnectTimer = FALSE /\ reconnectAttempt = 0 /\ told = "reconnecting"
     \/ /\ socket = NoSocket /\ readyState = [t \in Sockets |-> "closed"]
        /\ reconnectTimer = TRUE /\ reconnectAttempt = (IF MaxAttempt = 0 THEN 0 ELSE 1)
        /\ told = IF onLine THEN "reconnecting" ELSE "disconnected"

ConnNext ==
  \/ TimerFires
  \/ \E s \in Sockets : OnOpen(s) \/ OnClose(s)
  \/ Close
  \/ NetworkChanges

(* The timer of an attempt fires; of the attempts made again and again one *)
(* gets a socket, and one gets through.                                    *)
ConnFairness ==
  /\ WF_connVars(TimerFires)
  /\ SF_connVars(TimerFires /\ ~reconnectTimer')
  /\ SF_connVars(\E s \in Sockets : OnOpen(s))

ConnSpec == ConnInit /\ [][ConnNext]_connVars /\ ConnFairness

-----------------------------------------------------------------------------
(* One websocket: until the connection is closed no second socket is live, *)
(* not even one the client has forgotten.                                  *)
OneSocket == ~disposed => \A s \in Sockets : Live(s) => s = socket

(* The connection is never given up: while it is not closed it has either  *)
(* a socket that lives or a timer that will make one, never both, so that  *)
(* no two attempts race.                                                   *)
NeverStranded ==
  ~disposed => /\ reconnectTimer = (socket = NoSocket)
               /\ socket # NoSocket => Live(socket)

(* "connected" is said of an open socket, and of every open socket.        *)
ToldTruly == ~disposed => (told = "connected") = (socket # NoSocket /\ readyState[socket] = "open")

(* The three together: exactly one stream, or one attempt at it.           *)
OneStream == OneSocket /\ NeverStranded /\ ToldTruly

(* A connection that is not closed is connected again and again.           *)
Reconnects == ~disposed ~> (told = "connected" \/ disposed)
=============================================================================
