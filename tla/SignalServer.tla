---------------------------- MODULE SignalServer ----------------------------
(***************************************************************************)
(* The websocket signal server of src/cmd/status-backend/server/server.go. *)
(*                                                                         *)
(* The main goroutine calls Listen, starts Serve in a goroutine and later  *)
(* calls Stop.  The HTTP server runs one goroutine per request; a request  *)
(* to /signals runs the `signals` handler, which takes s.lock, upgrades    *)
(* the connection to a websocket and adds it to s.connections.  Any        *)
(* goroutine may publish a signal: signalHandler takes s.lock and writes   *)
(* the message to every connection, deleting and closing those whose       *)
(* write fails.  Stop does not take s.lock: it ranges over s.connections,  *)
(* closing and deleting each, then shuts the HTTP server down, which       *)
(* closes the listener and waits for in-flight handlers (a hijacked        *)
(* websocket is no longer tracked by the HTTP server).                     *)
(*                                                                         *)
(* A Go range over a map that another goroutine writes is a data race: the *)
(* runtime may abort, or the loop may or may not see entries added during  *)
(* it (it never yields a deleted one).  The model lets the loop see or     *)
(* skip added entries and records the race in `raced`.                     *)
(***************************************************************************)
EXTENDS Naturals, FiniteSets

CONSTANTS
  Conns,        \* client connections (model values)
  MaxSignals,   \* bound on the number of signals published
  ListenFails,  \* whether net.Listen may fail
  WriteFails    \* whether SetWriteDeadline / WriteMessage may fail

VARIABLES
  server,       \* s.server: "nil" or "set"
  listening,    \* s.listener is open and accepting
  serving,      \* the Serve goroutine is running
  inflight,     \* /signals requests accepted, handler not yet finished
  used,         \* connections that have ever been accepted
  conns,        \* the keys of s.connections
  open,         \* websocket connections not yet closed
  lockHolder,   \* "free" or "sig" (signalHandler); `signals` is one step
  sigDone,      \* connections signalHandler has handled in its current loop
  signalsSent,  \* signals published so far (bound)
  stopPc,       \* Stop: "idle", "closing", "shutdown", "waitIdle", "done"
  stopStart,    \* s.connections when Stop's range began
  stopDone,     \* connections Stop's range has handled
  stopCur,      \* the connection Stop has closed and not yet deleted, as a set of at most one
  raced         \* s.connections was written while another goroutine ranged over it

vars == <<server, listening, serving, inflight, used, conns, open, lockHolder,
          sigDone, signalsSent, stopPc, stopStart, stopDone, stopCur, raced>>

Init ==
  /\ server = "nil" /\ listening = FALSE /\ serving = FALSE
  /\ inflight = {} /\ used = {}
  /\ conns = {} /\ open = {}
  /\ lockHolder = "free" /\ sigDone = {} /\ signalsSent = 0
  /\ stopPc = "idle" /\ stopStart = {} /\ stopDone = {} /\ stopCur = {}
  /\ raced = FALSE

\* A write to s.connections races when Stop's range is running, or (for
\* Stop's own delete) when signalHandler's range is.
StopRanging == stopPc = "closing"
SigRanging == lockHolder = "sig"

(***************************************************************************)
(* Listen: error if s.server is set; otherwise s.server is assigned, and   *)
(* then net.Listen may fail, returning with s.server still set.            *)
(***************************************************************************)
Listen ==
  /\ stopPc = "idle" /\ ~listening
  /\ server = "nil"
  /\ server' = "set"
  /\ \/ listening' = TRUE
     \/ ListenFails /\ UNCHANGED listening
  /\ UNCHANGED <<serving, inflight, used, conns, open, lockHolder, sigDone,
                 signalsSent, stopPc, stopStart, stopDone, stopCur, raced>>

\* The main goroutine runs `go srv.Serve()` once Listen has succeeded.
Serve ==
  /\ listening /\ ~serving /\ stopPc = "idle"
  /\ serving' = TRUE
  /\ UNCHANGED <<server, listening, inflight, used, conns, open, lockHolder,
                 sigDone, signalsSent, stopPc, stopStart, stopDone, stopCur, raced>>

\* The HTTP server accepts a request to /signals and starts its handler.
Accept(c) ==
  /\ serving /\ listening /\ c \notin used
  /\ inflight' = inflight \cup {c} /\ used' = used \cup {c}
  /\ UNCHANGED <<server, listening, serving, conns, open, lockHolder, sigDone,
                 signalsSent, stopPc, stopStart, stopDone, stopCur, raced>>

\* Faulty variant: the upgrade-error return leaves s.lock held.
HandleSignalsLeakLock(c) ==
  /\ c \in inflight /\ lockHolder = "free"
  /\ inflight' = inflight \ {c}
  /\ \/ /\ conns' = conns \cup {c} /\ open' = open \cup {c}
        /\ raced' = (raced \/ StopRanging)
        /\ UNCHANGED lockHolder
     \/ /\ lockHolder' = "http"
        /\ UNCHANGED <<conns, open, raced>>
  /\ UNCHANGED <<server, listening, serving, used, sigDone,
                 signalsSent, stopPc, stopStart, stopDone, stopCur>>

(***************************************************************************)
(* signals: under s.lock, upgrade the connection and add it to             *)
(* s.connections; when the upgrade fails, log and return.                  *)
(***************************************************************************)
HandleSignals(c) ==
  /\ c \in inflight /\ lockHolder = "free"
  /\ inflight' = inflight \ {c}
  /\ \/ /\ conns' = conns \cup {c} /\ open' = open \cup {c}
        /\ raced' = (raced \/ StopRanging)
     \/ UNCHANGED <<conns, open, raced>>
  /\ UNCHANGED <<server, listening, serving, used, lockHolder, sigDone,
                 signalsSent, stopPc, stopStart, stopDone, stopCur>>

\* deleteConnection: delete(s.connections, c); c.Close().
DeleteConnection(c) ==
  /\ conns' = conns \ {c} /\ open' = open \ {c}

\* signalHandler takes s.lock and starts ranging over s.connections.
SignalBegin ==
  /\ lockHolder = "free" /\ signalsSent < MaxSignals
  /\ lockHolder' = "sig" /\ sigDone' = {} /\ signalsSent' = signalsSent + 1
  /\ UNCHANGED <<server, listening, serving, inflight, used, conns, open,
                 stopPc, stopStart, stopDone, stopCur, raced>>

(***************************************************************************)
(* One iteration: set the write deadline and write the message; a write    *)
(* to a closed connection fails, and any write may fail when WriteFails.   *)
(* On failure, deleteConnection.                                           *)
(***************************************************************************)
SignalWrite(c) ==
  /\ lockHolder = "sig" /\ c \in conns \ sigDone
  /\ sigDone' = sigDone \cup {c}
  /\ \/ /\ c \in open
        /\ UNCHANGED <<conns, open, raced>>
     \/ /\ c \notin open \/ WriteFails
        /\ DeleteConnection(c)
        /\ raced' = (raced \/ StopRanging)
  /\ UNCHANGED <<server, listening, serving, inflight, used, lockHolder,
                 signalsSent, stopPc, stopStart, stopDone, stopCur>>

\* The range is over (it never yields a deleted key): unlock.
SignalEnd ==
  /\ lockHolder = "sig" /\ conns \subseteq sigDone
  /\ lockHolder' = "free" /\ sigDone' = {}
  /\ UNCHANGED <<server, listening, serving, inflight, used, conns, open,
                 signalsSent, stopPc, stopStart, stopDone, stopCur, raced>>

\* Stop, without s.lock: start ranging over s.connections.
StopBegin ==
  /\ stopPc = "idle" /\ serving
  /\ stopPc' = "closing" /\ stopStart' = conns /\ stopDone' = {}
  /\ UNCHANGED <<server, listening, serving, inflight, used, conns, open,
                 lockHolder, sigDone, signalsSent, stopCur, raced>>

\* One iteration, first half: the range yields c and Stop calls
\* connection.Close(); c stays in s.connections until the delete.
StopClose(c) ==
  /\ stopPc = "closing" /\ stopCur = {} /\ c \in conns \ stopDone
  /\ open' = open \ {c} /\ stopCur' = {c}
  /\ UNCHANGED <<server, listening, serving, inflight, used, conns, lockHolder,
                 sigDone, signalsSent, stopPc, stopStart, stopDone, raced>>

\* Second half: delete(s.connections, connection), unlocked; a no-op when
\* signalHandler's deleteConnection has already removed the key.
StopDelete ==
  /\ stopPc = "closing" /\ stopCur /= {}
  /\ conns' = conns \ stopCur /\ stopDone' = stopDone \cup stopCur
  /\ stopCur' = {}
  /\ raced' = (raced \/ SigRanging)
  /\ UNCHANGED <<server, listening, serving, inflight, used, open, lockHolder,
                 sigDone, signalsSent, stopPc, stopStart>>

(***************************************************************************)
(* The range ends once every key present at its start and not deleted has  *)
(* been visited (keys added meanwhile may be skipped).  Once another       *)
(* goroutine has written the map during the range, Go gives no guarantee   *)
(* about which keys it still yields, so the range may end at any          *)
(* iteration boundary.                                                     *)
(***************************************************************************)
StopRangeEnd ==
  /\ stopPc = "closing" /\ stopCur = {}
  /\ (stopStart \cap conns) \subseteq stopDone \/ raced
  /\ stopPc' = "shutdown"
  /\ UNCHANGED <<server, listening, serving, inflight, used, conns, open,
                 lockHolder, sigDone, signalsSent, stopStart, stopDone, stopCur, raced>>

\* s.server.Shutdown(ctx): close the listener ...
StopShutdown ==
  /\ stopPc = "shutdown"
  /\ listening' = FALSE /\ stopPc' = "waitIdle"
  /\ UNCHANGED <<server, serving, inflight, used, conns, open, lockHolder,
                 sigDone, signalsSent, stopStart, stopDone, stopCur, raced>>

\* ... wait for in-flight handlers, Serve returns; s.server = nil.
StopWaitIdle ==
  /\ stopPc = "waitIdle" /\ inflight = {}
  /\ stopPc' = "done" /\ server' = "nil" /\ serving' = FALSE
  /\ UNCHANGED <<listening, inflight, used, conns, open, lockHolder, sigDone,
                 signalsSent, stopStart, stopDone, stopCur, raced>>

Next ==
  \/ Listen \/ Serve \/ SignalBegin \/ SignalEnd
  \/ StopBegin \/ StopDelete \/ StopRangeEnd \/ StopShutdown \/ StopWaitIdle
  \/ \E c \in Conns : Accept(c) \/ HandleSignals(c) \/ SignalWrite(c) \/ StopClose(c)

Spec == Init /\ [][Next]_vars

(***************************************************************************)
(* Goroutines that have started keep running (the Go scheduler): the      *)
(* handlers, signalHandler's loop and Stop.  Accepting requests,           *)
(* publishing signals, Listen and Serve are up to the environment.         *)
(***************************************************************************)
Fairness ==
  /\ \A c \in Conns : WF_vars(HandleSignals(c)) /\ WF_vars(SignalWrite(c))
  /\ \A c \in Conns : WF_vars(StopClose(c))
  /\ WF_vars(StopDelete)
  /\ WF_vars(SignalEnd)
  /\ WF_vars(StopRangeEnd) /\ WF_vars(StopShutdown) /\ WF_vars(StopWaitIdle)

FairSpec == Spec /\ Fairness

-----------------------------------------------------------------------------
(***************************************************************************)
(* When Stop has returned, no websocket is open and s.connections is       *)
(* empty.  About Stop ranging over s.connections before Shutdown has       *)
(* stopped the HTTP server: a /signals handler still in flight adds its    *)
(* connection after the range has ended.                                   *)
(***************************************************************************)
StopClosesAll == stopPc = "done" => (conns = {} /\ open = {})

(***************************************************************************)
(* s.connections is never written by one goroutine while another ranges   *)
(* over it: the map is guarded by s.lock.  About Stop ranging and deleting *)
(* without taking s.lock.                                                  *)
(***************************************************************************)
NoMapRace == ~raced

(***************************************************************************)
(* A Stop that has begun returns: Shutdown's wait for in-flight /signals  *)
(* handlers ends although those handlers wait for s.lock, which           *)
(* signalHandler holds while Stop deletes from the map it ranges over.    *)
(***************************************************************************)
StopTerminates == stopPc = "closing" ~> stopPc = "done"
=============================================================================
