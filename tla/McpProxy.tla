------------------------------ MODULE McpProxy ------------------------------
(***************************************************************************)
(* The daemon's MCP proxy: an agent's JSON-RPC call is forwarded to the    *)
(* subscribed REPL and its connection blocks until the REPL replies or the *)
(* pending table is cleared.  There is no timeout.                         *)
(* Source: bins/orkia/src/pty_daemon/journal_host.rs (ProxyMcpDispatcher,  *)
(* attach_subscriber, resolve_mcp) and serve_subscriber in pty_daemon.rs.  *)
(*                                                                         *)
(* Envelope frames share the channel but are JournalReplay's subject.      *)
(***************************************************************************)
EXTENDS Naturals, Sequences

CONSTANTS
    Calls,          \* correlation ids; each is used once
    MaxSessions     \* bound: subscribers over a behaviour

ASSUME ProxyConstants == MaxSessions \in Nat

VARIABLES
    call,       \* call[c].at: idle, inserted, unsent, waiting, returned
                \* call[c].to: the session its frame was sent to
                \* call[c].with: what dispatch returned
    replied,    \* calls whose reply channel holds the REPL's answer
    pending,    \* keys of the pending map
    generation,
    sink,       \* session installed, 0 for None
    session     \* session[s], see NoSession

proxy_vars == <<call, replied, pending, generation, sink, session>>

Sessions == 1 .. MaxSessions

\* phase: none, bumped (has its generation), installed (sink replaced), on (writer runs), clearing (left the
\* loop as the current generation), failing (about to fail_pending), done
NoSession == [phase |-> "none", alive |-> FALSE, chan |-> <<>>, asked |-> {},
              replies |-> {}]

ProxyInit ==
    /\ call = [c \in Calls |-> [at |-> "idle", to |-> 0, with |-> "none"]]
    /\ replied = {}
    /\ pending = {}
    /\ generation = 0
    /\ sink = 0
    /\ session = [s \in Sessions |-> NoSession]

\* the receiver of the installed channel exists
Listening == sink # 0 /\ session[sink].phase \in {"installed", "on"}

Return(c, with) == call' = [call EXCEPT ![c] = [@ EXCEPT !.at = "returned", !.with = with]]

-----------------------------------------------------------------------------
(* dispatch *)

\* allocate corr_id and register the reply sender
Dispatch(c) ==
    /\ call[c].at = "idle"
    /\ call' = [call EXCEPT ![c].at = "inserted"]
    /\ pending' = pending \union {c}
    /\ UNCHANGED <<replied, generation, sink, session>>

\* send the frame to whatever sink is installed
Send(c) ==
    /\ call[c].at = "inserted"
    /\ IF Listening
       THEN /\ call' = [call EXCEPT ![c] = [@ EXCEPT !.at = "waiting", !.to = sink]]
            /\ session' = [session EXCEPT ![sink].chan = Append(@, c)]
       ELSE /\ call' = [call EXCEPT ![c].at = "unsent"]
            /\ UNCHANGED session
    /\ UNCHANGED <<replied, pending, generation, sink>>

\* the entries once an unsent call has taken its own back
Withdraw(c) == pending \ {c}

\* not sent: take the entry back and answer "orkia shell offline"
Offline(c) ==
    /\ call[c].at = "unsent"
    /\ pending' = Withdraw(c)
    /\ Return(c, "offline")
    /\ UNCHANGED <<replied, generation, sink, session>>

\* Mutant: an Err from recv is retried instead of returned.
ReceiveRetries(c) ==
    /\ call[c].at = "waiting"
    /\ c \in replied /\ Return(c, "reply")
    /\ UNCHANGED <<replied, pending, generation, sink, session>>

\* recv: the reply, or Err because the sender was dropped unanswered
Receive(c) ==
    /\ call[c].at = "waiting"
    /\ \/ c \in replied /\ Return(c, "reply")
       \/ c \notin replied /\ c \notin pending /\ Return(c, "disconnected")
    /\ UNCHANGED <<replied, pending, generation, sink, session>>

-----------------------------------------------------------------------------
(* attach_subscriber *)

\* take the next generation, by which the session is known here ...
AttachBump(s) ==
    /\ session[s].phase = "none"
    /\ s = generation + 1
    /\ session' = [session EXCEPT ![s] = [@ EXCEPT !.phase = "bumped", !.alive = TRUE]]
    /\ generation' = s
    /\ UNCHANGED <<call, replied, pending, sink>>

\* ... replace the sink, perhaps one of a later generation: no lock spans the two ...
AttachInstall(s) ==
    /\ session[s].phase = "bumped"
    /\ session' = [session EXCEPT ![s].phase = "installed"]
    /\ sink' = s
    /\ UNCHANGED <<call, replied, pending, generation>>

\* Mutant: nobody fails the calls of a subscriber that goes away.
FailNothing == pending

\* fail_pending_map: what clear() leaves of the map
FailPending == {}

\* ... then fail every pending call and start the writer thread
AttachFails(s) ==
    /\ session[s].phase = "installed"
    /\ session' = [session EXCEPT ![s].phase = "on"]
    /\ pending' = FailPending
    /\ UNCHANGED <<call, replied, generation, sink>>

-----------------------------------------------------------------------------
(* The writer thread *)

WriterWrites(s) ==
    /\ session[s].phase = "on" /\ session[s].chan # <<>> /\ session[s].alive
    /\ session' = [session EXCEPT ![s] =
           [@ EXCEPT !.chan  = Tail(session[s].chan),
                     !.asked = session[s].asked \union {Head(session[s].chan)}]]
    /\ UNCHANGED <<call, replied, pending, generation, sink>>

LoopEnds(s) == IF session[s].chan = <<>> THEN sink # s ELSE ~session[s].alive

WriterExits(s) ==
    /\ session[s].phase = "on"
    /\ LoopEnds(s)
    /\ session' = [session EXCEPT ![s] =
           [@ EXCEPT !.phase = IF generation = s THEN "clearing" ELSE "failing",
                     !.chan  = <<>>]]
    /\ UNCHANGED <<call, replied, pending, generation, sink>>

WriterClears(s) ==
    /\ session[s].phase = "clearing"
    /\ session' = [session EXCEPT ![s].phase = "failing"]
    /\ sink' = 0
    /\ UNCHANGED <<call, replied, pending, generation>>

\* unconditionally, whoever is subscribed by now
WriterFails(s) ==
    /\ session[s].phase = "failing"
    /\ session' = [session EXCEPT ![s].phase = "done"]
    /\ pending' = FailPending
    /\ UNCHANGED <<call, replied, generation, sink>>

-----------------------------------------------------------------------------
(* The REPL and its control connection *)

\* asks are interactive: the user answers when he likes
ReplReplies(s, c) ==
    /\ session[s].alive
    /\ c \in session[s].asked
    /\ session' = [session EXCEPT ![s] =
           [@ EXCEPT !.asked   = session[s].asked \ {c},
                     !.replies = session[s].replies \union {c}]]
    /\ UNCHANGED <<call, replied, pending, generation, sink>>

\* serve_subscriber reads McpProxyReply: resolve_mcp, a no-op for unknown ids
ResolveMcp(s, c) ==
    /\ c \in session[s].replies
    /\ session' = [session EXCEPT ![s].replies = @ \ {c}]
    /\ replied' = IF c \in pending THEN replied \union {c} ELSE replied
    /\ pending' = pending \ {c}
    /\ UNCHANGED <<call, generation, sink>>

\* replies it sent stay readable; its reader thread returns at EOF and tears
\* nothing down
ReplDies(s) ==
    /\ session[s].alive
    /\ session' = [session EXCEPT ![s] = [@ EXCEPT !.alive = FALSE, !.asked = {}]]
    /\ UNCHANGED <<call, replied, pending, generation, sink>>

ProxyNext ==
    \/ \E c \in Calls : Dispatch(c) \/ Send(c) \/ Offline(c) \/ Receive(c)
    \/ \E s \in Sessions :
          \/ AttachBump(s)
          \/ AttachInstall(s)
          \/ AttachFails(s)
          \/ WriterWrites(s)
          \/ WriterExits(s)
          \/ WriterClears(s)
          \/ WriterFails(s)
          \/ \E c \in Calls : ReplReplies(s, c) \/ ResolveMcp(s, c)
          \/ ReplDies(s)

\* Daemon threads run; attaches, replies and deaths are up to the user.
ProxyFairness ==
    /\ \A c \in Calls :
          /\ WF_proxy_vars(Send(c)) /\ WF_proxy_vars(Offline(c)) /\ WF_proxy_vars(Receive(c))
    /\ \A s \in Sessions :
          /\ WF_proxy_vars(AttachInstall(s))
          /\ WF_proxy_vars(AttachFails(s))
          /\ WF_proxy_vars(WriterWrites(s))
          /\ WF_proxy_vars(WriterExits(s))
          /\ WF_proxy_vars(WriterClears(s))
          /\ WF_proxy_vars(WriterFails(s))
          /\ \A c \in Calls : WF_proxy_vars(ResolveMcp(s, c))

ProxySpec == ProxyInit /\ [][ProxyNext]_proxy_vars /\ ProxyFairness

-----------------------------------------------------------------------------
(* Properties *)

CallType ==
    [at : {"idle", "inserted", "unsent", "waiting", "returned"}, to : 0 .. MaxSessions,
     with : {"none", "offline", "reply", "disconnected"}]

SessionType ==
    [phase : {"none", "bumped", "installed", "on", "clearing", "failing", "done"},
     alive : BOOLEAN, chan : Seq(Calls), asked : SUBSET Calls, replies : SUBSET Calls]

\* Every variable has its type.
ProxyTypeOK ==
    /\ call \in [Calls -> CallType]
    /\ replied \subseteq Calls
    /\ pending \subseteq Calls
    /\ generation \in 0 .. MaxSessions
    /\ sink \in 0 .. MaxSessions
    /\ session \in [Sessions -> SessionType]

\* The pending map holds live calls only: no path out of dispatch leaks one.
PendingIsLive == \A c \in pending : call[c].at \in {"inserted", "unsent", "waiting"}

\* No call waits in the map on a subscriber whose writer thread is over: that
\* thread's last act clears the map, and a frame sent before it was inserted
\* before it.
NoOrphans ==
    \A c \in pending :
        call[c].at = "waiting" => session[call[c].to].phase \notin {"none", "done"}

\* A call whose frame went to a subscriber that was replaced, or whose writer
\* gave up, is answered, whatever the order of insert, send, replace and clear.
ReplacedReleases ==
    \A c \in Calls, s \in Sessions :
        (call[c].at = "waiting" /\ call[c].to = s /\ sink # s)
            ~> call[c].at = "returned"

\* The pending map neither leaks nor strands a call.
PendingSound == ProxyTypeOK /\ PendingIsLive /\ NoOrphans

=============================================================================
