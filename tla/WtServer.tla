----------------------------- MODULE WtServer ------------------------------
(***************************************************************************)
(* The server side of the msquic backend (vm/webtransport_backend.cpp):    *)
(* listen, the listener callback, the connection callbacks of incoming     *)
(* connections, accept and close_server.                                   *)
(*                                                                         *)
(* External: msquic reports a new connection any time between ListenerStart*)
(* and ListenerStop; its handshake can succeed only after ConnectionSet-   *)
(* Configuration was called for it; the events of a connection come one at *)
(* a time, the CONNECTED one at most once and before SHUTDOWN_COMPLETE.    *)
(***************************************************************************)
EXTENDS Integers, Sequences, SeqFacts

CONSTANTS Conns  \* the connections peers open

VARIABLES vm,        \* where the VM thread is
          started,   \* ListenerStart has been called and ListenerStop has not
          config,    \* g_listener_config_map holds the listener
          closed,    \* server->closed
          link,      \* connection |-> what msquic made of it
          configured,\* connections given a configuration
          known,     \* keys of g_msquic_server_conns
          pending,   \* server->pending_connections
          accepted   \* what accept has returned

vars == <<vm, started, config, closed, link, configured, known, pending, accepted>>
peers == <<link, configured, known>>

Init == /\ vm = "listen" /\ started = FALSE /\ config = FALSE /\ closed = FALSE
        /\ link = [c \in Conns |-> "none"] /\ configured = {} /\ known = {}
        /\ pending = <<>> /\ accepted = <<>>

-----------------------------------------------------------------------------
\* listen, up to and with ListenerStart
StartListener ==
    /\ vm = "listen"
    /\ vm' = "store" /\ started' = TRUE
    /\ UNCHANGED <<config, closed, peers, pending, accepted>>

\* ListenerStart fails: listen returns null.
ListenFails ==
    /\ vm = "listen"
    /\ vm' = "stopped"
    /\ UNCHANGED <<started, config, closed, peers, pending, accepted>>

\* Mutant: the configuration is stored under another key.
StoreConfigElsewhere ==
    /\ vm = "store"
    /\ vm' = "serving"
    /\ UNCHANGED <<started, config, closed, peers, pending, accepted>>

\* g_listener_config_map[listener] = configuration
StoreConfig ==
    /\ vm = "store"
    /\ vm' = "serving" /\ config' = TRUE
    /\ UNCHANGED <<started, closed, peers, pending, accepted>>

\* Mutant: the connection stays at the front of the queue.
AcceptAndKeep ==
    /\ vm = "serving" /\ pending # <<>>
    /\ accepted' = Append(accepted, Head(pending))
    /\ UNCHANGED <<vm, started, config, closed, peers, pending>>

\* accept waits for a connection or for closed, under server_mutex.
Accept ==
    /\ vm = "serving" /\ pending # <<>>
    /\ accepted' = Append(accepted, Head(pending)) /\ pending' = Tail(pending)
    /\ UNCHANGED <<vm, started, config, closed, peers>>

\* close_server: ListenerStop first; its callback sets closed as well.
CloseServer ==
    /\ vm = "serving"
    /\ vm' = "stopped" /\ started' = FALSE /\ closed' = TRUE
    /\ UNCHANGED <<config, peers, pending, accepted>>

-----------------------------------------------------------------------------

\* NEW_CONNECTION: look up the configuration, give it to msquic if there is
\* one, remember the handle.
NewConnection(c) ==
    /\ started /\ link[c] = "none"
    /\ link' = [link EXCEPT ![c] = "handshake"]
    /\ configured' = IF config THEN configured \union {c} ELSE configured
    /\ known' = known \union {c}
    /\ UNCHANGED <<vm, started, config, closed, pending, accepted>>

\* CONNECTED: the handle goes to pending_connections, if the map knows it.
Connected(c) ==
    /\ link[c] = "handshake" /\ c \in configured
    /\ link' = [link EXCEPT ![c] = "up"]
    /\ pending' = IF c \in known THEN Append(pending, c) ELSE pending
    /\ UNCHANGED <<vm, started, config, closed, configured, known, accepted>>

\* SHUTDOWN_COMPLETE: the map forgets the handle; pending_connections and the
\* program may still hold it.
ShutdownComplete(c) ==
    /\ link[c] \in {"handshake", "up"}
    /\ link' = [link EXCEPT ![c] = "down"]
    /\ known' = known \ {c}
    /\ UNCHANGED <<vm, started, config, closed, configured, pending, accepted>>

Next == \/ StartListener \/ ListenFails \/ StoreConfig \/ Accept \/ CloseServer
        \/ \E c \in Conns : NewConnection(c) \/ Connected(c) \/ ShutdownComplete(c)

Spec == Init /\ [][Next]_vars

-----------------------------------------------------------------------------
TypeOK ==
    /\ vm \in {"listen", "store", "serving", "stopped"}
    /\ started \in BOOLEAN /\ config \in BOOLEAN /\ closed \in BOOLEAN
    /\ link \in [Conns -> {"none", "handshake", "up", "down"}]
    /\ configured \in SUBSET Conns
    /\ known = {c \in Conns : link[c] \in {"handshake", "up"}}
    /\ pending \in Seq(Conns) /\ accepted \in Seq(Conns)

Handed == Elements(pending) \union Elements(accepted)

\* A connection reaches the program once: it is handed out by accept or waits
\* to be, never both and never twice.
AcceptedOnce == NoRepeats(accepted \o pending)

\* A connection that is up has been put where accept finds it, and nothing
\* that never came up has.
UpIsHanded == \A c \in Conns : /\ link[c] = "up" => c \in Handed
                               /\ c \in Handed => link[c] \in {"up", "down"}

\* A connection reported after listen has returned gets its configuration:
\* the one reported between ListenerStart and the store into
\* g_listener_config_map does not, and can never come up.
LateOnesConfigured ==
    [][\A c \in Conns : NewConnection(c) /\ vm # "store" => c \in configured']_vars
=============================================================================
