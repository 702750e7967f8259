---------------------------- MODULE RemoteWorld ----------------------------
(***************************************************************************)
(* What lies on the other side of the gateway: the Kaggle kernel that runs *)
(* the worker notebook, the tunnel the worker opens, and the key of the    *)
(* key-value registry through which the worker tells the gateway its URL.  *)
(*                                                                         *)
(* Anybody with the Kaggle account can launch the kernel (the batch        *)
(* runner, the execution bridge, the Kaggle site, a push whose awaiting    *)
(* task was cancelled), so a launch is a step of the environment.          *)
(***************************************************************************)
CONSTANTS
    Url,      \* the URLs cloudflared may hand out
    NoUrl     \* no URL: the registry key is absent, no worker answers

ASSUME NoUrlAssumption == NoUrl \notin Url

VARIABLES
    kernel,       \* execution status of the kernel's last version
    registered,   \* the registry's tunnel_url key
    live          \* the URL whose GET /health answers 200, if any

remoteVars == <<kernel, registered, live>>

UrlOrNone == Url \union {NoUrl}

\* COMPLETE and ERROR stand for the whole of TERMINAL_FAILURE_STATUSES: the
\* gateway tells COMPLETE from the others and draws no other distinction.
ActiveStatus == {"QUEUED", "RUNNING"}
TerminalStatus == {"COMPLETE", "ERROR"}
KernelStatus == ActiveStatus \union TerminalStatus

RemoteTypeOK ==
    /\ kernel \in KernelStatus
    /\ registered \in UrlOrNone
    /\ live \in UrlOrNone

RemoteInit ==
    /\ kernel = "COMPLETE"
    /\ registered = NoUrl
    /\ live = NoUrl

-----------------------------------------------------------------------------
\* A push is accepted: Kaggle queues a new version of the kernel.
Launch ==
    /\ kernel \in TerminalStatus
    /\ kernel' = "QUEUED"
    /\ UNCHANGED <<registered, live>>

\* Kaggle allocates the GPU machine and the notebook starts.
Allocate ==
    /\ kernel = "QUEUED"
    /\ kernel' = "RUNNING"
    /\ UNCHANGED <<registered, live>>

\* The notebook has started the server and cloudflared; it publishes the URL.
WorkerPublishes(u) ==
    /\ kernel = "RUNNING"
    /\ live = NoUrl
    /\ live' = u
    /\ registered' = u
    /\ UNCHANGED kernel

\* The worker stops: POST /shutdown, the idle watchdog, Kaggle's own limits,
\* a missing secret, a failed publish.  Nothing clears the registry key.
WorkerExits ==
    /\ kernel \in ActiveStatus
    /\ kernel' \in TerminalStatus
    /\ live' = NoUrl
    /\ UNCHANGED registered

RemoteNext ==
    \/ Launch
    \/ Allocate
    \/ \E u \in Url : WorkerPublishes(u)
    \/ WorkerExits

-----------------------------------------------------------------------------
\* check_tunnel_discovery answers READY with URL u.  Every other outcome but
\* the authentication and configuration errors is handled as "not ready", and
\* may come back whatever the registry holds: both requests can fail.
Discovered(u) ==
    /\ u \in Url
    /\ registered = u
    /\ live = u
=============================================================================
