----------------------------- MODULE HttpClient -----------------------------
(***************************************************************************)
(* HttpClient of src/http.rs: mocked responses by URL and the requests     *)
(* that were answered.  tls_enabled is set once, to true, so the branch    *)
(* that refuses https:// is never taken.                                   *)
(***************************************************************************)
EXTENDS ListFilter

CONSTANTS
    Url,       \* URLs, the empty one (<<>>) with them
    Reply,     \* responses a program mocks
    NotFound,  \* Response::not_found()
    None,      \* no response
    MaxSent    \* bound: requests sent

VARIABLES
    mocks,    \* the response registered for each URL, or None
    history,  \* request_history: the URLs of the requests that were answered
    sent      \* history: every request with the response it got, or None

vars == <<mocks, history, sent>>

Init ==
    /\ mocks = [u \in Url |-> None]
    /\ history = <<>>
    /\ sent = <<>>

Mock(u, r) ==
    /\ mocks' = [mocks EXCEPT ![u] = r]
    /\ UNCHANGED <<history, sent>>

Response(u) == IF u = <<>> THEN None
               ELSE IF mocks[u] = None THEN NotFound ELSE mocks[u]

\* Slip: the request is recorded only when there is a mock for it.
SendMocked(u) ==
    /\ Len(sent) < MaxSent
    /\ history' = IF mocks[u] = None THEN history ELSE Append(history, u)
    /\ sent' = Append(sent, <<u, Response(u)>>)
    /\ UNCHANGED mocks

\* handle: an empty URL is refused before anything is recorded.
Send(u) ==
    /\ Len(sent) < MaxSent
    /\ history' = IF u = <<>> THEN history ELSE Append(history, u)
    /\ sent' = Append(sent, <<u, Response(u)>>)
    /\ UNCHANGED mocks

Next == \E u \in Url : Send(u) \/ \E r \in Reply : Mock(u, r)

-----------------------------------------------------------------------------
(***************************************************************************)
(* Properties.                                                             *)
(***************************************************************************)

TypeOK ==
    /\ mocks \in [Url -> Reply \union {None}]
    /\ history \in Seq(Url)
    /\ sent \in Seq(Url \X (Reply \union {NotFound, None}))

\* The history is what was answered, in order: the requests to URLs without a mock
\* too, and none that was refused.
HistoryIsAnswered ==
    LET own == Filter(sent, Url \X (Reply \union {NotFound})) IN
    history = [i \in DOMAIN own |-> own[i][1]]
=============================================================================
