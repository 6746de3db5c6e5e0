----------------------------- MODULE ProxyClient -----------------------------
(***************************************************************************)
(* The request path from libfs to the proxy: ProxyClient.tryReqProxy       *)
(* (api/proxyclient.go) with its retry loop and retry() test, over         *)
(* HttpClient.DoPostWithJson and doCtxWithHostRet (http/http.go) with the  *)
(* 308 redirect loop and the selector's default host (http/selector.go).   *)
(*                                                                         *)
(* Every call is a MkDir of its own path: the first application by the     *)
(* proxy creates the path and answers SUCCESS, a later one answers EEXIST. *)
(* The proxy is the environment: it may apply the live attempt of a call,  *)
(* redirect it, or reject it with an HTTP error, and it may still apply an *)
(* attempt whose caller timed out (an orphan).  Bodies, URLs and headers   *)
(* are abstracted away; errors are named by the text retry() matches.      *)
(***************************************************************************)
EXTENDS Naturals, FiniteSets

CONSTANTS
    Calls,          \* concurrent tryReqProxy calls, one MkDir path each
    Hosts,          \* proxy hosts (HttpCfg.Hosts and redirect targets)
    Host0,          \* hosts[0]: newSelector's defaultHost
    RedirectTo,     \* <<h, h2>>: h may answer 308 with Location h2
    RetryTimes,     \* RetryCfg.RetryTimes (retry_times, default 3)
    MaxRedirect,    \* MAX_REDIRECT_TIMES (10 in the code)
    ClientTimeout,  \* client_timeout_ms > 0 (http.Client.Timeout; 0 = none)
    MaxFaults,      \* bound on refused connections, truncated bodies, HTTP errors
    NoHost          \* model value: no attempt in flight

ASSUME Host0 \in Hosts /\ RedirectTo \subseteq Hosts \X Hosts
ASSUME RetryTimes \in Nat /\ MaxRedirect \in Nat \ {0} /\ ClientTimeout \in BOOLEAN

SUCCESS == 0        \* proto SUCCESS
EEXIST  == 1002     \* proxy code mapped to E_POSIX_EEXIST

Errs == {"none", "refused", "timeout", "EOF", "abnormal", "redirects"}
NoAnswer == [kind |-> "none", code |-> SUCCESS, loc |-> NoHost]
Answers == {NoAnswer}
           \cup [kind : {"ok"}, code : {SUCCESS, EEXIST}, loc : {NoHost}]
           \cup [kind : {"redirect"}, code : {SUCCESS}, loc : Hosts]
           \cup [kind : {"error"}, code : {SUCCESS}, loc : {NoHost}]

VARIABLES
    cpc,            \* call: idle, wait (attempt out), sleep (backoff), done
    try,            \* tryReqProxy's loop index i
    redir,          \* doCtxWithHostRet's redirectIdx
    chost,          \* doCtxWithHostRet's h: host of the current attempt
    replace,        \* doCtxWithHostRet's replaceHost
    res,            \* the call's last err and result.GetCode()
    defaultHost,    \* selector.defaultHost, shared by all calls
    live,           \* host the call's current attempt was sent to, or NoHost
    answer,         \* the proxy's answer to the current attempt, not yet read
    orphans,        \* attempts of the call given up by the client, still at the proxy
    ns,             \* proxy namespace: the call's path exists
    applied,        \* times the proxy applied the call's request (history)
    pre,            \* ns of the call's path when the call began (history)
    faults

vars == <<cpc, try, redir, chost, replace, res, defaultHost, live, answer,
          orphans, ns, applied, pre, faults>>

(***************************************************************************)
(* retry(err, code): the substrings "connection refused", "EOF", and a     *)
(* url.Error with Timeout(); "abnormal resp code" and "stopped after ...   *)
(* redirects" are not retried, nor is a nil error.                         *)
(***************************************************************************)
Retryable(err) == err \in {"refused", "EOF", "timeout"}

\* http.ShouldRetry, the only one NewHttpClient ever installs: a timeout,
\* "use of closed network connection" or "connection reset by peer".
ShouldRetry(code, err) == err = "timeout"

\* p.client.Do(req) on host h: the attempt is out, the call waits on it.
Send(c, h) ==
    /\ live' = [live EXCEPT ![c] = h]
    /\ cpc' = [cpc EXCEPT ![c] = "wait"]

\* DoPostWithJson -> doCtxWithHostRet: sel.Get() hands out defaultHost,
\* redirectIdx and replaceHost start afresh, and the first Do is issued.
DoPost(c) ==
    /\ chost' = [chost EXCEPT ![c] = defaultHost]
    /\ redir' = [redir EXCEPT ![c] = 0]
    /\ replace' = [replace EXCEPT ![c] = FALSE]
    /\ Send(c, defaultHost)

(***************************************************************************)
(* doCtxWithHostRet returns with host h (its deferred sel.update(h) runs   *)
(* if replaceHost), DoPostWithJson returns err, and tryReqProxy's retry()  *)
(* decides between the backoff sleep and returning err.                    *)
(***************************************************************************)
Finish(c, h, err, code) ==
    /\ defaultHost' = IF replace[c] THEN h ELSE defaultHost
    /\ res' = [res EXCEPT ![c] = [err |-> err, code |-> code]]
    /\ cpc' = [cpc EXCEPT ![c] = IF Retryable(err) THEN "sleep" ELSE "done"]
    /\ live' = [live EXCEPT ![c] = NoHost]

\* MkDir -> tryReqProxy with i = 0.
Call(c) ==
    /\ cpc[c] = "idle"
    /\ try' = [try EXCEPT ![c] = 0]
    /\ pre' = [pre EXCEPT ![c] = ns[c]]
    /\ DoPost(c)
    /\ UNCHANGED <<res, defaultHost, answer, orphans, ns, applied, faults>>

(***************************************************************************)
(* A 2xx answer: ShouldRetry(code, nil) is FALSE, so doCtxWithHostRet      *)
(* returns the response; DoPostWithJson decodes it into result, or fails   *)
(* on a truncated body with "unexpected EOF" (result keeps its zero code). *)
(***************************************************************************)
ReplyOk(c) ==
    /\ answer[c].kind = "ok"
    /\ ~ShouldRetry(answer[c].code, "none")
    /\ answer' = [answer EXCEPT ![c] = NoAnswer]
    /\ \E truncated \in BOOLEAN :
        /\ truncated => faults < MaxFaults
        /\ faults' = IF truncated THEN faults + 1 ELSE faults
        /\ IF truncated THEN Finish(c, chost[c], "EOF", SUCCESS)
                        ELSE Finish(c, chost[c], "none", answer[c].code)
    /\ UNCHANGED <<try, redir, chost, replace, orphans, ns, applied, pre>>

(***************************************************************************)
(* A 308: h becomes the Location host and redirectIdx grows; at            *)
(* MAX_REDIRECT_TIMES the call fails (replaceHost is not yet set by this   *)
(* redirect, but the deferred update uses the new h), else replaceHost is  *)
(* set and the request is sent again to the new host.                      *)
(***************************************************************************)
ReplyRedirect(c) ==
    /\ answer[c].kind = "redirect"
    /\ answer' = [answer EXCEPT ![c] = NoAnswer]
    /\ chost' = [chost EXCEPT ![c] = answer[c].loc]
    /\ redir' = [redir EXCEPT ![c] = @ + 1]
    /\ IF redir[c] + 1 >= MaxRedirect
       THEN /\ Finish(c, answer[c].loc, "redirects", SUCCESS)
            /\ UNCHANGED replace
       ELSE /\ replace' = [replace EXCEPT ![c] = TRUE]
            /\ Send(c, answer[c].loc)
            /\ UNCHANGED <<res, defaultHost>>
    /\ UNCHANGED <<try, orphans, ns, applied, pre, faults>>

\* HTTP status >= 400: ErrAbnormalRespCode, which retry() does not match.
ReplyError(c) ==
    /\ answer[c].kind = "error"
    /\ answer' = [answer EXCEPT ![c] = NoAnswer]
    /\ Finish(c, chost[c], "abnormal", SUCCESS)
    /\ UNCHANGED <<try, redir, chost, replace, orphans, ns, applied, pre, faults>>

(***************************************************************************)
(* http.Client.Timeout expires while the attempt is out: an attempt the    *)
(* proxy has not taken yet stays with it as an orphan, an answer not yet   *)
(* read is dropped.  The url.Error is returned at once (the host retry     *)
(* below ShouldRetry is reached only with err == nil).                     *)
(***************************************************************************)
Timeout(c) ==
    /\ ClientTimeout
    /\ cpc[c] = "wait"
    /\ orphans' = [orphans EXCEPT ![c] = IF live[c] # NoHost THEN @ + 1 ELSE @]
    /\ answer' = [answer EXCEPT ![c] = NoAnswer]
    /\ Finish(c, chost[c], "timeout", SUCCESS)
    /\ UNCHANGED <<try, redir, chost, replace, ns, applied, pre, faults>>

\* The connection is refused before the proxy saw the request.
Refused(c) ==
    /\ live[c] # NoHost
    /\ faults < MaxFaults
    /\ faults' = faults + 1
    /\ Finish(c, chost[c], "refused", SUCCESS)
    /\ UNCHANGED <<try, redir, chost, replace, answer, orphans, ns, applied, pre>>

\* After the backoff sleep, the loop runs again while i <= RetryTimes.
Retry(c) ==
    /\ cpc[c] = "sleep"
    /\ try[c] < RetryTimes
    /\ try' = [try EXCEPT ![c] = @ + 1]
    /\ DoPost(c)
    /\ UNCHANGED <<res, defaultHost, answer, orphans, ns, applied, pre, faults>>

\* The loop is over: tryReqProxy returns the last err.
GiveUp(c) ==
    /\ cpc[c] = "sleep"
    /\ try[c] >= RetryTimes
    /\ cpc' = [cpc EXCEPT ![c] = "done"]
    /\ UNCHANGED <<try, redir, chost, replace, res, defaultHost, live, answer,
                   orphans, ns, applied, pre, faults>>

(***************************************************************************)
(* The proxy.  It creates the path on the first application and answers   *)
(* EEXIST on a later one; it may instead redirect or reject the attempt.   *)
(***************************************************************************)
Apply(c) ==
    /\ ns' = [ns EXCEPT ![c] = TRUE]
    /\ applied' = [applied EXCEPT ![c] = @ + 1]

Serve(c) ==
    /\ live[c] # NoHost
    /\ live' = [live EXCEPT ![c] = NoHost]
    /\ \/ /\ Apply(c)
          /\ answer' = [answer EXCEPT ![c] =
                [kind |-> "ok", code |-> IF ns[c] THEN EEXIST ELSE SUCCESS, loc |-> NoHost]]
          /\ UNCHANGED faults
       \/ \E h2 \in Hosts :
          /\ <<live[c], h2>> \in RedirectTo
          /\ answer' = [answer EXCEPT ![c] = [kind |-> "redirect", code |-> SUCCESS, loc |-> h2]]
          /\ UNCHANGED <<ns, applied, faults>>
       \/ /\ faults < MaxFaults
          /\ faults' = faults + 1
          /\ answer' = [answer EXCEPT ![c] = [kind |-> "error", code |-> SUCCESS, loc |-> NoHost]]
          /\ UNCHANGED <<ns, applied>>
    /\ UNCHANGED <<cpc, try, redir, chost, replace, res, defaultHost, orphans, pre>>

\* The proxy applies an attempt its client gave up on; the answer is lost.
ServeOrphan(c) ==
    /\ orphans[c] > 0
    /\ orphans' = [orphans EXCEPT ![c] = @ - 1]
    /\ Apply(c)
    /\ UNCHANGED <<cpc, try, redir, chost, replace, res, defaultHost, live,
                   answer, pre, faults>>

Init ==
    /\ cpc = [c \in Calls |-> "idle"]
    /\ try = [c \in Calls |-> 0]
    /\ redir = [c \in Calls |-> 0]
    /\ chost = [c \in Calls |-> Host0]
    /\ replace = [c \in Calls |-> FALSE]
    /\ res = [c \in Calls |-> [err |-> "none", code |-> SUCCESS]]
    /\ defaultHost = Host0
    /\ live = [c \in Calls |-> NoHost]
    /\ answer = [c \in Calls |-> NoAnswer]
    /\ orphans = [c \in Calls |-> 0]
    /\ ns \in [Calls -> BOOLEAN]
    /\ applied = [c \in Calls |-> 0]
    /\ pre = [c \in Calls |-> FALSE]
    /\ faults = 0

\* The steps of the goroutine running call c.
Client(c) ==
    \/ ReplyOk(c) \/ ReplyRedirect(c) \/ ReplyError(c) \/ Timeout(c)
    \/ Refused(c) \/ Retry(c) \/ GiveUp(c)

Next ==
    \E c \in Calls : Call(c) \/ Client(c) \/ Serve(c) \/ ServeOrphan(c)

\* Each calling goroutine keeps running; the proxy owes nothing, so a call
\* that waits returns only through the answer or the client's timeout.
Fairness == \A c \in Calls : WF_vars(Client(c))

Spec == Init /\ [][Next]_vars /\ Fairness

-----------------------------------------------------------------------------

PTypeOK ==
    /\ cpc \in [Calls -> {"idle", "wait", "sleep", "done"}]
    /\ try \in [Calls -> 0..RetryTimes]
    /\ redir \in [Calls -> 0..MaxRedirect]
    /\ chost \in [Calls -> Hosts] /\ defaultHost \in Hosts
    /\ replace \in [Calls -> BOOLEAN]
    /\ res \in [Calls -> [err : Errs, code : {SUCCESS, EEXIST}]]
    /\ live \in [Calls -> Hosts \cup {NoHost}]
    /\ answer \in [Calls -> Answers]
    /\ orphans \in [Calls -> Nat] /\ applied \in [Calls -> Nat]
    /\ ns \in [Calls -> BOOLEAN] /\ pre \in [Calls -> BOOLEAN]
    /\ faults \in 0..MaxFaults

(***************************************************************************)
(* What a returned MkDir tells its caller about the proxy (dir.go Mkdir    *)
(* and MkdirAll act on it): err == nil with SUCCESS means this call        *)
(* created the path; err == nil with EEXIST means the path existed before  *)
(* the call or an earlier attempt of the same call, given up by            *)
(* tryReqProxy after a timeout or a truncated body, created it.            *)
(***************************************************************************)
ReplyMatchesEffect ==
    \A c \in Calls :
        cpc[c] = "done" /\ res[c].err = "none" =>
            /\ res[c].code = SUCCESS => ~pre[c] /\ applied[c] >= 1
            /\ res[c].code = EEXIST => pre[c] \/ applied[c] >= 2

(***************************************************************************)
(* Retries bound the duplicates: the proxy applies one MkDir at most       *)
(* RetryTimes + 1 times, however the timeouts, redirects and late          *)
(* applications of given-up attempts interleave.                           *)
(***************************************************************************)
DuplicatesBounded == \A c \in Calls : applied[c] <= RetryTimes + 1

(***************************************************************************)
(* Every call returns: the redirect loop and the retry loop are bounded    *)
(* and the client's timeout ends a wait the proxy never answers.           *)
(***************************************************************************)
CallReturns == \A c \in Calls : cpc[c] # "idle" ~> cpc[c] = "done"
=============================================================================
