------------------------------- MODULE Transport -------------------------------
(***************************************************************************)
(* How the lobby client carries a GET to the lobby server: two endpoints    *)
(* (primary, proxy), three HTTP backends, a backend remembered from the     *)
(* last success and shared by all threads, one persistent WinHTTP           *)
(* connection under a mutex, and a TLS connection the poll thread keeps     *)
(* open between its requests.                                               *)
(*                                                                          *)
(* A URL is its scheme; certificate verification and timeouts are one of    *)
(* the ways in which an exchange fails.  The settings are read once.        *)
(***************************************************************************)
EXTENDS Integers, Sequences, SequencesExt

CONSTANTS
  Settings,      \* the settings and platforms considered: what the INI, the
                 \* environment and the operating system say
  MaxRequests    \* bound: requests of the poll thread; the room thread makes one

VARIABLES
  in,            \* the settings of this process
  remembered,    \* g_lobbyHttpBackend
  wh,            \* PersistentWinHttpConnection: lock, open handles
  kept,          \* m_keepAlive's connection: open, answers not read yet
  th             \* the threads that send requests

vars == <<in, remembered, wh, kept, th>>

Threads == {"poll", "room"}
Backends == {"WinHttp", "WinInet", "EmbeddedTls"}
NoConnection == [open |-> FALSE, pending |-> <<>>]

--------------------------------------------------------------------------------
(* The endpoint configuration. *)

Flags == {"unset", "bad", "no", "yes"}

(* An environment value that parses wins over the INI's. *)
ParseBoolValue(v) == v \in {"no", "yes"}
Flag(env, ini) ==
  \/ ParseBoolValue(env) /\ env = "yes"
  \/ ~ParseBoolValue(env) /\ ini = "yes"

ExplicitBackend(s) ==
  \E v \in {s.envInet, s.iniInet, s.envTls, s.iniTls} : ParseBoolValue(v)

HasHttpScheme(u) == u \in {"http", "https"}

GetLobbyEndpointConfig(s) ==
  LET auto == ~ExplicitBackend(s)
      legacyTls == auto /\ s.os = "xp" /\ s.tls
  IN [override |-> HasHttpScheme(s.base),
      primary |-> IF HasHttpScheme(s.base) THEN s.base ELSE "https",
      proxy |-> IF HasHttpScheme(s.proxy) THEN s.proxy ELSE "none",
      forceWinInet |-> Flag(s.envInet, s.iniInet),
      forceEmbeddedTls |-> Flag(s.envTls, s.iniTls) \/ legacyTls \/ (auto /\ s.os = "wine"),
      preferWinInet |-> auto /\ s.os = "xp" /\ ~s.tls]

Config == GetLobbyEndpointConfig(in)
Scheme(ep) == IF ep = "primary" THEN Config.primary ELSE Config.proxy
NoForce == ~Config.forceWinInet /\ ~Config.forceEmbeddedTls

--------------------------------------------------------------------------------
(* The order in which the backends of one endpoint are tried. *)

AllowWinHttp(ep) == ep = "primary" /\ ~Config.override
TryEmbeddedTls(ep) ==
  Scheme(ep) = "https" /\ (~Config.forceWinInet \/ Config.forceEmbeddedTls)

RememberedAny(ep, b) == b \in Backends
RememberedUsable(ep, b) ==
  \/ b = "WinInet" /\ ~Config.forceEmbeddedTls
  \/ b = "EmbeddedTls" /\ TryEmbeddedTls(ep)
  \/ b = "WinHttp" /\ AllowWinHttp(ep) /\ NoForce

When(c, b) == IF c THEN <<b>> ELSE <<>>
Fallbacks(ep) ==
  When(Config.preferWinInet /\ NoForce, "WinInet")
    \o When(AllowWinHttp(ep) /\ NoForce, "WinHttp")
    \o When(TryEmbeddedTls(ep), "EmbeddedTls")
    \o When(~(TryEmbeddedTls(ep) /\ Config.forceEmbeddedTls), "WinInet")

(* Mutant: a remembered backend that fails ends the request. *)
RememberedOnly(ep, rem) ==
  IF RememberedUsable(ep, rem) THEN <<rem>> ELSE Fallbacks(ep)

TryHttpGetForEndpoint(ep, rem) ==
  When(RememberedUsable(ep, rem), rem) \o Fallbacks(ep)

(* Mutant: the flags of what was tried are not looked at. *)
NextAgain(t) ==
  LET left == SelectSeq(th[t].plan, LAMBDA b : TRUE)
  IN IF Len(th[t].sends) > 6 \/ left = <<>> THEN "none" ELSE left[1]

NextBackend(t) ==
  LET left == SelectSeq(th[t].plan, LAMBDA b : b \notin th[t].tried)
  IN IF left = <<>> THEN "none" ELSE left[1]

--------------------------------------------------------------------------------
(* A thread: pc, number of its request, whether it is a goodbye, endpoint,  *)
(* plan, backends tried; for the properties the sends of this request, the  *)
(* endpoints tried, and the request whose answer was returned.              *)

IdleThread(n) ==
  [pc |-> "idle", req |-> n, goodbye |-> FALSE, ep |-> "primary", plan |-> <<>>,
   tried |-> {}, sends |-> <<>>, answer |-> 0]

StartEndpoint(r, ep) ==
  [r EXCEPT !.pc = "try", !.ep = ep, !.tried = {},
            !.plan = TryHttpGetForEndpoint(ep, remembered)]

(* DoLobbyHttpGetPath begins.  For the poll thread m_shouldStop is read     *)
(* here: a goodbye does not use the kept connection.                        *)
Bound(t) == IF t = "poll" THEN MaxRequests ELSE 1
BeginRequest(t) ==
  /\ th[t].pc = "idle" /\ th[t].req < Bound(t)
  /\ \E bye \in (IF t = "poll" THEN BOOLEAN ELSE {FALSE}) :
       th' = [th EXCEPT ![t] =
                StartEndpoint([IdleThread(th[t].req + 1) EXCEPT !.goodbye = bye], "primary")]
  /\ UNCHANGED <<in, remembered, wh, kept>>

Sent(r, b, reused) ==
  [r EXCEPT !.tried = @ \cup {b}, !.sends = Append(@, [ep |-> r.ep, by |-> b, kept |-> reused])]

(* What came of an attempt: a non-empty body ends the request and is        *)
(* remembered (LogBackendTransition); anything else leaves the loop to the  *)
(* next backend.  The body of an error page counts for WinHTTP and WinINet. *)
Answered(t, r, b, of) ==
  /\ th' = [th EXCEPT ![t] = [r EXCEPT !.pc = "done", !.answer = of]]
  /\ remembered' = b
NoAnswer(t, r) ==
  /\ th' = [th EXCEPT ![t] = r]
  /\ UNCHANGED remembered

DoHttpGetViaWinInet(t) ==
  LET r == Sent(th[t], "WinInet", FALSE) IN
  /\ th[t].pc = "try" /\ NextBackend(t) = "WinInet"
  /\ Answered(t, r, "WinInet", r.req) \/ NoAnswer(t, r)
  /\ UNCHANGED <<in, wh, kept>>

(* The mutex is held for the whole exchange; every failure closes both      *)
(* handles, an empty answer leaves them open.                               *)
LockWinHttp(t) ==
  /\ th[t].pc = "try" /\ NextBackend(t) = "WinHttp" /\ wh.lock = "none"
  /\ wh' = [lock |-> t, open |-> TRUE]
  /\ th' = [th EXCEPT ![t] = [Sent(@, "WinHttp", FALSE) EXCEPT !.pc = "winhttp"]]
  /\ UNCHANGED <<in, remembered, kept>>

DoHttpGetViaWinHttp(t) ==
  LET r == [th[t] EXCEPT !.pc = "try"] IN
  /\ th[t].pc = "winhttp"
  /\ \/ Answered(t, r, "WinHttp", r.req) /\ wh' = [wh EXCEPT !.lock = "none"]
     \/ \E open \in BOOLEAN : NoAnswer(t, r) /\ wh' = [wh EXCEPT !.lock = "none", !.open = open]
  /\ UNCHANGED <<in, kept>>

(* Mutant: the handles are closed without the mutex. *)
CloseUnlocked == TRUE
CloseLocked == wh.lock = "none"

(* The destructor of a lobby session, its poll thread joined. *)
ClosePersistentWinHttpConnection ==
  /\ th["poll"].pc = "idle" /\ CloseLocked
  /\ wh' = [wh EXCEPT !.open = FALSE]
  /\ remembered' = "Unknown"
  /\ kept' = NoConnection
  /\ UNCHANGED <<in, th>>

(* A TLS connection is opened (name, TCP connect, handshake, certificate) or  *)
(* not; without the embedded library there is none.                           *)
Open == {"connected", "refused"} \ (IF in.tls THEN {} ELSE {"connected"})

(* Exchange writes the request and reads until the response is complete, the  *)
(* server closes, or the read fails.                                          *)
Exchange == {"complete", "completeAndClose", "timeout", "reset"}
Fails(x) == x \in {"timeout", "reset"}

(* ParseHttpResponse: an error status, a malformed or an empty response gives *)
(* the caller no body.                                                        *)
ParseHttpResponse == {"body", "nothing"}

(* HttpGet: a connection of its own for each request. *)
UsesKeptForAll(t) == t = "poll" /\ th[t].ep = "primary"
UsesKept(t) == t = "poll" /\ ~th[t].goodbye /\ th[t].ep = "primary"

HttpGet(t) ==
  LET r == Sent(th[t], "EmbeddedTls", FALSE) IN
  /\ th[t].pc = "try" /\ NextBackend(t) = "EmbeddedTls" /\ ~UsesKept(t)
  /\ \E o \in Open, x \in Exchange, b \in ParseHttpResponse :
       IF o = "connected" /\ ~Fails(x) /\ b = "body"
       THEN Answered(t, r, "EmbeddedTls", r.req) ELSE NoAnswer(t, r)
  /\ UNCHANGED <<in, wh, kept>>

(* Mutant: only a connection that is reset is dropped. *)
DropIfReset(c, x) == IF x = "reset" THEN NoConnection ELSE c
DropFailed(c, x) == NoConnection

(* KeepAliveClient::Get.  The request is written on the kept connection or    *)
(* on a new one; the first answer on it is taken for this request's.  An      *)
(* exchange that fails leaves the answer to come and drops the connection; on *)
(* a reused connection it is repeated once on a fresh one.                    *)
KeepAliveGet(t) ==
  LET reused == kept.open
      pending == Append(kept.pending, th[t].req)
      r == [Sent(th[t], "EmbeddedTls", reused) EXCEPT !.pc = "try"]
      again == [r EXCEPT !.tried = th[t].tried]
  IN
  /\ th[t].pc = "try" /\ NextBackend(t) = "EmbeddedTls" /\ UsesKept(t)
  /\ \E o \in (IF reused THEN {"connected"} ELSE Open), x \in Exchange :
       \/ /\ o = "refused"
          /\ kept' = NoConnection /\ NoAnswer(t, r)
       \/ /\ o = "connected" /\ Fails(x)
          /\ kept' = DropFailed([open |-> TRUE, pending |-> pending], x)
          /\ NoAnswer(t, IF reused THEN again ELSE r)
       \/ /\ o = "connected" /\ ~Fails(x)
          /\ kept' = IF x = "complete" THEN [open |-> TRUE, pending |-> Tail(pending)]
                                       ELSE NoConnection
          /\ \E b \in ParseHttpResponse :
               IF b = "body" THEN Answered(t, r, "EmbeddedTls", Head(pending))
                             ELSE NoAnswer(t, r)
  /\ UNCHANGED <<in, wh>>

(* No backend is left: the proxy follows the primary when it is set and     *)
(* differs, and otherwise the request returns an empty body.                *)
HasProxy == Config.proxy # "none" /\ in.proxyDiffers
NextEndpoint(t) ==
  /\ th[t].pc = "try" /\ NextBackend(t) = "none"
  /\ th' = [th EXCEPT ![t] =
              IF @.ep = "primary" /\ HasProxy THEN StartEndpoint(@, "proxy")
              ELSE [@ EXCEPT !.pc = "done"]]
  /\ UNCHANGED <<in, remembered, wh, kept>>

Return(t) ==
  /\ th[t].pc = "done"
  /\ th' = [th EXCEPT ![t] = IdleThread(@.req)]
  /\ UNCHANGED <<in, remembered, wh, kept>>

--------------------------------------------------------------------------------
Init ==
  /\ in \in Settings
  /\ remembered = "Unknown"
  /\ wh = [lock |-> "none", open |-> FALSE]
  /\ kept = NoConnection
  /\ th = [t \in Threads |-> IdleThread(0)]

Next ==
  \/ \E t \in Threads :
       \/ BeginRequest(t) \/ DoHttpGetViaWinInet(t) \/ LockWinHttp(t)
       \/ DoHttpGetViaWinHttp(t) \/ HttpGet(t) \/ KeepAliveGet(t)
       \/ NextEndpoint(t) \/ Return(t)
  \/ ClosePersistentWinHttpConnection

Spec == Init /\ [][Next]_vars

--------------------------------------------------------------------------------
TypeOK ==
  /\ in \in Settings
  /\ remembered \in Backends \cup {"Unknown"}
  /\ wh \in [lock : Threads \cup {"none"}, open : BOOLEAN]
  /\ kept.open \in BOOLEAN /\ Len(kept.pending) <= MaxRequests
  /\ \A t \in Threads :
       /\ th[t].pc \in {"idle", "try", "winhttp", "done"}
       /\ th[t].req \in 0 .. MaxRequests /\ th[t].answer \in 0 .. MaxRequests
       /\ th[t].tried \subseteq Backends
       /\ Len(th[t].sends) <= 6

(* What the settings permit for an endpoint. *)
Permitted(ep) ==
  IF Scheme(ep) = "https" /\ Config.forceEmbeddedTls THEN {"EmbeddedTls"}
  ELSE IF Scheme(ep) = "http" \/ Config.forceWinInet THEN {"WinInet"}
  ELSE {"EmbeddedTls", "WinInet"} \cup (IF AllowWinHttp(ep) THEN {"WinHttp"} ELSE {})

(* A body handed to the caller is the server's answer to this very request,  *)
(* never the late answer to an earlier one on the kept connection            *)
(* (KeepAliveClient::Get drops the connection on every failed exchange).     *)
AnswerIsOwn == \A t \in Threads : th[t].answer \in {0, th[t].req}

(* Whatever another request or another endpoint made the threads remember,   *)
(* a request is only sent by a backend the settings permit for its endpoint. *)
OnlyPermitted ==
  \A t \in Threads : \A i \in 1 .. Len(th[t].sends) :
    th[t].sends[i].by \in Permitted(th[t].sends[i].ep)

(* A request fails only when every permitted backend of every endpoint was   *)
(* tried: what is remembered changes the order and shortens nothing.         *)
NothingLeftUntried ==
  \A t \in Threads :
    th[t].pc = "done" /\ th[t].answer = 0 =>
      \A ep \in {"primary"} \cup (IF HasProxy THEN {"proxy"} ELSE {}) :
        \A b \in Permitted(ep) :
          \E i \in 1 .. Len(th[t].sends) : th[t].sends[i].ep = ep /\ th[t].sends[i].by = b

(* A request that changes the room is not repeated more often than the       *)
(* fallbacks need: once per endpoint and backend, and once more only after   *)
(* a kept connection failed.                                                 *)
RepeatedOnlyByFallback ==
  \A t \in Threads : \A i, j \in 1 .. Len(th[t].sends) :
    LET a == th[t].sends[i]
        b == th[t].sends[j]
    IN i < j /\ a.ep = b.ep /\ a.by = b.by => a.kept /\ ~b.kept /\ j = i + 1

(* "A goodbye never waits on a connection that may have gone stale": a       *)
(* request made while the session stops does not use the kept connection.    *)
GoodbyeIsFresh ==
  \A t \in Threads : th[t].goodbye =>
    \A i \in 1 .. Len(th[t].sends) : ~th[t].sends[i].kept

(* The WinHTTP handles a thread is using are not closed under it: a session  *)
(* that ends while the room thread is in an exchange waits for the mutex.    *)
NoCloseUnderRequest == \A t \in Threads : th[t].pc = "winhttp" => wh.open

(* A request gets its own answer, by every permitted way and no other,      *)
(* repeated only by a fallback, over handles nobody closes.                 *)
TransportSafe ==
  /\ TypeOK /\ AnswerIsOwn /\ OnlyPermitted /\ NothingLeftUntried
  /\ RepeatedOnlyByFallback /\ GoodbyeIsFresh /\ NoCloseUnderRequest
================================================================================
