------------------------------ MODULE Dispatch ------------------------------
(***************************************************************************)
(* A remote dashboard and the server's access gate: the token check with   *)
(* its brute-force guard (src/server/auth.ts, rateLimit.ts, the HTTP, the  *)
(* whoami and the upgrade gates of src/server/index.ts), and the client's  *)
(* login state and reconnect loop (web/src/lib/auth.svelte.ts and          *)
(* ws.svelte.ts), which share nothing but the answers.                     *)
(*                                                                         *)
(* A chain is one socket with the reconnects that follow it: its state is  *)
(* where the socket is, the answer its re-check is about to be given, or   *)
(* the timer that will reopen it.  The limit on all requests (limiter.hit) *)
(* is left out here, module WallClock has its window.                       *)
(***************************************************************************)
EXTENDS Naturals

CONSTANTS
  Token,       \* tokens of which the server accepts one at a time
  NoToken,     \* no token: none stored, or remote access disabled
  MaxFailures, \* authFail: maxAuthFailures
  MaxChains    \* bound: sockets and timers alive together

ASSUME DispatchAssumption ==
  /\ NoToken \notin Token
  /\ MaxFailures \in Nat \ {0}
  /\ MaxChains \in Nat \ {0}

VARIABLES
  up,        \* the server runs
  secret,    \* authCfg.token
  failures,  \* failures of this address inside the window
  crowded,   \* history: since there was none, one came from elsewhere than
             \* the reconnects, or the network lost a refusal
  token,     \* the client's token
  status,    \* AuthStatus
  probe,     \* the answer #probe is about to be given
  sock,      \* the chains
  current,   \* #ws, a chain, or 0
  stopped,
  retries    \* up to 3, more make no difference

vars == <<up, secret, failures, crowded, token, status, probe, sock, current, stopped, retries>>

server == <<up, secret, failures, crowded>>
login == <<token, status, probe>>
socket == <<sock, current, stopped, retries>>

Chain == 1..MaxChains
Answer == {"ok", "limited", "rejected", "disabled", "unreachable"}
Waiting == {"accepted", "refused", "timer"} \cup Answer

Init ==
  /\ up = TRUE
  /\ secret \in Token
  /\ failures = 0
  /\ crowded = FALSE
  /\ token \in Token \cup {NoToken}
  /\ status = "checking"
  /\ probe = "none"
  /\ sock = [c \in Chain |-> "free"]
  /\ current = 0
  /\ stopped = FALSE
  /\ retries = 0

(***************************************************************************)
(* The server.                                                             *)
(***************************************************************************)
\* checkAuth of a remote request.
Accepts(t) == secret # NoToken /\ t = secret

\* The failures of the window, and what the history says of them.
Counts(n, crowd) ==
  /\ failures' = n
  /\ crowded' = (crowd /\ n > 0)

\* The answer to a request that carries t: a valid token always passes and
\* clears the failures; a wrong one is counted unless the address is blocked;
\* a missing one is not counted.  The request is a reconnect's own, or not.
Gate(t, answer, own) ==
  \/ /\ ~up
     /\ answer = "unreachable"
     /\ Counts(failures, crowded)
  \/ /\ up
     /\ Accepts(t)
     /\ answer = "ok"
     /\ Counts(0, FALSE)
  \/ /\ up
     /\ ~Accepts(t)
     /\ failures >= MaxFailures
     /\ answer = "limited"
     /\ Counts(failures, crowded)
  \/ /\ up
     /\ ~Accepts(t)
     /\ failures < MaxFailures
     /\ answer = IF secret = NoToken THEN "disabled" ELSE "rejected"
     /\ IF secret # NoToken /\ t # NoToken
        THEN Counts(failures + 1, crowded \/ ~own)
        ELSE Counts(failures, crowded)

Cut(c) == CASE sock[c] \in {"open", "accepted"} -> "refused"
            [] sock[c] \in Answer -> "unreachable"
            [] OTHER -> sock[c]

ServerDown ==
  /\ up
  /\ up' = FALSE
  /\ sock' = [c \in Chain |-> Cut(c)]
  /\ UNCHANGED <<secret, failures, crowded, login, current, stopped, retries>>

\* The limiter lives in memory; the token may have been rotated or removed.
ServerUp ==
  /\ ~up
  /\ up' = TRUE
  /\ secret' \in Token \cup {NoToken}
  /\ Counts(0, FALSE)
  /\ UNCHANGED <<login, socket>>

\* The oldest failure leaves the window: each is dropped at its own age.
FailuresExpire ==
  /\ failures > 0
  /\ Counts(failures - 1, crowded)
  /\ UNCHANGED <<up, secret, login, socket>>

\* A wrong token of somebody else behind the same address.
OtherFails ==
  /\ up
  /\ failures < MaxFailures
  /\ Counts(failures + 1, TRUE)
  /\ UNCHANGED <<up, secret, login, socket>>

NetworkFails ==
  \E c \in Chain :
    /\ sock[c] \in {"open", "accepted"} \cup (Answer \ {"unreachable"})
    /\ sock' = [sock EXCEPT ![c] = Cut(c)]
    /\ Counts(failures, crowded \/ sock[c] = "rejected")
    /\ UNCHANGED <<up, secret, login, current, stopped, retries>>

(***************************************************************************)
(* The socket.                                                             *)
(***************************************************************************)
\* #open: the upgrade is answered before the client hears of it.
Upgrade(chains, c, answer) ==
  /\ Gate(token, answer, TRUE)
  /\ sock' = [chains EXCEPT ![c] = IF answer = "ok" THEN "accepted" ELSE "refused"]
  /\ current' = c

\* As Connect below, a stop is forever.
ConnectStaysStopped(chains) ==
  \/ /\ current # 0 /\ ~stopped
     /\ sock' = chains
     /\ UNCHANGED <<current, stopped, retries, failures, crowded>>
  \/ /\ current = 0 \/ stopped
     /\ stopped' = stopped
     /\ retries' = 0
     /\ \E c \in Chain, answer \in Answer : chains[c] = "free" /\ Upgrade(chains, c, answer)

\* The effect on status: connect(), which leaves a live socket alone.  The
\* chains are as in chains when it runs.
Connect(chains) ==
  \/ /\ current # 0 /\ ~stopped
     /\ sock' = chains
     /\ UNCHANGED <<current, stopped, retries, failures, crowded>>
  \/ /\ current = 0 \/ stopped
     /\ stopped' = FALSE
     /\ retries' = 0
     /\ \E c \in Chain, answer \in Answer : chains[c] = "free" /\ Upgrade(chains, c, answer)

\* The status becomes s; the effect runs when it has become "authed".
Becomes(s, chains) ==
  /\ status' = s
  /\ \/ /\ s = "authed" /\ status # "authed"
        /\ Connect(chains)
     \/ /\ s # "authed" \/ status = "authed"
        /\ sock' = chains
        /\ UNCHANGED <<current, stopped, retries, failures, crowded>>

OnOpen(c) ==
  /\ sock[c] = "accepted"
  /\ sock' = [sock EXCEPT ![c] = "open"]
  /\ retries' = 0
  /\ UNCHANGED <<server, login, current, stopped>>

\* onclose: reconnect, or after three failures ask whether the token is stale.
OnClose(c) ==
  /\ sock[c] = "refused"
  /\ current' = 0
  /\ \/ /\ stopped
        /\ sock' = [sock EXCEPT ![c] = "free"]
        /\ UNCHANGED <<retries, failures, crowded>>
     \/ /\ ~stopped
        /\ retries < 2
        /\ retries' = retries + 1
        /\ sock' = [sock EXCEPT ![c] = "timer"]
        /\ UNCHANGED <<failures, crowded>>
     \/ /\ ~stopped
        /\ retries >= 2
        /\ retries' = 3
        /\ \E answer \in Answer :
             Gate(token, answer, TRUE) /\ sock' = [sock EXCEPT ![c] = answer]
  /\ UNCHANGED <<up, secret, login, stopped>>

\* recheck() and what onclose does with its verdict.  The effect of a status
\* that becomes "authed" runs before onclose goes on: it clears a stop.
RecheckAnswered(c) ==
  /\ UNCHANGED <<up, secret, token, probe>>
  /\ \/ /\ sock[c] \in {"limited", "unreachable"}
        /\ sock' = [sock EXCEPT ![c] = IF stopped THEN "free" ELSE "timer"]
        /\ UNCHANGED <<failures, crowded, status, current, stopped, retries>>
     \/ /\ sock[c] \in {"rejected", "disabled"}
        /\ sock' = [sock EXCEPT ![c] = "free"]
        /\ stopped' = TRUE
        /\ status' = IF sock[c] = "disabled" THEN "disabledRemote" ELSE "needsToken"
        /\ UNCHANGED <<failures, crowded, current, retries>>
     \/ /\ sock[c] = "ok"
        /\ Becomes("authed", [sock EXCEPT ![c] = "timer"])

\* As TimerFires below, the count of failures starts again at every attempt.
TimerForgets(c) ==
  /\ sock[c] = "timer"
  /\ UNCHANGED <<up, secret, login, stopped>>
  /\ \/ /\ ~stopped /\ status = "authed"
        /\ \E answer \in Answer : Upgrade(sock, c, answer)
        /\ retries' = 0
     \/ /\ stopped \/ status # "authed"
        /\ sock' = [sock EXCEPT ![c] = "free"]
        /\ UNCHANGED <<failures, crowded, current, retries>>

\* #schedule
TimerFires(c) ==
  /\ sock[c] = "timer"
  /\ UNCHANGED <<up, secret, login, stopped, retries>>
  /\ \/ /\ ~stopped /\ status = "authed"
        /\ \E answer \in Answer : Upgrade(sock, c, answer)
     \/ /\ stopped \/ status # "authed"
        /\ sock' = [sock EXCEPT ![c] = "free"]
        /\ UNCHANGED <<failures, crowded, current>>

(***************************************************************************)
(* The login gate.                                                         *)
(***************************************************************************)
Ask(t) == \E answer \in Answer : Gate(t, answer, FALSE) /\ probe' = answer

\* The mount of the app and, from a gate, its retry button: init().
AskAgain ==
  /\ probe = "none"
  /\ status \in {"checking", "disabledRemote", "error"}
  /\ status' = "checking"
  /\ Ask(token)
  /\ UNCHANGED <<up, secret, token, socket>>

\* submit() from the form.
Submit ==
  /\ probe = "none"
  /\ status = "needsToken"
  /\ status' = "checking"
  /\ \E t \in Token : token' = t /\ Ask(t)
  /\ UNCHANGED <<up, secret, socket>>

\* The bound on chains: a client leaves "authed" while there is one to spare
\* for its next login.
Spare == \E c \in Chain : sock[c] = "free"

ProbeAnswered ==
  /\ probe # "none"
  /\ status # "authed" \/ Spare
  /\ probe' = "none"
  /\ Becomes(CASE probe = "ok" -> "authed"
                [] probe = "rejected" -> "needsToken"
                [] probe = "disabled" -> "disabledRemote"
                [] OTHER -> "error", sock)
  /\ UNCHANGED <<up, secret, token>>

\* signOut: the socket stays as it is.
SignOut ==
  /\ Spare
  /\ status = "authed"
  /\ token # NoToken
  /\ token' = NoToken
  /\ status' = "needsToken"
  /\ UNCHANGED <<server, probe, socket>>

\* A REST call is answered 401: invalidate().
Refused ==
  /\ Spare
  /\ status = "authed"
  /\ \E answer \in {"rejected", "disabled"} : Gate(token, answer, FALSE)
  /\ status' = "needsToken"
  /\ UNCHANGED <<up, secret, token, probe, socket>>

Next ==
  \/ ServerDown
  \/ ServerUp
  \/ FailuresExpire
  \/ OtherFails
  \/ NetworkFails
  \/ \E c \in Chain : OnOpen(c) \/ OnClose(c) \/ RecheckAnswered(c) \/ TimerFires(c)
  \/ AskAgain
  \/ Submit
  \/ ProbeAnswered
  \/ SignOut
  \/ Refused

Spec == Init /\ [][Next]_vars

\* Events of a socket, answers, timers and the window's time come; nobody is
\* obliged to log in, and the network need not fail.
FairSpec ==
  /\ Spec
  /\ \A c \in Chain : WF_vars(OnOpen(c) \/ OnClose(c) \/ RecheckAnswered(c) \/ TimerFires(c))
  /\ WF_vars(ProbeAnswered)
  /\ WF_vars(FailuresExpire)

-----------------------------------------------------------------------------
TypeOK ==
  /\ up \in BOOLEAN
  /\ secret \in Token \cup {NoToken}
  /\ failures \in 0..MaxFailures
  /\ crowded \in BOOLEAN
  /\ token \in Token \cup {NoToken}
  /\ status \in {"checking", "authed", "needsToken", "disabledRemote", "error"}
  /\ probe \in Answer \cup {"none"}
  /\ sock \in [Chain -> {"free", "open"} \cup Waiting]
  /\ current \in {0} \cup Chain
  /\ stopped \in BOOLEAN
  /\ retries \in 0..3

\* A logged-in client whose token the server accepts comes back to a live
\* socket, unless the network fails for ever: no stop and no second socket
\* left from an earlier login keeps it away (connect, onclose, the re-check).
RightTokenConnects ==
  <>[](up /\ Accepts(token) /\ status = "authed")
    => \/ []<>(current # 0 /\ sock[current] = "open")
       \/ []<><<NetworkFails>>_vars

\* A client whose token was rotated or revoked stops asking, although its
\* own attempts may block its address and hide the refusal from the re-check.
\* Excepted: others fail from the address, or the network loses the answers,
\* for ever, or (as StaleTokenStops shows) others once helped to fill the
\* window and the client has kept it from emptying since.
StaleTokenGivesUp ==
  <>[](up /\ ~Accepts(token))
    => \/ <>[](\A c \in Chain : sock[c] \in {"free", "open"})
       \/ <>[]crowded
       \/ []<><<OtherFails \/ NetworkFails>>_vars

(***************************************************************************)
(* What a comment says and the code does not do.                           *)
(***************************************************************************)

\* The probe after three failures stops a stale token from hammering the
\* guard.  Fails: when the window is full of failures that others spaced, the
\* reconnect takes each place that one leaves, so the re-check an instant
\* later is limited, which reads as unreachable, and the loop goes on although
\* nobody else has failed since.
StaleTokenStops ==
  <>[](up /\ ~Accepts(token))
    => \/ <>[](\A c \in Chain : sock[c] \in {"free", "open"})
       \/ []<><<OtherFails \/ NetworkFails>>_vars
=============================================================================
