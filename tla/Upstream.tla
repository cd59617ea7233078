------------------------------ MODULE Upstream ------------------------------
(***************************************************************************)
(* What a call to an outside service comes to: Fetcher.get of              *)
(* collector/http.py tries again, the clients of datago, kakao and SGIS    *)
(* read the last answer, and SGIS needs a token that may end at any time.  *)
(* What the collectors do next depends on it: "empty" and "refused" are    *)
(* answers (a year without boundaries sends the boundaries to an older     *)
(* year), "failed", "unanswered" and "stop" are not.                       *)
(***************************************************************************)
EXTENDS Naturals, FiniteSets

CONSTANTS
  Retries,     \* settings.http_retries
  Life,        \* ticks for which a token is good
  Margin,      \* REFRESH_MARGIN_S in ticks
  MaxNow,    \* bound on the clock
  MaxAsks      \* bound on the calls of the collectors

ASSUME UpstreamAssumption ==
  {Retries, Life, Margin, MaxNow, MaxAsks} \subseteq Nat

VARIABLES
  client,    \* "datago", "kakao" or "sgis": the client in hand
  asks,      \* calls of the collectors so far
  step,      \* "idle", "data" or "token": what is being fetched
  tries,     \* attempts of this Fetcher.get
  heard,     \* its last answer
  entries,    \* rows of raw.api_response
  errors,    \* fetcher.errors
  fetches,   \* calls of Fetcher.get
  now,
  token,     \* the client's token, 0 at first
  expires,   \* when the client thinks that it ends
  alive,     \* the tokens that the service takes
  second,    \* attempt = 2 of SgisClient.get
  fresh,     \* tokens issued within this get
  result     \* what the collector is told

upVars == <<client, asks, step, tries, heard, entries, errors, fetches, now, token, expires, alive, second, fresh, result>>
sgisTokenVars == <<token, expires, alive, second, fresh>>

\* An answer: no HTTP answer, HTTP 429, 5xx, 401 or 403, another 4xx; and with
\* HTTP 200 rows, the code for no rows, a code that tells to stop, a code of an
\* expired token, another code, a body that cannot be read, or none at all.
Again == {"lost", "429", "5xx"}
NotOk == Again \cup {"40x", "4xx"}
Bodies == {"rows", "none", "over", "expired", "refused", "garbage"}

UpInit ==
  /\ client = "datago" /\ asks = 0 /\ step = "idle" /\ tries = 0 /\ heard = "none" /\ entries = 0 /\ errors = 0
  /\ fetches = 0 /\ now = 0 /\ token = 0 /\ expires = 0 /\ alive = {} /\ second = FALSE /\ fresh = {} /\ result = "none"

Passes ==
  /\ now < MaxNow /\ now' = now + 1
  /\ UNCHANGED <<client, asks, step, tries, heard, entries, errors, fetches, sgisTokenVars, result>>
\* The service forgets a token, at its end or before.
Revoke(t) ==
  /\ alive' = alive \ {t}
  /\ UNCHANGED <<client, asks, step, tries, heard, entries, errors, fetches, now, token, expires, second, fresh, result>>

-----------------------------------------------------------------------------
\* Fetcher.get: the first attempt, and one more after each answer in Again.
Fetch(what) == step' = what /\ tries' = 0 /\ fetches' = fetches + 1 /\ UNCHANGED heard
TokenIsGood == token # 0 /\ now + Margin < expires
NotForced(attempt2) == FALSE
Forced(attempt2) == attempt2
\* SgisClient.token: the one in hand, unless it ends soon or was refused.
NeedsToken(attempt2) == Forced(attempt2) \/ ~TokenIsGood

Calls(cl) ==
  /\ step = "idle" /\ asks < MaxAsks /\ asks' = asks + 1
  /\ client' = cl /\ second' = FALSE /\ fresh' = {} /\ result' = "none"
  /\ Fetch(IF cl = "sgis" /\ NeedsToken(FALSE) THEN "token" ELSE "data")
  /\ UNCHANGED <<entries, errors, now, token, expires, alive>>

Possible ==
  CASE step = "token" -> NotOk \cup {"rows", "refused", "garbage", "blank"}
    [] step = "data" /\ client = "sgis" -> IF token \in alive THEN NotOk \cup {"rows", "refused", "garbage", "blank"} ELSE Again \cup {"expired"}
    [] client = "kakao" -> NotOk \cup {"rows", "garbage"}
    [] OTHER -> NotOk \cup (Bodies \ {"expired"})

Try ==
  /\ step # "idle" /\ (tries = 0 \/ (heard \in Again /\ tries <= Retries))
  /\ tries' = tries + 1 /\ heard' \in Possible
  /\ UNCHANGED <<client, asks, step, entries, errors, fetches, now, sgisTokenVars, result>>
Answered == step # "idle" /\ tries > 0 /\ (heard \notin Again \/ tries > Retries)
Keep ==
  /\ entries' = entries + 1 /\ errors' = IF heard \in NotOk THEN errors + 1 ELSE errors
  /\ UNCHANGED <<client, asks, now>>
Tell(r) == result' = r /\ step' = "idle" /\ UNCHANGED <<tries, heard, fetches>>

\* datago.client.call.
DataGoReads ==
  /\ Answered /\ client = "datago" /\ Keep /\ UNCHANGED sgisTokenVars
  /\ Tell(CASE heard \in {"over", "40x"} -> "stop" [] heard = "none" -> "empty" [] heard = "rows" -> "rows" [] OTHER -> "failed")
\* kakao.client.call: None for whatever is neither rows nor a stop.
KakaoReads ==
  /\ Answered /\ client = "kakao" /\ Keep /\ UNCHANGED sgisTokenVars
  /\ Tell(CASE heard \in {"40x", "429"} -> "stop" [] heard = "rows" -> "rows" [] OTHER -> "failed")

\* SgisClient.token has its answer: the token, SgisHttpError or SgisError.
TokenReads ==
  /\ Answered /\ step = "token" /\ Keep
  /\ IF heard = "rows"
     THEN /\ token' = fetches /\ alive' = alive \cup {fetches} /\ fresh' = fresh \cup {fetches}
          /\ expires' = now + Life /\ Fetch("data") /\ UNCHANGED <<result, second>>
     ELSE /\ Tell(IF heard \in {"refused", "blank"} THEN "refused" ELSE "unanswered")
          /\ UNCHANGED sgisTokenVars
\* SgisClient.get: errCd -401 is answered by a new token, once.
SgisReads ==
  /\ Answered /\ step = "data" /\ client = "sgis" /\ Keep
  /\ IF heard = "expired" /\ ~second
     THEN /\ second' = TRUE /\ Fetch(IF NeedsToken(TRUE) THEN "token" ELSE "data")
          /\ UNCHANGED <<result, token, expires, alive, fresh>>
     ELSE /\ Tell(CASE heard \in {"rows", "blank"} -> "rows" [] heard \in {"refused", "expired"} -> "refused" [] OTHER -> "unanswered")
          /\ UNCHANGED sgisTokenVars

UpNext ==
  \/ Passes \/ Try \/ DataGoReads \/ KakaoReads \/ TokenReads \/ SgisReads
  \/ \E t \in alive : Revoke(t)
  \/ \E cl \in {"datago", "kakao", "sgis"} : Calls(cl)
UpSpec == UpInit /\ [][UpNext]_upVars

-----------------------------------------------------------------------------
\* A service that did not answer is never taken for one that said no: SGIS is
\* told "refused" only by a code of the service, and by the code of an expired
\* token only if it refused a token it had issued within the same get; nothing
\* is "empty" or "rows" that the service did not say; every fetch leaves one row
\* in raw.api_response and makes at most 1 + Retries attempts (http.py:61,
\* sgis/client.py:33-34, 60-61, 75).  A body of no bytes is excepted: SGIS's client
\* reads it as {}, which is "rows" without rows, or a token refused.
SaidIsAnswered ==
  /\ tries <= 1 + Retries /\ entries <= fetches /\ fetches <= entries + 1 /\ errors <= entries
  /\ step = "idle" /\ heard # "blank" =>
       /\ result = "rows" => heard = "rows"
       /\ result = "empty" => heard = "none"
       /\ result = "refused" => heard = "refused" \/ (heard = "expired" /\ token \in fresh)
       /\ result \in {"failed", "unanswered"} => heard \notin {"rows", "none", "refused", "over"} \/ (client = "datago" /\ heard = "refused")
=============================================================================
