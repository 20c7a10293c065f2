------------------------------ MODULE Session ------------------------------
(***************************************************************************)
(* The session table (src/services/session.c) and how its identifiers are   *)
(* generated: a random word, mixed with a salt that counts up until the     *)
(* candidate differs from those of the open sessions.  Server takes from    *)
(* here that a new session gets an id no open session has.                  *)
(*                                                                         *)
(* Words have Width bits instead of 32, and the constants of the code are   *)
(* cut to them: xor, + and * of the low bits do not depend on the others.   *)
(***************************************************************************)
EXTENDS Integers, Bitwise, FiniteSetsExt

CONSTANTS
    NSessions,  \* MU_MAX_SESSIONS
    Width,      \* bits of an identifier (32)
    Draws       \* the words that the entropy adapter returns in this instance

Words == 0 .. 2 ^ Width - 1

ASSUME SessionAssumption ==
    NSessions \in Nat \ {0} /\ Width \in 1 .. 16 /\ Draws \subseteq Words

Slots == 1 .. NSessions

VARIABLE sessions   \* sessions[]

\* mu_session_init
ClosedSession == [state |-> "closed", id |-> 0, token |-> 0]

Init == sessions = [k \in Slots |-> ClosedSession]

Open(k) == sessions[k].state # "closed"

-----------------------------------------------------------------------------
(* Generating identifiers. *)

Low(n) == n % 2 ^ Width

\* The low halves of 0x9E3779B9, 0x85EBCA6B, 0xA5A5A5A5 and 0xC2B2AE35.
Golden == 31161

IdForZero == 51819

TokenMask == 42405

TokenForZero == 44597

\* Mutant: the salt is left out, every try is the first one again.
SessionIdCandidateUnsalted(base, salt) == IF base = 0 THEN Low(IdForZero) ELSE base

SessionIdCandidate(base, salt) ==
    LET mixed == base ^^ Low(Golden * salt)
    IN  IF mixed = 0 THEN Low(IdForZero ^^ salt) ELSE mixed

\* Mutant: zero is a token like any other.
TokenCandidateZero(base, salt) == Low((base ^^ Low(TokenMask)) + Golden * salt)

TokenCandidate(base, salt) ==
    LET mixed == Low((base ^^ Low(TokenMask)) + Golden * salt)
    IN  IF mixed = 0 THEN Low(TokenForZero ^^ salt) ELSE mixed

\* Mutant: a session that is not activated yet does not count.
SessionIdActiveActivated(id) == \E k \in Slots : sessions[k].state = "activated" /\ sessions[k].id = id

SessionIdActive(id) == \E k \in Slots : Open(k) /\ sessions[k].id = id

TokenActive(token) == \E k \in Slots : Open(k) /\ sessions[k].token = token

Salts == 0 .. NSessions

\* The salts at which the loop of mu_session_generate_session_id would stop.
IdSalts(base) == {salt \in Salts : ~SessionIdActive(SessionIdCandidate(base, salt))}

TokenSalts(base) == {salt \in Salts : ~TokenActive(TokenCandidate(base, salt))}

-----------------------------------------------------------------------------
(* The services. *)

\* The first free slot; the loops stop at their first salt, or the request is refused.
CreateSession(k, idDraw, tokenDraw) ==
    /\ ~Open(k) /\ \A j \in Slots : j < k => Open(j)
    /\ IdSalts(idDraw) # {} /\ TokenSalts(tokenDraw) # {}
    /\ sessions' = [sessions EXCEPT ![k] =
          [state |-> "created",
           id    |-> SessionIdCandidate(idDraw, Min(IdSalts(idDraw))),
           token |-> TokenCandidate(tokenDraw, Min(TokenSalts(tokenDraw)))]]

\* mu_session_find_by_token returns slot k.
FindByToken(token, k) ==
    /\ Open(k) /\ sessions[k].token = token
    /\ \A j \in Slots : j < k => ~(Open(j) /\ sessions[j].token = token)

ActivateSession(token, k) ==
    /\ FindByToken(token, k)
    /\ sessions' = [sessions EXCEPT ![k].state = "activated"]

\* mu_service_dispatch lets a request with a session pass; a null token names none.
ActiveSession(token, k) ==
    token # 0 /\ FindByToken(token, k) /\ sessions[k].state = "activated"

CloseSession(token, k) ==
    /\ ActiveSession(token, k)
    /\ sessions' = [sessions EXCEPT ![k] = ClosedSession]

Next ==
    \E k \in Slots :
        \/ \E idDraw, tokenDraw \in Draws : CreateSession(k, idDraw, tokenDraw)
        \/ \E token \in Words : ActivateSession(token, k) \/ CloseSession(token, k)

Spec == Init /\ [][Next]_sessions

-----------------------------------------------------------------------------
(* Properties. *)

\* An id names one open session, and never the closed ones, whose id is 0: publish_due and
\* the subscription services, which know a session by its id, find the right one.
SessionsDistinct ==
    \A k \in Slots : Open(k) =>
        /\ sessions[k].id # 0
        /\ \A j \in Slots : j # k => sessions[j].id # sessions[k].id

\* The token that CreateSession returned leads to the session it was returned for as long
\* as that is open, so that its client can activate, use and close it, whichever other
\* sessions came and went (mu_session_find_by_token, mu_service_dispatch).
TokenLeadsToSession ==
    \A k \in Slots : Open(k) => sessions[k].token # 0 /\ FindByToken(sessions[k].token, k)

\* While a slot is free, no random word makes CreateSession fail for want of an identifier:
\* the loops try one salt more than there are slots, enough even when the replacement of
\* a zero candidate repeats another one.
IdentifierAlwaysFound ==
    (\E k \in Slots : ~Open(k)) =>
        \A base \in Words : IdSalts(base) # {} /\ TokenSalts(base) # {}
=============================================================================
