----------------------------- MODULE CallerAuth -----------------------------
(***************************************************************************)
(* The check of a caller's service-account token (auth.rs, auth/token.rs,  *)
(* auth/layer.rs): a cache of rejected tokens, a cache of reviewed ones    *)
(* whose misses are coalesced into one TokenReview, and the allowlist,     *)
(* which is looked at on every call.                                       *)
(***************************************************************************)
EXTENDS Naturals

CONSTANTS
  Call, Token,
  Identity,   \* [Token -> the identity a token is of, or None when it is not a service account]
  Audience,   \* [Token -> the audiences a token is for]
  audiences,  \* the server's own; empty asks for none
  Allowlist,  \* the identities that may call
  Ttl,        \* cache_ttl_secs, in ticks
  MaxTime,    \* bound: the clock
  MaxErrors,  \* bound: reviews the API server does not answer
  None

VARIABLES
  valid,     \* the tokens the API server accepts
  positive, negative,  \* the time each token was cached, or None
  call,      \* what each call has come to
  review,    \* the call whose review of a token is under way
  answer, refused,  \* history: when a review last accepted, or rejected, each token
  now, errors

vars == <<valid, positive, negative, call, review, answer, refused, now, errors>>

Init ==
  /\ valid \in SUBSET Token
  /\ positive = [t \in Token |-> None] /\ negative = [t \in Token |-> None]
  /\ call = [c \in Call |-> [pc |-> "idle", token |-> None]]
  /\ review = [t \in Token |-> None]
  /\ answer = [t \in Token |-> None] /\ refused = [t \in Token |-> None]
  /\ now = 0 /\ errors = 0

\* time_to_live counts from the insertion.
Live(cache, t) == cache[t] # None /\ now < cache[t] + Ttl

To(c, pc, t) == call' = [call EXCEPT ![c] = [pc |-> pc, token |-> t]]

\* The allowlist is looked at whether the identity is cached or new.
Verdict(t) == IF Identity[t] \in Allowlist THEN "admitted" ELSE "denied"

\* extract_bearer finds no token.
NoToken(c) ==
  /\ call[c].pc = "idle"
  /\ To(c, "unauthenticated", None)
  /\ UNCHANGED <<valid, positive, negative, review, answer, refused, now, errors>>

\* verify, up to the token cache.
verify(c, t) ==
  /\ call[c].pc = "idle"
  /\ IF Live(negative, t) THEN To(c, "unauthenticated", t) ELSE To(c, "lookup", t)
  /\ UNCHANGED <<valid, positive, negative, review, answer, refused, now, errors>>

\* MUTANT of try_get_with: an expired entry still answers.
try_get_with_forever(c) ==
  LET t == call[c].token
  IN /\ call[c].pc = "lookup"
     /\ IF positive[t] # None THEN To(c, Verdict(t), t) /\ UNCHANGED review
        ELSE /\ review[t] = None
             /\ review' = [review EXCEPT ![t] = c] /\ To(c, "review", t)
     /\ UNCHANGED <<valid, positive, negative, answer, refused, now, errors>>

\* A hit answers; the first miss reviews the token, and others of the same token wait for it.
try_get_with(c) ==
  LET t == call[c].token
  IN /\ call[c].pc = "lookup"
     /\ IF Live(positive, t) THEN To(c, Verdict(t), t) /\ UNCHANGED review
        ELSE /\ review[t] = None
             /\ review' = [review EXCEPT ![t] = c] /\ To(c, "review", t)
     /\ UNCHANGED <<valid, positive, negative, answer, refused, now, errors>>

\* review_token: authenticated, for one of our audiences, and a service account.
Accepts(t) ==
  /\ t \in valid
  /\ audiences = {} \/ audiences \cap Audience[t] # {}
  /\ Identity[t] # None

Waiting(t) == {c \in Call : call[c].token = t /\ call[c].pc = "lookup"}

\* The waiters get the reviewer's result.
Answered(c, t, pc) ==
  /\ call' = [d \in Call |-> IF d = c \/ d \in Waiting(t) THEN [pc |-> pc, token |-> t] ELSE call[d]]
  /\ review' = [review EXCEPT ![t] = None]

ReviewAccepted(c) ==
  LET t == call[c].token
  IN /\ call[c].pc = "review" /\ Accepts(t)
     /\ positive' = [positive EXCEPT ![t] = now]
     /\ answer' = [answer EXCEPT ![t] = now]
     /\ Answered(c, t, Verdict(t))
     /\ UNCHANGED <<valid, negative, refused, now, errors>>

\* Only a rejection of the token itself is remembered, by everyone who is told of it.
ReviewRejected(c) ==
  LET t == call[c].token
  IN /\ call[c].pc = "review" /\ ~Accepts(t)
     /\ refused' = [refused EXCEPT ![t] = now]
     /\ Answered(c, t, "rejected")
     /\ UNCHANGED <<valid, positive, negative, answer, now, errors>>
Remember(c) ==
  LET t == call[c].token
  IN /\ call[c].pc = "rejected"
     /\ negative' = [negative EXCEPT ![t] = now]
     /\ To(c, "unauthenticated", t)
     /\ UNCHANGED <<valid, positive, review, answer, refused, now, errors>>

\* MUTANT of ReviewError: an unanswered review is remembered as a rejection.
ReviewErrorCached(c) ==
  LET t == call[c].token
  IN /\ call[c].pc = "review" /\ errors < MaxErrors
     /\ errors' = errors + 1
     /\ negative' = [negative EXCEPT ![t] = now]
     /\ Answered(c, t, "unavailable")
     /\ UNCHANGED <<valid, positive, answer, refused, now>>

ReviewError(c) ==
  LET t == call[c].token
  IN /\ call[c].pc = "review" /\ errors < MaxErrors
     /\ errors' = errors + 1
     /\ Answered(c, t, "unavailable")
     /\ UNCHANGED <<valid, positive, negative, answer, refused, now>>

\* The client goes away; a waiter takes the review over.
Cancel(c) ==
  /\ call[c].pc \in {"lookup", "review", "rejected"}
  /\ To(c, "cancelled", call[c].token)
  /\ review' = IF call[c].pc = "review" THEN [review EXCEPT ![call[c].token] = None] ELSE review
  /\ UNCHANGED <<valid, positive, negative, answer, refused, now, errors>>

\* A finished call makes room for the next.
Leave(c) ==
  /\ call[c].pc \in {"admitted", "denied", "unauthenticated", "unavailable", "cancelled"}
  /\ To(c, "idle", None)
  /\ UNCHANGED <<valid, positive, negative, review, answer, refused, now, errors>>

\* Environment: a token is revoked or comes to be accepted; the clock, a tick of which is
\* longer than a rejection takes to be remembered.
Flip(t) ==
  /\ valid' = IF t \in valid THEN valid \ {t} ELSE valid \cup {t}
  /\ UNCHANGED <<positive, negative, call, review, answer, refused, now, errors>>
Tick ==
  /\ now < MaxTime /\ now' = now + 1
  /\ \A c \in Call : call[c].pc # "rejected"
  /\ call' = [c \in Call |-> IF call[c].pc \in {"lookup", "review"} THEN call[c]
                             ELSE [pc |-> "idle", token |-> None]]
  /\ UNCHANGED <<valid, positive, negative, review, answer, refused, errors>>

Next ==
  \/ \E c \in Call : \/ NoToken(c) \/ try_get_with(c) \/ ReviewAccepted(c) \/ ReviewRejected(c)
                     \/ ReviewError(c) \/ Remember(c) \/ Cancel(c) \/ Leave(c)
  \/ \E c \in Call, t \in Token : verify(c, t)
  \/ \E t \in Token : Flip(t)
  \/ Tick

Spec == Init /\ [][Next]_vars

\* What the constants are: a cached answer lives for some time.
WellFormed == Ttl \in Nat \ {0} /\ None \notin Nat /\ None \notin Call

-----------------------------------------------------------------------------

\* A call goes in only with a token the API server vouched for within the last Ttl, of an
\* identity on the allowlist and for one of the server's audiences, however its cache entry
\* came about; a token has one review under way at a time; and a token is turned away unseen
\* only after a review rejected it, never because the API server did not answer.
AdmittedIsVouched ==
  /\ \A c \in Call : call[c].pc = "admitted" =>
       LET t == call[c].token
       IN /\ answer[t] # None /\ now < answer[t] + Ttl
          /\ Identity[t] \in Allowlist
          /\ audiences = {} \/ audiences \cap Audience[t] # {}
  /\ \A c, d \in Call : call[c].pc = "review" /\ call[d].pc = "review" /\ c # d =>
       call[c].token # call[d].token
  /\ \A t \in Token : Live(negative, t) => refused[t] # None /\ now < refused[t] + Ttl
=============================================================================
