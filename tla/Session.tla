-------------------------------- MODULE Session --------------------------------
(***************************************************************************)
(* The front door: server/auth.ts - the session cookie, the guard, the     *)
(* limiter of failed sign-ins - and src/hooks/useSession.ts, the state of  *)
(* a tab.  The tabs are one browser's: they share its cookie, and its      *)
(* address, which is the limiter's key.                                    *)
(*                                                                         *)
(* A valid cookie is the time it expires; a foreign one is none.  Handlers *)
(* run to their next await: the one of POST waits for the body between the *)
(* limiter's gate and the comparison.                                      *)
(***************************************************************************)
EXTENDS Naturals, FiniteSets, Sequences

CONSTANTS
    Tab,
    MaxAttempts,     \* MAX_ATTEMPTS
    Lockout,         \* LOCKOUT_MS
    SessionTtl,
    MaxTime          \* bound: the clock

ASSUME SessionConstants ==
    /\ MaxAttempts \in Nat \ {0} /\ Lockout \in Nat \ {0} /\ SessionTtl \in Nat \ {0}
    /\ MaxTime \in Nat /\ IsFiniteSet(Tab)

VARIABLES
    minute,           \* the time
    cookie,          \* expiry of the browser's cookie, 0 without
    entry,           \* the limiter's: count is 0 without
    screen,          \* Tab -> "unknown", "locked" or "open"
    asks,            \* Tab -> its requests: GET, POST or DELETE of the session, and one of /app/*
    wrong            \* times of the wrong passwords since the last right one

sessionVars == <<minute, cookie, entry, screen, asks, wrong>>

NoEntry == [count |-> 0, until |-> 0]

Verified(token) == token > minute

SessionInit ==
    /\ minute = 0 /\ cookie = 0 /\ entry = NoEntry
    /\ screen = [t \in Tab |-> "unknown"]
    /\ asks = [t \in Tab |-> {[of |-> "get", got |-> "nothing"]}]
    /\ wrong = <<>>

Awaits(t, of) == \E a \in asks[t] : a.of = of
Sends(t, of) == asks' = [asks EXCEPT ![t] = @ \cup {[of |-> of, got |-> "nothing"]}]
Gets(t, a, got) == asks' = [asks EXCEPT ![t] = (@ \ {a}) \cup {[a EXCEPT !.got = got]}]
Read(t, a) == asks' = [asks EXCEPT ![t] = @ \ {a}]

-----------------------------------------------------------------------------
(* The server. *)

\* GET /app/session.
AnswerGet(t, a) ==
    /\ a \in asks[t] /\ a.of = "get" /\ a.got = "nothing"
    /\ Gets(t, a, IF Verified(cookie) THEN "in" ELSE "out")
    /\ UNCHANGED <<minute, cookie, entry, screen, wrong>>

\* The guard of every other route: what it lets through is of no interest here.
Guard(t, a) ==
    /\ a \in asks[t] /\ a.of = "app" /\ a.got = "nothing"
    /\ IF Verified(cookie) THEN Read(t, a) ELSE Gets(t, a, "out")
    /\ UNCHANGED <<minute, cookie, entry, screen, wrong>>

\* Mutant of Gate: the window is not looked at.
GateForever(e) == e.count >= MaxAttempts

\* retryAfter: the door is shut.
Gate(e) == e.until > minute /\ e.count >= MaxAttempts

\* POST, up to the await of its body.  An entry whose time is over is forgotten.  To the
\* form, being told to come back later is a refusal like another.
PostArrives(t, a) ==
    /\ a \in asks[t] /\ a.of = "post" /\ a.got = "nothing"
    /\ Gets(t, a, IF Gate(entry) THEN "out" ELSE "body")
    /\ entry' = IF entry.until <= minute THEN NoEntry ELSE entry
    /\ UNCHANGED <<minute, cookie, screen, wrong>>

\* fail: the window slides.
Failed ==
    [count |-> IF entry.count > 0 /\ entry.until > minute THEN entry.count + 1 ELSE 1,
     until |-> minute + Lockout]

\* The body is there, and is the password or is not.
PostCompared(t, a, right) ==
    /\ a \in asks[t] /\ a.of = "post" /\ a.got = "body"
    /\ IF right
       THEN entry' = NoEntry /\ cookie' = minute + SessionTtl /\ wrong' = <<>>
       ELSE entry' = Failed /\ wrong' = Append(wrong, minute) /\ UNCHANGED cookie
    /\ Gets(t, a, IF right THEN "in" ELSE "out")
    /\ UNCHANGED <<minute, screen>>

AnswerDelete(t, a) ==
    /\ a \in asks[t] /\ a.of = "delete" /\ a.got = "nothing"
    /\ cookie' = 0
    /\ Read(t, a)
    /\ UNCHANGED <<minute, entry, screen, wrong>>

\* The connection breaks, before the request is there or after it: no sign-in, or none
\* that the form hears of.
Breaks(t, a) ==
    /\ a \in asks[t] /\ a.of # "app" /\ a.got # "broken"
    /\ Gets(t, a, IF a.of = "post" THEN "out" ELSE "broken")
    /\ UNCHANGED <<minute, cookie, entry, screen, wrong>>

-----------------------------------------------------------------------------
(* The tab. *)

\* The first question: a failure that says nothing of a session lets the tab through.
FirstAnswer(t, a) ==
    /\ a \in asks[t] /\ a.of = "get" /\ a.got \in {"in", "out", "broken"}
    /\ screen' = [screen EXCEPT ![t] = IF a.got = "out" THEN "locked" ELSE "open"]
    /\ Read(t, a)
    /\ UNCHANGED <<minute, cookie, entry, wrong>>

\* signIn, from the form, which waits for the answer.
SignIn(t) ==
    /\ screen[t] = "locked" /\ ~Awaits(t, "post")
    /\ Sends(t, "post")
    /\ UNCHANGED <<minute, cookie, entry, screen, wrong>>

\* Its answer: a wrong password is a 401 too, and a broken one leaves the form.
SignedIn(t, a) ==
    /\ a \in asks[t] /\ a.of = "post" /\ a.got \in {"in", "out"}
    /\ screen' = [screen EXCEPT ![t] = IF a.got = "in" THEN "open" ELSE @]
    /\ Read(t, a)
    /\ UNCHANGED <<minute, cookie, entry, wrong>>

\* Anything the dashboard asks for.
AskApp(t) ==
    /\ screen[t] = "open" /\ ~Awaits(t, "app")
    /\ Sends(t, "app")
    /\ UNCHANGED <<minute, cookie, entry, screen, wrong>>

\* SESSION_LOST: any 401 locks, the one of a request of before the sign-in included.
LockedOut(t, a) ==
    /\ a \in asks[t] /\ a.of = "app" /\ a.got = "out"
    /\ screen' = [screen EXCEPT ![t] = "locked"]
    /\ Read(t, a)
    /\ UNCHANGED <<minute, cookie, entry, wrong>>

\* signOut: the tab locks first, and the cookie goes when the DELETE is there.
SignOut(t) ==
    /\ screen[t] = "open" /\ ~Awaits(t, "delete")
    /\ screen' = [screen EXCEPT ![t] = "locked"]
    /\ Sends(t, "delete")
    /\ UNCHANGED <<minute, cookie, entry, wrong>>

\* signOut's answer does not matter.
SignedOut(t, a) ==
    /\ a \in asks[t] /\ a.of = "delete" /\ a.got = "broken"
    /\ Read(t, a)
    /\ UNCHANGED <<minute, cookie, entry, screen, wrong>>

MinutePasses ==
    /\ minute < MaxTime
    /\ minute' = minute + 1
    /\ UNCHANGED <<cookie, entry, screen, asks, wrong>>

OfTab(t) ==
    \/ \E a \in asks[t] : AnswerGet(t, a) \/ Guard(t, a) \/ PostArrives(t, a) \/ AnswerDelete(t, a)
    \/ \E a \in asks[t], right \in BOOLEAN : PostCompared(t, a, right)
    \/ \E a \in asks[t] : Breaks(t, a)
    \/ \E a \in asks[t] : FirstAnswer(t, a) \/ SignedIn(t, a) \/ LockedOut(t, a) \/ SignedOut(t, a)
    \/ SignIn(t) \/ AskApp(t) \/ SignOut(t)

SessionNext == MinutePasses \/ \E t \in Tab : OfTab(t)

SessionSpec == SessionInit /\ [][SessionNext]_sessionVars

-----------------------------------------------------------------------------
(* Requirements. *)

\* "The door shuts for five minutes after ten of them", however far apart they were
\* less than that: no more wrong passwords are compared in a row than that and those
\* already past the gate; and it is shut only so long after the last of them.
DoorShuts ==
    /\ \A i \in 1 .. Len(wrong) :
         LET row == i + MaxAttempts + Cardinality(Tab) - 1 IN
         row <= Len(wrong) => \E k \in i .. row - 1 : wrong[k + 1] - wrong[k] >= Lockout
    /\ Gate(entry) => /\ Len(wrong) >= MaxAttempts
                      /\ minute < wrong[Len(wrong)] + Lockout
=============================================================================
