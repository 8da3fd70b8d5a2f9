------------------------------ MODULE Session ------------------------------
(***************************************************************************)
(* Signing in and staying signed in: the tabs of one browser, which share  *)
(* the token in local storage and keep a token and a profile of their own, *)
(* and the server that signs tokens, checks them and answers.              *)
(*                                                                         *)
(* A call is one HTTP request with what the page does when it is answered. *)
(* Between two answers a tab runs to completion.  Calls are answered in    *)
(* any order, also after the tab has signed out, signed in again or been   *)
(* loaded anew.  On the server a step is what lies between two calls to    *)
(* the store; accounts are disabled and enabled at any time.               *)
(***************************************************************************)
EXTENDS Naturals

CONSTANTS
  Users,        \* the accounts
  Tabs,         \* the tabs of the browser
  Calls,        \* the calls that can be under way at once
  TTL,          \* how long a token is valid
  MaxTime,      \* bound on the clock
  StoreFaults,  \* whether calls to the store may fail
  None

VARIABLES
  now,      \* the server's clock
  status,   \* the status of each account
  stored,   \* the token in local storage
  writer,   \* history: the tab that wrote local storage last
  tab,      \* per tab: its session store, its route, what it waits for
  call      \* per call: the request, how far it is and its answer

vars == <<now, status, stored, writer, tab, call>>

Tokens == [user : Users, exp : 0..(MaxTime + TTL)]

ASSUME SessionAssumption ==
  /\ TTL \in Nat \ {0}
  /\ MaxTime \in Nat
  /\ StoreFaults \in BOOLEAN
  /\ None \notin Users \cup Tabs \cup Calls \cup Tokens

(* What a tab does with the answer: finish its sign-in (two calls), its     *)
(* route guard, a reload of the profile after it was saved, a sign-out, or  *)
(* work of the views that leaves the session alone.                         *)
ProfileUses == {"enter", "guard", "refresh"}
Uses == ProfileUses \cup {"signIn", "signOut", "update", "password"}

(* refused is the 401 of the token check, mistaken the 401 of a wrong       *)
(* password or username; error is every other failure, the network's too.   *)
Answers == {"ok", "refused", "mistaken", "forbidden", "error"}

Call == [use : Uses,
         tab : Tabs \cup {None},
         who : Users \cup {None},        \* of a sign-in: the account named, if any
         token : Tokens \cup {None},     \* sent with it; of a sign-in: signed for it
         phase : {"idle", "sent", "signed", "admitted", "answered"},
         answer : Answers,
         late : BOOLEAN,                 \* history: sent without a token that is valid
         barred : BOOLEAN]               \* history: its user was inactive ever since

Tab == [token : Tokens \cup {None},
        profile : Users \cup {None},
        view : {"start", "login", "shell"},
        nav : Calls \cup {None},         \* the guard's call of the latest navigation
        form : Calls \cup {None}]        \* the call the sign-in form is busy with

(* Faulty variant of Expired: the last second counts. *)
ExpiredAfter(token) == token.exp < now

Expired(token) == token.exp <= now

Inactive(u) == u \in Users /\ status[u] # "active"

Request(use, t, who, token) ==
  [use |-> use, tab |-> t, who |-> who, token |-> token, phase |-> "sent",
   answer |-> "error",
   late |-> use # "signIn" /\ (token = None \/ token.exp <= now),
   barred |-> token # None /\ Inactive(token.user)]

(* The slot of a call that is over. *)
NoCall == [use |-> "password", tab |-> None, who |-> None, token |-> None, phase |-> "idle",
           answer |-> "error", late |-> FALSE, barred |-> FALSE]

Init ==
  /\ now = 0
  /\ status = [u \in Users |-> "active"]
  /\ stored = None
  /\ writer \in Tabs
  /\ tab = [t \in Tabs |-> [token |-> None, profile |-> None, view |-> "login",
                            nav |-> None, form |-> None]]
  /\ call = [c \in Calls |-> NoCall]

browser == <<stored, writer, tab>>
server == <<now, status>>

----------------------------------------------------------------------------
(* The server *)

Authenticated(c) == call[c].use # "signIn"

Reach(c, phase) ==
  /\ call' = [call EXCEPT ![c].phase = phase]
  /\ UNCHANGED <<server, browser>>

Send(c, request) == call' = [call EXCEPT ![c] = request]

Succeed(c) ==
  /\ Send(c, [call[c] EXCEPT !.phase = "answered", !.answer = "ok"])
  /\ UNCHANGED <<server, browser>>

(* A failure carries nothing but its code. *)
Fail(c, answer) ==
  /\ Send(c, [NoCall EXCEPT !.use = call[c].use, !.tab = call[c].tab,
                            !.phase = "answered", !.answer = answer])
  /\ UNCHANGED <<server, browser>>

(* Faulty variant of Sign: rounded up to the next second. *)
SignRoundedUp(c, u) ==
  /\ call' = [call EXCEPT ![c].phase = "signed",
                          ![c].token = [user |-> u, exp |-> now + TTL + 1]]
  /\ UNCHANGED <<server, browser>>

Sign(c, u) ==
  /\ call' = [call EXCEPT ![c].phase = "signed",
                          ![c].token = [user |-> u, exp |-> now + TTL]]
  /\ UNCHANGED <<server, browser>>

(* A sign-in that fails is audited before it is answered. *)
CheckCredentials(c) ==
  /\ ~Authenticated(c) /\ call[c].phase = "sent"
  /\ LET u == call[c].who IN
       IF u = None
         THEN Fail(c, "mistaken")
         ELSE \/ status[u] = "deleted" /\ Fail(c, "mistaken")
              \/ status[u] = "disabled" /\ Fail(c, "forbidden")
              \/ status[u] = "active" /\ Fail(c, "mistaken")
              \/ status[u] = "active" /\ Sign(c, u)

(* Touching the last sign-in fails for an account that is gone. *)
RecordSignIn(c) ==
  /\ call[c].phase = "signed"
  /\ IF status[call[c].who] = "deleted" THEN Fail(c, "error")
                                        ELSE Succeed(c)

Usable(token) == token # None /\ ~Expired(token)

LoadPrincipal(c) ==
  /\ Authenticated(c) /\ call[c].phase = "sent"
  /\ LET token == call[c].token IN
       IF Usable(token) /\ ~Inactive(token.user) THEN Reach(c, "admitted")
                                                 ELSE Fail(c, "refused")

Handle(c) ==
  /\ call[c].phase = "admitted"
  /\ LET use == call[c].use IN
       \/ Succeed(c)
       \/ use = "password" /\ Fail(c, "mistaken")
       \/ use \in {"update", "password"} /\ Fail(c, "error")

(* The token check takes a failure to read the account for an account that  *)
(* may not be served.                                                       *)
StoreFault(c) ==
  /\ StoreFaults
  /\ \/ /\ ~Authenticated(c) /\ call[c].phase \in {"sent", "signed"}
        /\ Fail(c, "error")
     \/ /\ Authenticated(c) /\ call[c].phase = "sent" /\ Usable(call[c].token)
        /\ Fail(c, "refused")
     \/ /\ call[c].phase = "admitted"
        /\ Fail(c, "error")

(* The network: the request does not arrive, or its answer does not. *)
Lose(c) ==
  /\ call[c].phase \in {"sent", "answered"}
  /\ Fail(c, "error")

Tick ==
  /\ now < MaxTime
  /\ now' = now + 1
  /\ UNCHANGED <<status, browser, call>>

(* Administration: see UserAdmin.  A deleted account stays deleted. *)
SetStatus(u, s) ==
  /\ status[u] # "deleted" /\ status[u] # s
  /\ status' = [status EXCEPT ![u] = s]
  /\ call' = [c \in Calls |->
                [call[c] EXCEPT !.barred = @ /\ ~(call[c].token.user = u /\ s = "active")]]
  /\ UNCHANGED <<now, browser>>

----------------------------------------------------------------------------
(* The browser *)

Idle(c) == call[c].phase = "idle"

(* Faulty variant of Cleared: the store keeps its token. *)
ClearedProfile(tb) == [tb EXCEPT !.profile = None]

(* The tab's store is emptied, and with it local storage: session.clear. *)
Cleared(tb) == [tb EXCEPT !.token = None, !.profile = None]

(* A navigation that ends at the sign-in view, or in the shell. *)
AtLogin(tb) == [tb EXCEPT !.view = "login", !.nav = None]
InShell(tb) == [tb EXCEPT !.view = "shell", !.nav = None, !.form = None]

(* The sign-in form can be used again. *)
Released(tb, c) == [tb EXCEPT !.form = IF @ = c THEN None ELSE @]

Write(t, token) == stored' = token /\ writer' = t

Keep == UNCHANGED <<stored, writer>>

(* A request of a signed-in page carries the token of local storage. *)
SendAuthenticated(c, use, t) == Send(c, Request(use, t, None, stored))

(* The form is disabled while it is busy. *)
SubmitLogin(t, c, u) ==
  /\ tab[t].view = "login" /\ tab[t].form = None /\ Idle(c)
  /\ tab' = [tab EXCEPT ![t].form = c]
  /\ Send(c, Request("signIn", t, u, None))
  /\ Keep /\ UNCHANGED server

(* Faulty variant of Navigate: the profile is loaded behind the view. *)
NavigateAtOnce(t, c) ==
  /\ tab[t].view # "start"
  /\ \/ /\ tab[t].token = None
        /\ tab' = [tab EXCEPT ![t] = AtLogin(@)]
        /\ UNCHANGED call
     \/ /\ tab[t].token # None /\ Idle(c)
        /\ tab' = [tab EXCEPT ![t] = InShell(@)]
        /\ SendAuthenticated(c, "guard", t)
  /\ Keep /\ UNCHANGED server

(* The route guard before any view of the shell.  The profile is loaded if  *)
(* the store has none, and a later navigation cancels an earlier one.       *)
Navigate(t, c) ==
  /\ tab[t].view # "start"
  /\ \/ /\ tab[t].token = None
        /\ tab' = [tab EXCEPT ![t] = AtLogin(@)]
        /\ UNCHANGED call
     \/ /\ tab[t].token # None /\ tab[t].profile # None
        /\ tab' = [tab EXCEPT ![t] = InShell(@)]
        /\ UNCHANGED call
     \/ /\ tab[t].token # None /\ tab[t].profile = None /\ Idle(c)
        /\ tab' = [tab EXCEPT ![t].nav = c]
        /\ SendAuthenticated(c, "guard", t)
  /\ Keep /\ UNCHANGED server

(* Loading the page again starts the store from local storage.  Its calls    *)
(* are given up; what the server still does with them is not followed.      *)
Reload(t, c) ==
  /\ Idle(c)
  /\ LET blank == [token |-> stored, profile |-> None, form |-> None,
                   view |-> IF stored = None THEN "login" ELSE "start",
                   nav |-> IF stored = None THEN None ELSE c]
     IN tab' = [tab EXCEPT ![t] = blank]
  /\ call' = [x \in Calls |->
                IF x = c /\ stored # None THEN Request("guard", t, None, stored)
                ELSE IF call[x].tab = t THEN NoCall ELSE call[x]]
  /\ Keep /\ UNCHANGED server

SignOut(t, c) ==
  /\ tab[t].view = "shell"
  /\ \/ /\ tab[t].token # None /\ Idle(c)
        /\ SendAuthenticated(c, "signOut", t)
        /\ Keep /\ UNCHANGED tab
     \/ /\ tab[t].token = None
        /\ tab' = [tab EXCEPT ![t] = AtLogin(Cleared(@))]
        /\ Write(t, None)
        /\ UNCHANGED call
  /\ UNCHANGED server

Work(t, c) ==
  /\ tab[t].view = "shell" /\ Idle(c)
  /\ \E use \in {"update", "password"} : SendAuthenticated(c, use, t)
  /\ Keep /\ UNCHANGED <<server, tab>>

(* A call ends and leaves tb as the state of its tab. *)
End(c, tb) ==
  /\ Send(c, NoCall)
  /\ tab' = [tab EXCEPT ![call[c].tab] = Released(tb, c)]
  /\ UNCHANGED server

Answered(c) == call[c].phase = "answered"

Succeeded(c, use) == Answered(c) /\ call[c].answer = "ok" /\ call[c].use = use

(* Signed in: the token is stored and the profile asked for. *)
SignedIn(c) ==
  /\ Succeeded(c, "signIn")
  /\ LET t == call[c].tab token == call[c].token IN
       /\ tab' = [tab EXCEPT ![t].token = token]
       /\ Write(t, token)
       /\ Send(c, Request("enter", t, None, token))
  /\ UNCHANGED server

(* Then the form navigates to the shell, past the guard. *)
Entered(c) ==
  /\ Succeeded(c, "enter")
  /\ LET tb == [tab[call[c].tab] EXCEPT !.profile = call[c].token.user] IN
       End(c, IF tb.token = None THEN AtLogin(tb) ELSE InShell(tb))
  /\ Keep

GuardPassed(c) ==
  /\ Succeeded(c, "guard")
  /\ LET tb == [tab[call[c].tab] EXCEPT !.profile = call[c].token.user] IN
       End(c, IF tb.nav = c THEN InShell(tb) ELSE tb)
  /\ Keep

Refreshed(c) ==
  /\ Succeeded(c, "refresh")
  /\ End(c, [tab[call[c].tab] EXCEPT !.profile = call[c].token.user])
  /\ Keep

(* A saved profile is loaded again. *)
Updated(c) ==
  /\ Succeeded(c, "update")
  /\ SendAuthenticated(c, "refresh", call[c].tab)
  /\ Keep /\ UNCHANGED <<server, tab>>

SignedOut(c) ==
  /\ Succeeded(c, "signOut")
  /\ End(c, AtLogin(Cleared(tab[call[c].tab])))
  /\ Write(call[c].tab, None)

(* Nothing of the session changes: a message is shown, or the view's data.  *)
WorkDone(c) ==
  /\ Answered(c)
  /\ \/ call[c].use = "password" /\ call[c].answer \in {"ok", "error"}
     \/ call[c].use \in {"update", "refresh"} /\ call[c].answer = "error"
  /\ End(c, tab[call[c].tab])
  /\ Keep

(* An authenticated call answered 401: the session is cleared, and a tab    *)
(* that shows anything but the sign-in view goes there.                     *)
SessionExpired(c) ==
  /\ Answered(c) /\ Authenticated(c) /\ call[c].answer \in {"refused", "mistaken"}
  /\ LET tb == tab[call[c].tab] IN
       End(c, IF tb.view # "login" \/ tb.nav = c THEN AtLogin(Cleared(tb)) ELSE Cleared(tb))
  /\ Write(call[c].tab, None)

(* Other failures: a sign-in that failed leaves a message in the form; the   *)
(* guard and the sign-out clear the session all the same.                   *)
SignInFailed(c) ==
  /\ Answered(c)
  /\ \/ call[c].use = "signIn" /\ call[c].answer # "ok"
     \/ call[c].use = "enter" /\ call[c].answer = "error"
  /\ End(c, tab[call[c].tab])
  /\ Keep

GuardFailed(c) ==
  /\ Answered(c) /\ call[c].use = "guard" /\ call[c].answer = "error"
  /\ LET tb == Cleared(tab[call[c].tab]) IN
       End(c, IF tb.nav = c THEN AtLogin(tb) ELSE tb)
  /\ Write(call[c].tab, None)

SignOutFailed(c) ==
  /\ Answered(c) /\ call[c].use = "signOut" /\ call[c].answer = "error"
  /\ End(c, Cleared(tab[call[c].tab]))
  /\ Write(call[c].tab, None)

----------------------------------------------------------------------------

Serve(c) ==
  CheckCredentials(c) \/ RecordSignIn(c) \/ LoadPrincipal(c) \/ Handle(c)

Receive(c) ==
  \/ SignedIn(c) \/ Entered(c) \/ GuardPassed(c) \/ Refreshed(c) \/ Updated(c)
  \/ SignedOut(c) \/ WorkDone(c)
  \/ SessionExpired(c) \/ SignInFailed(c) \/ GuardFailed(c) \/ SignOutFailed(c)

Use(t, c) ==
  \/ \E u \in Users \cup {None} : SubmitLogin(t, c, u)
  \/ Navigate(t, c) \/ Reload(t, c) \/ SignOut(t, c) \/ Work(t, c)

Next ==
  \/ \E c \in Calls : Serve(c) \/ StoreFault(c) \/ Lose(c) \/ Receive(c)
  \/ \E t \in Tabs, c \in Calls : Use(t, c)
  \/ Tick
  \/ \E u \in Users, s \in {"active", "disabled", "deleted"} : SetStatus(u, s)

Spec == Init /\ [][Next]_vars

----------------------------------------------------------------------------
TypeOK ==
  /\ now \in 0..MaxTime
  /\ status \in [Users -> {"active", "disabled", "deleted"}]
  /\ stored \in Tokens \cup {None}
  /\ writer \in Tabs
  /\ tab \in [Tabs -> Tab]
  /\ call \in [Calls -> Call]

Served(c) ==
  /\ Authenticated(c)
  /\ \/ call[c].phase = "admitted"
     \/ call[c].phase = "answered" /\ call[c].answer = "ok"

(* No call is served that was sent without a token, with one that had        *)
(* expired, or by a user who has been inactive ever since: require checks    *)
(* the expiry against the clock and the status against the store each time,  *)
(* whatever the token says and however late the call is worked on.           *)
StaleTokensRefused == \A c \in Calls : Served(c) => ~call[c].late /\ ~call[c].barred

(* The guards of a tab go by its own token, its calls by local storage: the  *)
(* two differ only after another tab has written local storage.  Every path  *)
(* of signing in, out, or being signed out has to write both.                *)
LastWriterInSync == tab[writer].token = stored

(* The shell is entered with a profile, whichever of several navigations,    *)
(* answers and expiries comes last (docs/04-frontend/01-frontend-design.md:  *)
(* the router guard loads the profile before entering protected routes).     *)
ShellNeedsProfile ==
  [][\A t \in Tabs : tab[t].view # "shell" /\ tab'[t].view = "shell" =>
                        tab'[t].profile # None]_vars

(* What api/openapi.yaml:833 says of a 401: missing, invalid or expired      *)
(* bearer credentials.  It is what a page takes for the end of its session.  *)
UnauthorizedMeansBadToken ==
  [][\A c \in Calls :
       /\ Authenticated(c) /\ call[c].phase # "answered" /\ call'[c].phase = "answered"
       /\ call'[c].answer \in {"refused", "mistaken"}
       => ~Usable(call[c].token) \/ Inactive(call[c].token.user)]_vars

=============================================================================
