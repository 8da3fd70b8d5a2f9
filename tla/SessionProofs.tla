--------------------------- MODULE SessionProofs ---------------------------
(***************************************************************************)
(* Proofs about Session, for every set of accounts, tabs and calls, every  *)
(* validity of tokens and every bound on the clock.                        *)
(*                                                                         *)
(* The argument for StaleTokensRefused is that a call sent with a token    *)
(* that had expired keeps an expired token, time only going on, and that a *)
(* barred call is one whose user is inactive now: when the server looks,   *)
(* it sees what there was to see when the call was sent.                   *)
(***************************************************************************)
EXTENDS Session, TLAPS

USE SessionAssumption

----------------------------------------------------------------------------
(* What the operators of the module return *)

(* A request is a call, and the slot of a call that is over is one too. *)
LEMMA RequestType ==
  ASSUME TypeOK, NEW use \in Uses, NEW t \in Tabs, NEW who \in Users \cup {None},
         NEW token \in Tokens \cup {None}
  PROVE  Request(use, t, who, token) \in Call
  BY DEF TypeOK, Request, Call, Answers, Inactive, Expired

LEMMA NoCallType == NoCall \in Call
  BY DEF NoCall, Call, Uses, Answers

(* Navigating, clearing and releasing the form leave the state of a tab, and *)
(* only clearing touches its token.                                          *)
LEMMA TabType ==
  ASSUME NEW tb \in Tab, NEW c
  PROVE  /\ Cleared(tb) \in Tab /\ Cleared(tb).token = None
         /\ AtLogin(tb) \in Tab /\ AtLogin(tb).token = tb.token
         /\ InShell(tb) \in Tab /\ InShell(tb).token = tb.token
         /\ InShell(tb).profile = tb.profile
         /\ Released(tb, c) \in Tab /\ Released(tb, c).token = tb.token
         /\ Released(tb, c).profile = tb.profile /\ Released(tb, c).view = tb.view
  BY DEF Tab, Cleared, AtLogin, InShell, Released

(* The profile an answer carries. *)
LEMMA ProfileType ==
  ASSUME NEW tb \in Tab, NEW u \in Users
  PROVE  /\ [tb EXCEPT !.profile = u] \in Tab
         /\ [tb EXCEPT !.profile = u].token = tb.token
         /\ [tb EXCEPT !.profile = u].profile = u
         /\ [tb EXCEPT !.profile = u].view = tb.view
         /\ [tb EXCEPT !.profile = u].nav = tb.nav
  BY DEF Tab

----------------------------------------------------------------------------
(* The invariant *)

(* What a call knows of its token is still so. *)
Honest(r) ==
  /\ r.use = "signIn" => ~r.late /\ ~r.barred
  /\ r.barred => r.token # None /\ Inactive(r.token.user)
  /\ r.late /\ r.token # None => r.token.exp <= now
  /\ r.use # "signIn" /\ (r.phase = "admitted" \/ (r.phase = "answered" /\ r.answer = "ok"))
       => r.token # None /\ ~r.late /\ ~r.barred

(* A call under way belongs to a tab, and its phases to its use. *)
WellFormed(r) ==
  /\ r.phase # "idle" => r.tab # None
  /\ r.phase = "signed" => r.use = "signIn"
  /\ r.phase = "admitted" => r.use # "signIn"
  /\ r.use = "signIn" /\ (r.phase = "signed" \/ (r.phase = "answered" /\ r.answer = "ok"))
       => r.token # None

Good(r) == Honest(r) /\ WellFormed(r)

CallsGood == \A x \in Calls : Good(call[x])

BrowserOK ==
  /\ stored \in Tokens \cup {None}
  /\ writer \in Tabs
  /\ tab \in [Tabs -> Tab]
  /\ LastWriterInSync

IInv == TypeOK /\ CallsGood /\ LastWriterInSync

----------------------------------------------------------------------------
(* Calls *)

(* A call that becomes a good call leaves all calls good. *)
LEMMA SendGood ==
  ASSUME TypeOK, CallsGood, UNCHANGED server,
         NEW c \in Calls, NEW r \in Call, Good(r), Send(c, r)
  PROVE  call' \in [Calls -> Call] /\ CallsGood'
<1>1. call' \in [Calls -> Call] /\ \A x \in Calls : call'[x] = IF x = c THEN r ELSE call[x]
  BY DEF TypeOK, Send
<1>2. \A x \in Calls : Good(call'[x])
  BY <1>1 DEF CallsGood
<1>3. CallsGood'
  BY <1>2 DEF server, CallsGood, Good, Honest, WellFormed, Inactive
<1> QED
  BY <1>1, <1>3

LEMMA RequestGood ==
  ASSUME TypeOK, NEW use \in Uses, NEW t \in Tabs, NEW who \in Users \cup {None},
         NEW token \in Tokens \cup {None}, use = "signIn" => token = None
  PROVE  Good(Request(use, t, who, token))
  BY DEF TypeOK, Request, Good, Honest, WellFormed, Tokens

LEMMA NoCallGood == Good(NoCall)
  BY DEF NoCall, Good, Honest, WellFormed

LEMMA FailGood ==
  ASSUME TypeOK, CallsGood, NEW c \in Calls, call[c].phase # "idle",
         NEW answer \in Answers \ {"ok"}, Fail(c, answer)
  PROVE  call' \in [Calls -> Call] /\ CallsGood'
<1> DEFINE r == [NoCall EXCEPT !.use = call[c].use, !.tab = call[c].tab,
                               !.phase = "answered", !.answer = answer]
<1>1. r \in Call /\ Good(r)
  BY DEF TypeOK, CallsGood, Good, Honest, WellFormed, NoCall, Call
<1> QED
  BY <1>1, SendGood DEF Fail

(* Succeeding, being admitted: the call is what it was but for its phase. *)
LEMMA SucceedGood ==
  ASSUME TypeOK, CallsGood, NEW c \in Calls, call[c].phase \in {"admitted", "signed"}, Succeed(c)
  PROVE  call' \in [Calls -> Call] /\ CallsGood'
<1> DEFINE r == [call[c] EXCEPT !.phase = "answered", !.answer = "ok"]
<1>1. r \in Call /\ Good(r)
  BY DEF TypeOK, CallsGood, Good, Honest, WellFormed, Call, Answers
<1> QED
  BY <1>1, SendGood DEF Succeed

----------------------------------------------------------------------------
(* Steps of the server *)

(* An answer, an admission or a signature leaves all calls good. *)
LEMMA ServerStep ==
  ASSUME TypeOK, CallsGood, NEW c \in Calls, Serve(c) \/ StoreFault(c) \/ Lose(c)
  PROVE  call' \in [Calls -> Call] /\ CallsGood' /\ UNCHANGED <<server, browser>>
<1>0. call[c] \in Call /\ Good(call[c]) /\ now \in Nat /\ status \in [Users -> {"active", "disabled", "deleted"}]
  BY DEF TypeOK, CallsGood
<1>1. CASE CheckCredentials(c)
  <2>1. ASSUME NEW answer \in {"mistaken", "forbidden"}, Fail(c, answer)
        PROVE  call' \in [Calls -> Call] /\ CallsGood' /\ UNCHANGED <<server, browser>>
    <3>1. call[c].phase # "idle" /\ answer \in Answers \ {"ok"}
      BY <1>1 DEF CheckCredentials, Answers
    <3> QED
      BY <2>1, <3>1, FailGood DEF Fail
  <2>2. ASSUME call[c].who \in Users, Sign(c, call[c].who)
        PROVE  call' \in [Calls -> Call] /\ CallsGood' /\ UNCHANGED <<server, browser>>
    <3> DEFINE token == [user |-> call[c].who, exp |-> now + TTL]
    <3> DEFINE r == [call[c] EXCEPT !.phase = "signed", !.token = token]
    <3>1. call[c].use = "signIn"
      BY <1>1 DEF CheckCredentials, Authenticated
    <3>2. token \in Tokens
      BY <2>2 DEF TypeOK, Tokens
    <3>3. r \in Call
      BY <1>0, <3>2 DEF Call
    <3>4. Good(r)
      BY <1>0, <1>1, <3>1, <3>2 DEF Good, Honest, WellFormed, Call, CheckCredentials
    <3>5. Send(c, r)
      <4>1. [call EXCEPT ![c].phase = "signed", ![c].token = token] = [call EXCEPT ![c] = r]
        BY DEF TypeOK, Call
      <4> QED
        BY <2>2, <4>1 DEF Sign, Send
    <3>6. UNCHANGED <<server, browser>>
      BY <2>2 DEF Sign
    <3> QED
      BY <3>3, <3>4, <3>5, <3>6, SendGood
  <2>3. call[c].who # None => call[c].who \in Users
    BY <1>0 DEF Call
  <2>4. \/ Fail(c, "mistaken") \/ Fail(c, "forbidden")
        \/ call[c].who # None /\ Sign(c, call[c].who)
    BY <1>1 DEF CheckCredentials
  <2> QED
    BY <2>1, <2>2, <2>3, <2>4
<1>2. CASE RecordSignIn(c)
  <2>1. call[c].phase = "signed" /\ (Fail(c, "error") \/ Succeed(c))
    BY <1>2 DEF RecordSignIn
  <2>2. "error" \in Answers \ {"ok"}
    BY DEF Answers
  <2> QED
    BY <2>1, <2>2, FailGood, SucceedGood DEF Fail, Succeed
<1>3. CASE LoadPrincipal(c)
  <2>1. CASE Fail(c, "refused")
    <3>1. call[c].phase # "idle" /\ "refused" \in Answers \ {"ok"}
      BY <1>3 DEF LoadPrincipal, Answers
    <3> QED
      BY <2>1, <3>1, FailGood DEF Fail
  <2>2. CASE /\ call[c].phase = "sent" /\ Authenticated(c) /\ Reach(c, "admitted")
             /\ Usable(call[c].token) /\ ~Inactive(call[c].token.user)
    <3> DEFINE r == [call[c] EXCEPT !.phase = "admitted"]
    <3>1. r \in Call /\ Good(r)
      BY <1>0, <2>2 DEF Good, Honest, WellFormed, Call, Authenticated, Usable, Expired
    <3>2. Send(c, r) /\ UNCHANGED <<server, browser>>
      <4>1. [call EXCEPT ![c].phase = "admitted"] = [call EXCEPT ![c] = r]
        BY DEF TypeOK, Call
      <4> QED
        BY <2>2, <4>1 DEF Reach, Send
    <3> QED
      BY <3>1, <3>2, SendGood
  <2> QED
    BY <1>3, <2>1, <2>2 DEF LoadPrincipal
<1>4. CASE Handle(c)
  <2>1. /\ call[c].phase = "admitted"
        /\ \/ Succeed(c) \/ Fail(c, "mistaken") \/ Fail(c, "error")
    BY <1>4 DEF Handle
  <2>2. {"mistaken", "error"} \subseteq Answers \ {"ok"}
    BY DEF Answers
  <2> QED
    BY <2>1, <2>2, FailGood, SucceedGood DEF Fail, Succeed
<1>5. CASE StoreFault(c) \/ Lose(c)
  <2>1. /\ call[c].phase # "idle"
        /\ \/ Fail(c, "error") \/ Fail(c, "refused")
    BY <1>5 DEF StoreFault, Lose
  <2>2. {"refused", "error"} \subseteq Answers \ {"ok"}
    BY DEF Answers
  <2> QED
    BY <2>1, <2>2, FailGood DEF Fail
<1> QED
  BY <1>1, <1>2, <1>3, <1>4, <1>5 DEF Serve

(* Time goes on: what had expired stays expired. *)
LEMMA TickStep ==
  ASSUME TypeOK, CallsGood, Tick
  PROVE  TypeOK' /\ CallsGood'
<1>1. now' \in 0..MaxTime /\ now \in Nat /\ now <= now'
  BY DEF TypeOK, Tick
<1>2. TypeOK'
  BY <1>1 DEF TypeOK, Tick, browser
<1>3. ASSUME NEW x \in Calls PROVE Good(call[x])'
  <2>1. call[x] \in Call /\ Good(call[x]) /\ call' = call /\ status' = status
    BY DEF TypeOK, CallsGood, Tick
  <2>2. call[x].token # None => call[x].token.exp \in Nat
    BY <2>1 DEF Call, Tokens
  <2> QED
    BY <1>1, <2>1, <2>2 DEF Good, Honest, WellFormed, Inactive
<1> QED
  BY <1>2, <1>3 DEF CallsGood

(* A barred call stays barred only while its user is inactive. *)
LEMMA StatusStep ==
  ASSUME TypeOK, CallsGood, NEW u \in Users, NEW s \in {"active", "disabled", "deleted"},
         SetStatus(u, s)
  PROVE  TypeOK' /\ CallsGood'
<1> DEFINE Kept(x) == call[x].barred /\ ~(call[x].token.user = u /\ s = "active")
<1>1. /\ status' = [status EXCEPT ![u] = s]
      /\ call' = [x \in Calls |-> [call[x] EXCEPT !.barred = Kept(x)]]
      /\ UNCHANGED <<now, browser>>
  BY DEF SetStatus
<1>2. ASSUME NEW x \in Calls
      PROVE  call'[x] \in Call /\ Good(call[x])'
  <2>0. Kept(x) \in BOOLEAN
    OBVIOUS
  <2>1. call[x] \in Call /\ Good(call[x])
    BY DEF TypeOK, CallsGood
  <2>2. call'[x] = [call[x] EXCEPT !.barred = Kept(x)]
    BY <1>1
  <2>3. call'[x] \in Call
    BY <2>0, <2>1, <2>2 DEF Call
  <2>4. /\ call'[x].use = call[x].use /\ call'[x].phase = call[x].phase
        /\ call'[x].answer = call[x].answer /\ call'[x].late = call[x].late
        /\ call'[x].token = call[x].token /\ call'[x].tab = call[x].tab
        /\ call'[x].barred = Kept(x)
    BY <2>1, <2>2 DEF Call
  <2>5. Kept(x) => Inactive(call[x].token.user)'
    <3>1. Kept(x) => call[x].token.user \in Users /\ status[call[x].token.user] # "active"
      BY <2>1 DEF Good, Honest, Inactive
    <3>2. status \in [Users -> {"active", "disabled", "deleted"}]
      BY DEF TypeOK
    <3> QED
      BY <1>1, <3>1, <3>2, <2>4 DEF Inactive
  <2> HIDE DEF Kept
  <2>6. Kept(x) => call[x].barred
    BY DEF Kept
  <2> QED
    BY <1>1, <2>0, <2>1, <2>3, <2>4, <2>5, <2>6 DEF Good, Honest, WellFormed
<1>3. TypeOK'
  BY <1>1, <1>2 DEF TypeOK, browser
<1> QED
  BY <1>2, <1>3 DEF CallsGood

----------------------------------------------------------------------------
(* Steps of the browser *)

(* A tab whose token and local storage stay, or are written together, keeps *)
(* the last writer in sync.                                                  *)
LEMMA TabStep ==
  ASSUME BrowserOK, NEW t \in Tabs, NEW tb \in Tab, tab' = [tab EXCEPT ![t] = tb],
         \/ Keep /\ (tb.token = tab[t].token \/ tb.token = stored)
         \/ Write(t, tb.token)
  PROVE  BrowserOK'
<1>1. tab' \in [Tabs -> Tab] /\ \A x \in Tabs : tab'[x] = IF x = t THEN tb ELSE tab[x]
  BY DEF BrowserOK
<1>2. tb.token \in Tokens \cup {None}
  BY DEF Tab
<1>3. CASE Keep /\ (tb.token = tab[t].token \/ tb.token = stored)
  BY <1>1, <1>3 DEF BrowserOK, Keep, LastWriterInSync
<1>4. CASE Write(t, tb.token)
  BY <1>1, <1>2, <1>4 DEF BrowserOK, Write, LastWriterInSync
<1> QED
  BY <1>3, <1>4

(* The end of a call. *)
LEMMA EndStep ==
  ASSUME IInv, NEW c \in Calls, call[c].phase # "idle", NEW tb \in Tab, End(c, tb),
         \/ Keep /\ tb.token = tab[call[c].tab].token
         \/ Write(call[c].tab, None) /\ tb.token = None
  PROVE  IInv'
<1> DEFINE t == call[c].tab
<1> DEFINE released == Released(tb, c)
<1>1. t \in Tabs /\ BrowserOK /\ UNCHANGED server
  BY DEF IInv, TypeOK, CallsGood, Good, WellFormed, Call, BrowserOK, End
<1>2. released \in Tab /\ released.token = tb.token /\ tab' = [tab EXCEPT ![t] = released]
  BY TabType DEF End
<1>3. BrowserOK'
  <2>1. \/ Keep /\ released.token = tab[t].token
        \/ Write(t, released.token)
    BY <1>2
  <2> HIDE DEF t, released
  <2> QED
    BY <1>1, <1>2, <2>1, TabStep
<1>4. call' \in [Calls -> Call] /\ CallsGood'
  BY <1>1, NoCallType, NoCallGood, SendGood DEF IInv, End
<1> QED
  BY <1>1, <1>3, <1>4 DEF IInv, TypeOK, BrowserOK, server

(* A request is sent; the tab and local storage change as they may. *)
LEMMA SendStep ==
  ASSUME IInv, UNCHANGED server, BrowserOK', NEW c \in Calls, NEW use \in Uses,
         NEW t \in Tabs, NEW who \in Users \cup {None}, NEW token \in Tokens \cup {None},
         use = "signIn" => token = None, Send(c, Request(use, t, who, token))
  PROVE  IInv'
<1>1. Request(use, t, who, token) \in Call /\ Good(Request(use, t, who, token))
  BY RequestType, RequestGood DEF IInv
<1>2. call' \in [Calls -> Call] /\ CallsGood'
  BY <1>1, SendGood DEF IInv
<1> QED
  BY <1>2 DEF IInv, TypeOK, BrowserOK, server

(* The calls stay as they are. *)
LEMMA QuietStep ==
  ASSUME IInv, UNCHANGED <<server, call>>, BrowserOK'
  PROVE  IInv'
  BY DEF IInv, TypeOK, CallsGood, Good, Honest, WellFormed, Inactive, BrowserOK, server

(* What a user does. *)
LEMMA UseStep ==
  ASSUME IInv, NEW t \in Tabs, NEW c \in Calls, Use(t, c)
  PROVE  IInv'
<1>0. /\ BrowserOK /\ tab[t] \in Tab /\ stored \in Tokens \cup {None}
      /\ tab[t].token \in Tokens \cup {None}
  BY DEF IInv, TypeOK, BrowserOK, Tab
<1>1. ASSUME NEW u \in Users \cup {None}, SubmitLogin(t, c, u) PROVE IInv'
  <2> DEFINE tb == [tab[t] EXCEPT !.form = c]
  <2>1. tb \in Tab /\ tb.token = tab[t].token
    BY <1>0 DEF Tab
  <2>2. tab' = [tab EXCEPT ![t] = tb] /\ Keep
    BY <1>1 DEF SubmitLogin
  <2>3. BrowserOK'
    BY <1>0, <2>1, <2>2, TabStep
  <2>4. "signIn" \in Uses /\ Send(c, Request("signIn", t, u, None)) /\ UNCHANGED server
    BY <1>1 DEF SubmitLogin, Uses
  <2> QED
    BY <2>3, <2>4, SendStep
<1>2. CASE Navigate(t, c)
  <2>1. CASE tab' = [tab EXCEPT ![t] = AtLogin(@)] /\ UNCHANGED call
    <3>1. AtLogin(tab[t]) \in Tab /\ AtLogin(tab[t]).token = tab[t].token /\ Keep /\ UNCHANGED server
      BY <1>0, <1>2, TabType DEF Navigate
    <3>2. BrowserOK'
      BY <1>0, <2>1, <3>1, TabStep
    <3> QED
      BY <2>1, <3>1, <3>2, QuietStep
  <2>2. CASE tab' = [tab EXCEPT ![t] = InShell(@)] /\ UNCHANGED call
    <3>1. InShell(tab[t]) \in Tab /\ InShell(tab[t]).token = tab[t].token /\ Keep /\ UNCHANGED server
      BY <1>0, <1>2, TabType DEF Navigate
    <3>2. BrowserOK'
      BY <1>0, <2>2, <3>1, TabStep
    <3> QED
      BY <2>2, <3>1, <3>2, QuietStep
  <2>3. CASE tab' = [tab EXCEPT ![t].nav = c] /\ SendAuthenticated(c, "guard", t)
    <3> DEFINE tb == [tab[t] EXCEPT !.nav = c]
    <3>1. tb \in Tab /\ tb.token = tab[t].token /\ tab' = [tab EXCEPT ![t] = tb]
      BY <1>0, <2>3 DEF Tab
    <3>2. Keep /\ UNCHANGED server /\ "guard" \in Uses
      BY <1>2 DEF Navigate, Uses, ProfileUses
    <3>3. BrowserOK'
      BY <1>0, <3>1, <3>2, TabStep
    <3> QED
      BY <1>0, <2>3, <3>2, <3>3, SendStep DEF SendAuthenticated
  <2> QED
    BY <1>2, <2>1, <2>2, <2>3 DEF Navigate
<1>3. CASE Reload(t, c)
  <2> DEFINE tb == [token |-> stored, profile |-> None, form |-> None,
                    view |-> IF stored = None THEN "login" ELSE "start",
                    nav |-> IF stored = None THEN None ELSE c]
  <2> DEFINE request == Request("guard", t, None, stored)
  <2>1. tb \in Tab /\ tb.token = stored
    BY <1>0 DEF Tab
  <2>2. tab' = [tab EXCEPT ![t] = tb] /\ Keep /\ UNCHANGED server
    BY <1>3 DEF Reload
  <2> HIDE DEF tb
  <2>3. BrowserOK'
    BY <1>0, <2>1, <2>2, TabStep
  <2>4. request \in Call /\ Good(request)
    BY <1>0, RequestType, RequestGood DEF IInv, Uses, ProfileUses
  <2>5. \A x \in Calls : call[x] \in Call /\ Good(call[x])
    BY DEF IInv, TypeOK, CallsGood
  <2>6. call' = [x \in Calls |->
                   IF x = c /\ stored # None THEN request
                   ELSE IF call[x].tab = t THEN NoCall ELSE call[x]]
    BY <1>3 DEF Reload
  <2> HIDE DEF request
  <2>7. \A x \in Calls : call'[x] \in Call /\ Good(call'[x])
    BY <2>4, <2>5, <2>6, NoCallType, NoCallGood
  <2>8. CallsGood'
    BY <2>2, <2>7 DEF server, CallsGood, Good, Honest, WellFormed, Inactive
  <2>9. call' \in [Calls -> Call]
    BY <2>6, <2>7
  <2> QED
    BY <2>2, <2>3, <2>8, <2>9 DEF IInv, TypeOK, BrowserOK, server
<1>4. CASE SignOut(t, c)
  <2>1. CASE SendAuthenticated(c, "signOut", t) /\ Keep /\ UNCHANGED tab
    <3>1. "signOut" \in Uses /\ BrowserOK' /\ UNCHANGED server
      BY <1>0, <1>4, <2>1 DEF Uses, BrowserOK, LastWriterInSync, Keep, SignOut
    <3> QED
      BY <1>0, <2>1, <3>1, SendStep DEF SendAuthenticated
  <2>2. CASE tab' = [tab EXCEPT ![t] = AtLogin(Cleared(@))] /\ Write(t, None) /\ UNCHANGED call
    <3> DEFINE tb == AtLogin(Cleared(tab[t]))
    <3>1. tb \in Tab /\ tb.token = None /\ tab' = [tab EXCEPT ![t] = tb]
      BY <1>0, <2>2, TabType
    <3> HIDE DEF tb
    <3>2. BrowserOK' /\ UNCHANGED server
      BY <1>0, <1>4, <2>2, <3>1, TabStep DEF SignOut
    <3> QED
      BY <2>2, <3>2, QuietStep
  <2> QED
    BY <1>4, <2>1, <2>2 DEF SignOut
<1>5. CASE Work(t, c)
  <2>1. PICK use \in {"update", "password"} : SendAuthenticated(c, use, t)
    BY <1>5 DEF Work
  <2>2. use \in Uses /\ use # "signIn" /\ BrowserOK' /\ UNCHANGED server
    BY <1>0, <1>5, <2>1 DEF Uses, BrowserOK, LastWriterInSync, Keep, Work
  <2> QED
    BY <1>0, <2>1, <2>2, SendStep DEF SendAuthenticated
<1> QED
  BY <1>1, <1>2, <1>3, <1>4, <1>5 DEF Use

(* What an answer does. *)
LEMMA ReceiveStep ==
  ASSUME IInv, NEW c \in Calls, Receive(c)
  PROVE  IInv'
<1> DEFINE t == call[c].tab
<1>0. /\ call[c].phase = "answered" /\ call[c].phase # "idle" /\ t \in Tabs /\ tab[t] \in Tab
      /\ BrowserOK /\ stored \in Tokens \cup {None} /\ call[c].token \in Tokens \cup {None}
  BY DEF Receive, SignedIn, Entered, GuardPassed, Refreshed, Updated, SignedOut, WorkDone,
         SessionExpired, SignInFailed, GuardFailed, SignOutFailed, Succeeded, Answered,
         IInv, TypeOK, CallsGood, Good, WellFormed, Call, BrowserOK
<1>1. ASSUME call[c].answer = "ok"
      PROVE  call[c].token # None /\ call[c].token \in Tokens /\ call[c].token.user \in Users
  BY <1>0, <1>1 DEF IInv, TypeOK, CallsGood, Good, Honest, WellFormed, Call, Tokens
<1> DEFINE u == call[c].token.user
<1> DEFINE known == [tab[t] EXCEPT !.profile = u]
<1>2. CASE SignedIn(c)
  <2> DEFINE tb == [tab[t] EXCEPT !.token = call[c].token]
  <2>1. tb \in Tab /\ tb.token = call[c].token /\ tab' = [tab EXCEPT ![t] = tb]
    BY <1>0, <1>2 DEF Tab, SignedIn
  <2>2. /\ Write(t, call[c].token) /\ UNCHANGED server
        /\ Send(c, Request("enter", t, None, call[c].token))
    BY <1>2 DEF SignedIn
  <2> HIDE DEF tb
  <2>3. BrowserOK'
    BY <1>0, <2>1, <2>2, TabStep
  <2>4. "enter" \in Uses
    BY DEF Uses, ProfileUses
  <2> QED
    BY <1>0, <2>2, <2>3, <2>4, SendStep
<1>3. CASE Entered(c)
  <2> DEFINE tb == IF known.token = None THEN AtLogin(known) ELSE InShell(known)
  <2>1. tb \in Tab /\ tb.token = tab[t].token
    <3>1. known \in Tab /\ known.token = tab[t].token
      BY <1>0, <1>1, <1>3, ProfileType DEF Entered, Succeeded
    <3> HIDE DEF known
    <3> QED
      BY <3>1, TabType
  <2>2. End(c, tb) /\ Keep
    BY <1>3 DEF Entered
  <2> HIDE DEF tb
  <2> QED
    BY <1>0, <2>1, <2>2, EndStep
<1>4. CASE GuardPassed(c)
  <2> DEFINE tb == IF known.nav = c THEN InShell(known) ELSE known
  <2>1. tb \in Tab /\ tb.token = tab[t].token
    <3>1. known \in Tab /\ known.token = tab[t].token
      BY <1>0, <1>1, <1>4, ProfileType DEF GuardPassed, Succeeded
    <3> HIDE DEF known
    <3> QED
      BY <3>1, TabType
  <2>2. End(c, tb) /\ Keep
    BY <1>4 DEF GuardPassed
  <2> HIDE DEF tb
  <2> QED
    BY <1>0, <2>1, <2>2, EndStep
<1>5. CASE Refreshed(c)
  <2>1. known \in Tab /\ known.token = tab[t].token
    BY <1>0, <1>1, <1>5, ProfileType DEF Refreshed, Succeeded
  <2>2. End(c, known) /\ Keep
    BY <1>5 DEF Refreshed
  <2> HIDE DEF known
  <2> QED
    BY <1>0, <2>1, <2>2, EndStep
<1>6. CASE Updated(c)
  <2>1. SendAuthenticated(c, "refresh", t) /\ Keep /\ UNCHANGED <<server, tab>>
    BY <1>6 DEF Updated
  <2>2. BrowserOK' /\ "refresh" \in Uses
    BY <1>0, <2>1 DEF BrowserOK, Keep, LastWriterInSync, Uses, ProfileUses
  <2> QED
    BY <1>0, <2>1, <2>2, SendStep DEF SendAuthenticated
<1>7. CASE SignedOut(c)
  <2> DEFINE tb == AtLogin(Cleared(tab[t]))
  <2>1. tb \in Tab /\ tb.token = None
    BY <1>0, TabType
  <2>2. End(c, tb) /\ Write(t, None)
    BY <1>7 DEF SignedOut
  <2> HIDE DEF tb
  <2> QED
    BY <1>0, <2>1, <2>2, EndStep
<1>8. CASE WorkDone(c) \/ SignInFailed(c)
  <2>1. End(c, tab[t]) /\ Keep
    BY <1>8 DEF WorkDone, SignInFailed
  <2> QED
    BY <1>0, <2>1, EndStep
<1>9. CASE SessionExpired(c)
  <2> DEFINE tb == IF tab[t].view # "login" \/ tab[t].nav = c
                     THEN AtLogin(Cleared(tab[t])) ELSE Cleared(tab[t])
  <2>1. tb \in Tab /\ tb.token = None
    BY <1>0, TabType
  <2>2. End(c, tb) /\ Write(t, None)
    BY <1>9 DEF SessionExpired
  <2> HIDE DEF tb
  <2> QED
    BY <1>0, <2>1, <2>2, EndStep
<1>10. CASE GuardFailed(c)
  <2> DEFINE tb == IF Cleared(tab[t]).nav = c THEN AtLogin(Cleared(tab[t])) ELSE Cleared(tab[t])
  <2>1. tb \in Tab /\ tb.token = None
    BY <1>0, TabType
  <2>2. End(c, tb) /\ Write(t, None)
    BY <1>10 DEF GuardFailed
  <2> HIDE DEF tb
  <2> QED
    BY <1>0, <2>1, <2>2, EndStep
<1>11. CASE SignOutFailed(c)
  <2> DEFINE tb == Cleared(tab[t])
  <2>1. tb \in Tab /\ tb.token = None
    BY <1>0, TabType
  <2>2. End(c, tb) /\ Write(t, None)
    BY <1>11 DEF SignOutFailed
  <2> HIDE DEF tb
  <2> QED
    BY <1>0, <2>1, <2>2, EndStep
<1> QED
  BY <1>2, <1>3, <1>4, <1>5, <1>6, <1>7, <1>8, <1>9, <1>10, <1>11 DEF Receive

----------------------------------------------------------------------------
(* The invariant holds *)

LEMMA InitInvariant == Init => IInv
<1> SUFFICES ASSUME Init PROVE IInv
  OBVIOUS
<1>1. call \in [Calls -> Call] /\ CallsGood
  BY NoCallType, NoCallGood DEF Init, CallsGood
<1>2. tab \in [Tabs -> Tab]
  BY DEF Init, Tab
<1>3. 0 \in 0..MaxTime
  OBVIOUS
<1> QED
  BY <1>1, <1>2, <1>3 DEF Init, IInv, TypeOK, LastWriterInSync

LEMMA StepInvariant == IInv /\ [Next]_vars => IInv'
<1> SUFFICES ASSUME IInv, [Next]_vars PROVE IInv'
  OBVIOUS
<1>1. ASSUME NEW c \in Calls, Serve(c) \/ StoreFault(c) \/ Lose(c) PROVE IInv'
  <2>1. call' \in [Calls -> Call] /\ CallsGood' /\ UNCHANGED <<server, browser>>
    BY <1>1, ServerStep DEF IInv
  <2> QED
    BY <2>1 DEF IInv, TypeOK, server, browser, LastWriterInSync
<1>2. ASSUME NEW c \in Calls, Receive(c) PROVE IInv'
  BY <1>2, ReceiveStep
<1>3. ASSUME NEW t \in Tabs, NEW c \in Calls, Use(t, c) PROVE IInv'
  BY <1>3, UseStep
<1>4. CASE Tick
  BY <1>4, TickStep DEF IInv, Tick, browser, LastWriterInSync
<1>5. ASSUME NEW u \in Users, NEW s \in {"active", "disabled", "deleted"}, SetStatus(u, s)
      PROVE  IInv'
  BY <1>5, StatusStep DEF IInv, SetStatus, browser, LastWriterInSync
<1>6. CASE UNCHANGED vars
  BY <1>6, QuietStep DEF IInv, TypeOK, BrowserOK, vars, server, LastWriterInSync
<1> QED
  BY <1>1, <1>2, <1>3, <1>4, <1>5, <1>6 DEF Next

THEOREM Invariant == Spec => []IInv
  BY InitInvariant, StepInvariant, PTL DEF Spec

(* Every reachable state is well typed: in particular no token outlives the  *)
(* validity it was signed for, and no call is answered to a tab that is not. *)
THEOREM TypeCorrect == Spec => []TypeOK
<1>1. IInv => TypeOK
  BY DEF IInv
<1> QED
  BY <1>1, Invariant, PTL

(* No call is served that was sent without a valid token or by a user who   *)
(* has been inactive since, in whatever order calls are worked on.           *)
THEOREM StaleTokens == Spec => []StaleTokensRefused
<1>1. IInv => StaleTokensRefused
  BY DEF IInv, CallsGood, Good, Honest, StaleTokensRefused, Served, Authenticated
<1> QED
  BY <1>1, Invariant, PTL

(* Only another tab can make a tab's token differ from local storage. *)
THEOREM WriterInSync == Spec => []LastWriterInSync
<1>1. IInv => LastWriterInSync
  BY DEF IInv
<1> QED
  BY <1>1, Invariant, PTL

----------------------------------------------------------------------------
(* Entering the shell *)

Enters(before, after) == before.view # "shell" /\ after.view = "shell" => after.profile # None

(* A tab that does not become the shell, or becomes it with a profile. *)
LEMMA EndEnters ==
  ASSUME TypeOK, NEW c \in Calls, NEW tb \in Tab, End(c, tb),
         Enters(tab[call[c].tab], tb)
  PROVE  \A t \in Tabs : Enters(tab[t], tab'[t])
<1>1. Released(tb, c).view = tb.view /\ Released(tb, c).profile = tb.profile
  BY TabType
<1>2. \A t \in Tabs : tab'[t] = IF t = call[c].tab THEN Released(tb, c) ELSE tab[t]
  BY DEF TypeOK, End
<1> QED
  BY <1>1, <1>2 DEF Enters

LEMMA UseEnters ==
  ASSUME TypeOK, NEW t \in Tabs, NEW c \in Calls, Use(t, c)
  PROVE  \A x \in Tabs : Enters(tab[x], tab'[x])
<1>0. tab[t] \in Tab /\ \A tb : tab' = [tab EXCEPT ![t] = tb] =>
        /\ tab'[t] = tb
        /\ \A x \in Tabs : x # t => tab'[x] = tab[x]
  BY DEF TypeOK
<1>1. CASE UNCHANGED tab
  BY <1>1 DEF Enters
<1>2. ASSUME NEW tb, tab' = [tab EXCEPT ![t] = tb], Enters(tab[t], tb)
      PROVE  \A x \in Tabs : Enters(tab[x], tab'[x])
  BY <1>0, <1>2 DEF Enters
<1>3. ASSUME NEW u \in Users \cup {None}, SubmitLogin(t, c, u)
      PROVE  \A x \in Tabs : Enters(tab[x], tab'[x])
  <2> DEFINE tb == [tab[t] EXCEPT !.form = c]
  <2>1. tab' = [tab EXCEPT ![t] = tb]
    BY <1>3 DEF SubmitLogin
  <2>2. Enters(tab[t], tb)
    BY <1>0 DEF Tab, Enters
  <2> QED
    BY <1>2, <2>1, <2>2
<1>4. CASE Navigate(t, c)
  <2>1. CASE tab' = [tab EXCEPT ![t] = AtLogin(@)]
    <3>1. Enters(tab[t], AtLogin(tab[t]))
      BY <1>0 DEF Tab, AtLogin, Enters
    <3> QED
      BY <1>2, <2>1, <3>1
  <2>2. CASE tab[t].profile # None /\ tab' = [tab EXCEPT ![t] = InShell(@)]
    <3>1. Enters(tab[t], InShell(tab[t]))
      BY <1>0, <2>2, TabType DEF Enters
    <3> QED
      BY <1>2, <2>2, <3>1
  <2>3. CASE tab' = [tab EXCEPT ![t].nav = c]
    <3>1. Enters(tab[t], [tab[t] EXCEPT !.nav = c])
      BY <1>0 DEF Tab, Enters
    <3> QED
      BY <1>2, <2>3, <3>1
  <2> QED
    BY <1>4, <2>1, <2>2, <2>3 DEF Navigate
<1>5. CASE Reload(t, c)
  <2> DEFINE tb == [token |-> stored, profile |-> None, form |-> None,
                    view |-> IF stored = None THEN "login" ELSE "start",
                    nav |-> IF stored = None THEN None ELSE c]
  <2>1. tab' = [tab EXCEPT ![t] = tb]
    BY <1>5 DEF Reload
  <2>2. Enters(tab[t], tb)
    BY DEF Enters
  <2> HIDE DEF tb
  <2> QED
    BY <1>2, <2>1, <2>2
<1>6. CASE SignOut(t, c)
  <2>1. CASE tab' = [tab EXCEPT ![t] = AtLogin(Cleared(@))]
    <3>1. Enters(tab[t], AtLogin(Cleared(tab[t])))
      BY <1>0 DEF Tab, AtLogin, Cleared, Enters
    <3> QED
      BY <1>2, <2>1, <3>1
  <2> QED
    BY <1>1, <1>6, <2>1 DEF SignOut
<1>7. CASE Work(t, c)
  BY <1>1, <1>7 DEF Work
<1> QED
  BY <1>3, <1>4, <1>5, <1>6, <1>7 DEF Use

LEMMA ReceiveEnters ==
  ASSUME IInv, NEW c \in Calls, Receive(c)
  PROVE  \A x \in Tabs : Enters(tab[x], tab'[x])
<1> DEFINE t == call[c].tab
<1> DEFINE known == [tab[t] EXCEPT !.profile = call[c].token.user]
<1>0. TypeOK /\ t \in Tabs /\ tab[t] \in Tab
  BY DEF Receive, SignedIn, Entered, GuardPassed, Refreshed, Updated, SignedOut, WorkDone,
         SessionExpired, SignInFailed, GuardFailed, SignOutFailed, Succeeded, Answered,
         IInv, TypeOK, CallsGood, Good, WellFormed, Call
<1>1. call[c].answer = "ok" /\ call[c].phase = "answered" /\ call[c].use # "signIn"
        => known \in Tab /\ known.profile # None /\ known.view = tab[t].view
  <2>1. call[c].answer = "ok" /\ call[c].phase = "answered" /\ call[c].use # "signIn"
          => call[c].token.user \in Users
    BY DEF IInv, TypeOK, CallsGood, Good, Honest, Call, Tokens
  <2> QED
    BY <1>0, <2>1, ProfileType
<1>2. CASE SignedIn(c)
  <2>1. tab' = [tab EXCEPT ![t].token = call[c].token]
    BY <1>2 DEF SignedIn
  <2>2. \A x \in Tabs : tab[x] \in Tab /\ tab'[x] = IF x = t THEN [tab[t] EXCEPT !.token = call[c].token]
                                                  ELSE tab[x]
    BY <1>0, <2>1 DEF TypeOK
  <2> QED
    BY <2>2 DEF Tab, Enters
<1>3. CASE Entered(c)
  <2> DEFINE tb == IF known.token = None THEN AtLogin(known) ELSE InShell(known)
  <2>1. known \in Tab /\ known.profile # None
    BY <1>1, <1>3 DEF Entered, Succeeded, Answered
  <2>2. tb \in Tab /\ Enters(tab[t], tb)
    <3> HIDE DEF known
    <3>1. AtLogin(known).view = "login"
      BY <2>1 DEF Tab, AtLogin
    <3> QED
      BY <2>1, <3>1, TabType DEF Enters
  <2>3. End(c, tb)
    BY <1>3 DEF Entered
  <2> HIDE DEF tb
  <2> QED
    BY <1>0, <2>2, <2>3, EndEnters
<1>4. CASE GuardPassed(c)
  <2> DEFINE tb == IF known.nav = c THEN InShell(known) ELSE known
  <2>1. known \in Tab /\ known.profile # None
    BY <1>1, <1>4 DEF GuardPassed, Succeeded, Answered
  <2>2. tb \in Tab /\ Enters(tab[t], tb)
    <3> HIDE DEF known
    <3> QED
      BY <2>1, TabType DEF Enters
  <2>3. End(c, tb)
    BY <1>4 DEF GuardPassed
  <2> HIDE DEF tb
  <2> QED
    BY <1>0, <2>2, <2>3, EndEnters
<1>5. CASE Refreshed(c)
  <2>1. known \in Tab /\ known.profile # None
    BY <1>1, <1>5 DEF Refreshed, Succeeded, Answered
  <2>2. End(c, known)
    BY <1>5 DEF Refreshed
  <2> HIDE DEF known
  <2> QED
    BY <1>0, <2>1, <2>2, EndEnters DEF Enters
<1>6. CASE Updated(c)
  BY <1>6 DEF Updated, Enters
<1>7. CASE WorkDone(c) \/ SignInFailed(c)
  <2>1. End(c, tab[t])
    BY <1>7 DEF WorkDone, SignInFailed
  <2> QED
    BY <1>0, <2>1, EndEnters DEF Enters
<1>8. CASE SignedOut(c) \/ SessionExpired(c) \/ GuardFailed(c) \/ SignOutFailed(c)
  <2>1. \A tb \in {AtLogin(Cleared(tab[t])), Cleared(tab[t])} : tb \in Tab /\ Enters(tab[t], tb)
    <3>1. Cleared(tab[t]) \in Tab /\ Cleared(tab[t]).view = tab[t].view
      BY <1>0 DEF Tab, Cleared
    <3>2. AtLogin(Cleared(tab[t])) \in Tab /\ AtLogin(Cleared(tab[t])).view = "login"
      BY <1>0 DEF Tab, Cleared, AtLogin
    <3> QED
      BY <3>1, <3>2 DEF Enters
  <2>2. PICK tb \in {AtLogin(Cleared(tab[t])), Cleared(tab[t])} : End(c, tb)
    BY <1>8 DEF SignedOut, SessionExpired, GuardFailed, SignOutFailed
  <2> QED
    BY <1>0, <2>1, <2>2, EndEnters
<1> QED
  BY <1>2, <1>3, <1>4, <1>5, <1>6, <1>7, <1>8 DEF Receive

(* The router guard lets nobody into the shell before a profile is there.  *)
THEOREM EntersWithProfile == Spec => ShellNeedsProfile
<1>1. IInv /\ [Next]_vars => \A t \in Tabs : Enters(tab[t], tab'[t])
  <2> SUFFICES ASSUME IInv, [Next]_vars PROVE \A t \in Tabs : Enters(tab[t], tab'[t])
    OBVIOUS
  <2>1. ASSUME NEW c \in Calls, Serve(c) \/ StoreFault(c) \/ Lose(c)
        PROVE  UNCHANGED tab
    BY <2>1, ServerStep DEF IInv, browser
  <2>2. CASE UNCHANGED tab
    BY <2>2 DEF Enters
  <2>3. TypeOK
    BY DEF IInv
  <2>4. Tick \/ UNCHANGED vars => UNCHANGED tab
    BY DEF Tick, vars, browser
  <2>5. ASSUME NEW u \in Users, NEW s \in {"active", "disabled", "deleted"}, SetStatus(u, s)
        PROVE  UNCHANGED tab
    BY <2>5 DEF SetStatus, browser
  <2> QED
    BY <2>1, <2>2, <2>3, <2>4, <2>5, UseEnters, ReceiveEnters DEF Next
<1>2. IInv /\ [Next]_vars =>
        [\A t \in Tabs : tab[t].view # "shell" /\ tab'[t].view = "shell" => tab'[t].profile # None]_vars
  BY <1>1 DEF Enters
<1> QED
  BY <1>2, Invariant, PTL DEF Spec, ShellNeedsProfile
=============================================================================
