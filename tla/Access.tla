-------------------------------- MODULE Access -------------------------------
(***************************************************************************)
(* Who may do what over the web, and whether the browser finds its way in: *)
(* AuthMiddleware in front of the handlers, handleLogin, login.html and    *)
(* the calls of app.js with the token in localStorage and the cookie       *)
(* beside it.  Several tabs of one browser share both.  The server may be  *)
(* restarted with another password or with guests switched on or off while *)
(* tabs are open and requests are on their way.                            *)
(*                                                                         *)
(* A password is a value, "" is none; a missing token or cookie and an     *)
(* empty one are treated alike.  Of the endpoints there is one of each     *)
(* kind that the code tells apart.  A tab has one request at a time.       *)
(***************************************************************************)
EXTENDS Integers, FiniteSets

CONSTANTS Tabs,
          Passwords,   \* values of WEB_PASSWORD
          Links,       \* whether users open links with ?token=
          MaxFaults    \* bound on restarts and broken connections

ASSUME AccessAssumption ==
  /\ "" \in Passwords /\ Passwords \subseteq STRING
  /\ Links \in BOOLEAN /\ MaxFaults \in Nat

VARIABLES password, guestEnabled,  \* the configuration of the server
          update,   \* what restarting the program would need: Checker.Status
          closing,  \* shutdownStarted is closed: main is on its way out
          faults,
          cookie, token,  \* the cookie auth_token, localStorage.auth_token
          tabs      \* what each tab shows and waits for

configured == <<password, guestEnabled, update>>
browser    == <<cookie, token>>
accessVars == <<configured, closing, faults, browser, tabs>>

On(path, method) == [path |-> path, method |-> method]
Endpoints ==
  {On(p, "GET") : p \in {"status", "update", "stats", "providers", "csv", "results"}}
  \cup {On("stats", "DELETE"), On("providers", "POST"), On("restart", "POST")}
Login == On("login", "POST")
None  == On("none", "GET")

(* "guest" is isGuest of app.js, which is true at first; "button" offers    *)
(* the restart, as the server with that number of faults said.             *)
NoCall == [e |-> None, token |-> "", at |-> "none", answer |-> 0]
Fresh(at) == [at |-> at, guest |-> TRUE, button |-> FALSE, said |-> 0, call |-> NoCall]

AccessTypeOK ==
  /\ password \in Passwords /\ cookie \in Passwords /\ token \in Passwords
  /\ guestEnabled \in BOOLEAN /\ update \in {"none", "unsupported", "staged"}
  /\ closing \in BOOLEAN /\ faults \in 0..MaxFaults
  /\ \A t \in Tabs :
       /\ tabs[t].at \in {"blank", "login", "page", "loading", "dashboard", "error"}
       /\ tabs[t].guest \in BOOLEAN /\ tabs[t].said \in 0..faults
       /\ tabs[t].call.at \in {"none", "sent", "answered"}
       /\ tabs[t].at \in {"blank", "page", "error"} => tabs[t].call.at = "none"
       /\ tabs[t].button => tabs[t].at \in {"loading", "dashboard", "error"}

AccessInit ==
  /\ password \in Passwords /\ guestEnabled \in BOOLEAN /\ update = "none"
  /\ closing = FALSE /\ faults = 0
  /\ cookie = "" /\ token = ""
  /\ tabs = [t \in Tabs |-> Fresh("blank")]

----------------------------------------------------------------------------
(* The middleware. *)
IsGuestAllowedPath(path) == path \in {"status", "update", "stats", "providers", "csv"}

GuestMay(e) == e.method = "GET" /\ IsGuestAllowedPath(e.path)

Treated_GuestFirst(e, tok) ==
  IF password = "" THEN "full"
  ELSE IF guestEnabled /\ GuestMay(e) THEN "guest"
  ELSE IF tok = password THEN "full" ELSE "refused"
Treated(e, tok) ==
  IF password = "" \/ tok = password THEN "full"
  ELSE IF guestEnabled /\ GuestMay(e) THEN "guest" ELSE "refused"

PageIsServed == password = "" \/ cookie = password \/ guestEnabled

(* The handlers. *)
RestartAllowed_NoPassword(as) == as # "guest"
RestartAllowed(as) == password # "" /\ as # "guest"

(* requestRestart is told main's answer, or that the shutdown has begun.   *)
(* Where restarting is not supported, or the executable was not found,     *)
(* nothing is ever staged.                                                 *)
RestartCode ==
  IF update = "unsupported" THEN 501
  ELSE IF update # "staged" THEN 409 ELSE IF closing THEN 503 ELSE 202

Code(e, as) ==
  IF as = "refused" \/ (as = "guest" /\ e.path \in {"csv", "results", "restart"}) THEN 401
  ELSE IF e.path # "restart" THEN 200
  ELSE IF password = "" THEN 403 ELSE RestartCode

Secret(e, as) == e.path \in {"csv", "results"} \/ (e.path = "providers" /\ as = "full")

(* The code, whether base URLs, keys or single results are told, and what  *)
(* the update endpoint says.                                               *)
Answer(e, tok) ==
  LET as   == Treated(e, tok)
      code == Code(e, as)
  IN [as |-> as, code |-> code, secret |-> code = 200 /\ e.method = "GET" /\ Secret(e, as),
      offer |-> update = "staged" /\ RestartAllowed(as), said |-> faults]

(* checkAndStage; it does nothing any more once an update is staged. *)
Stage ==
  /\ update # "staged"
  /\ update' \in {"none", "unsupported", "staged"}
  /\ UNCHANGED <<password, guestEnabled, closing, faults, browser, tabs>>

(* A signal, or the end of the TUI.  Requests are still answered, until    *)
(* the web server is stopped.                                              *)
ProgramLeaves ==
  /\ ~closing
  /\ closing' = TRUE
  /\ UNCHANGED <<configured, faults, browser, tabs>>

(* A call fails: loadDashboard gives up with the status and the            *)
(* statistics, and without the update shows no panel.                      *)
Failed(tab) ==
  [tab EXCEPT !.call = NoCall,
              !.at = CASE @ = "loading" /\ tab.call.e.path = "update" -> "dashboard"
                       [] @ = "loading" /\ tab.call.e.path # "update" -> "error"
                       [] OTHER -> @,
              !.button = @ /\ tab.call.e.path # "update"]

(* The program comes back, after a crash or the way out it was on.         *)
(* Requests that were not answered fail.                                   *)
Restarted(p, g) ==
  /\ faults < MaxFaults
  /\ faults' = faults + 1
  /\ password' = p /\ guestEnabled' = g /\ update' = "none" /\ closing' = FALSE
  /\ tabs' = [t \in Tabs |-> IF tabs[t].call.at = "sent" THEN Failed(tabs[t]) ELSE tabs[t]]
  /\ UNCHANGED browser

LoginAnswer(tok) == [as |-> "none", code |-> IF tok = password THEN 200 ELSE 401,
                     secret |-> FALSE, offer |-> FALSE, said |-> faults]

(* A restart that is granted takes main out of its select. *)
Served(t) ==
  LET c == tabs[t].call IN
  /\ c.at = "sent"
  /\ closing' = (closing \/ (c.e.path = "restart" /\ Answer(c.e, c.token).code = 202))
  /\ tabs' = [tabs EXCEPT ![t].call.at = "answered",
                          ![t].call.answer = IF c.e = Login THEN LoginAnswer(c.token) ELSE Answer(c.e, c.token)]
  /\ UNCHANGED <<configured, faults, browser>>

----------------------------------------------------------------------------
(* The browser asks for "/": after the login, by the user's "refresh".      *)
Show(t, tab) == tabs' = [tabs EXCEPT ![t] = tab]
Sent(e, tok) == [NoCall EXCEPT !.e = e, !.token = tok, !.at = "sent"]

OpenPage(t) ==
  /\ tabs[t].at \in {"blank", "dashboard", "error"} /\ tabs[t].call.at = "none"
  /\ Show(t, Fresh("page"))
  /\ UNCHANGED <<configured, closing, faults, browser>>

(* With a link the cookie is set on the way, by the middleware that there  *)
(* is with a password only.                                                *)
OpenLink(t) ==
  /\ Links /\ tabs[t].at = "blank"
  /\ cookie' = IF password = "" THEN cookie ELSE password
  /\ Show(t, Fresh("page"))
  /\ UNCHANGED <<configured, closing, faults, token>>

(* index.html, style.css and app.js, or the redirect to /login.html. *)
PageArrives(t) ==
  /\ tabs[t].at = "page"
  /\ Show(t, IF PageIsServed THEN [Fresh("loading") EXCEPT !.call = Sent(On("status", "GET"), token)]
             ELSE Fresh("login"))
  /\ UNCHANGED <<configured, closing, faults, browser>>

(* The field is "required": the form does not send an empty password. *)
SubmitLogin(t, typed) ==
  /\ tabs[t].at = "login" /\ tabs[t].call.at = "none"
  /\ typed # ""
  /\ Show(t, [Fresh("login") EXCEPT !.call = Sent(Login, typed)])
  /\ UNCHANGED <<configured, closing, faults, browser>>

LoginCookie_Forgotten(c) == cookie
LoginCookie(c) == IF c.answer.code = 200 THEN c.token ELSE cookie

LoggedIn(t) ==
  LET c == tabs[t].call IN
  /\ c.e = Login /\ c.at = "answered"
  /\ cookie' = LoginCookie(c)
  /\ \/ /\ c.answer.code = 200
        /\ token' = c.token
        /\ Show(t, Fresh("page"))
     \/ /\ c.answer.code = 401
        /\ Show(t, Fresh("login"))
        /\ UNCHANGED token
  /\ UNCHANGED <<configured, closing, faults>>

(* "Connection error": the header with the cookie has come, not the body. *)
LoginBreaks(t) ==
  LET c == tabs[t].call IN
  /\ c.e = Login /\ c.at = "answered" /\ faults < MaxFaults
  /\ faults' = faults + 1
  /\ cookie' = LoginCookie(c)
  /\ Show(t, Fresh("login"))
  /\ UNCHANGED <<configured, closing, token>>

(* Navigating to the dashboard, and after a trigger. *)
LoadDashboard(t) ==
  /\ tabs[t].at \in {"dashboard", "error"} /\ tabs[t].call.at = "none"
  /\ Show(t, [tabs[t] EXCEPT !.at = "loading", !.call = Sent(On("status", "GET"), token)])
  /\ UNCHANGED <<configured, closing, faults, browser>>

(* Buttons that guests are not shown. *)
ForMembers == Endpoints \ {On(p, "GET") : p \in {"status", "update", "stats", "providers"}}

Press(t, e) ==
  /\ tabs[t].at = "dashboard" /\ tabs[t].call.at = "none"
  /\ e \in ForMembers => ~tabs[t].guest
  /\ e.path = "restart" => tabs[t].button
  /\ Show(t, [tabs[t] EXCEPT !.call = Sent(e, token)])
  /\ UNCHANGED <<configured, closing, faults, browser>>

(* apiCall: a 401 sends one who was known not to be a guest to the login.   *)
Expires(t) ==
  LET c == tabs[t].call IN
  c.answer.code = 401 /\ ~tabs[t].guest /\ c.token # "" /\ c.e.path # "csv"

Answered(t) == tabs[t].call.at = "answered" /\ tabs[t].call.e # Login

SessionExpired(t) ==
  /\ Answered(t) /\ Expires(t)
  /\ token' = ""
  /\ Show(t, Fresh("login"))
  /\ UNCHANGED <<configured, closing, faults, cookie>>

Refused(t) ==
  /\ Answered(t) /\ ~Expires(t) /\ tabs[t].call.answer.code \notin {200, 202}
  /\ Show(t, Failed(tabs[t]))
  /\ UNCHANGED <<configured, closing, faults, browser>>

(* loadDashboard: status, statistics and the update, one after the other. *)
Arrived(t) ==
  LET c == tabs[t].call
      a == c.answer
      tab == [tabs[t] EXCEPT !.call = NoCall] IN
  /\ Answered(t) /\ a.code \in {200, 202}
  /\ Show(t,
       CASE tab.at = "loading" /\ c.e.path = "status" ->
              [tab EXCEPT !.guest = a.as = "guest", !.call = Sent(On("stats", "GET"), token)]
         [] tab.at = "loading" /\ c.e.path = "stats" ->
              [tab EXCEPT !.call = Sent(On("update", "GET"), token)]
         [] tab.at = "loading" /\ c.e.path = "update" ->
              [tab EXCEPT !.at = "dashboard", !.said = a.said,
                          !.button = ~tab.guest /\ a.offer]
         [] OTHER -> tab)
  /\ UNCHANGED <<configured, closing, faults, browser>>

Steps(t) == Served(t) \/ PageArrives(t) \/ LoggedIn(t) \/ SessionExpired(t) \/ Refused(t) \/ Arrived(t)
Refresh(t) == tabs[t].at = "error" /\ OpenPage(t)

AccessNext ==
  \/ Stage \/ ProgramLeaves
  \/ \E p \in Passwords, g \in BOOLEAN : Restarted(p, g)
  \/ \E t \in Tabs : \/ Steps(t) \/ OpenPage(t) \/ OpenLink(t) \/ LoginBreaks(t) \/ LoadDashboard(t)
                     \/ \E typed \in Passwords : SubmitLogin(t, typed)
                     \/ \E e \in Endpoints : Press(t, e)

AccessSpec == AccessInit /\ [][AccessNext]_accessVars /\ \A t \in Tabs : WF_accessVars(Steps(t))

(* Who is asked for a login types the right password in the end, and       *)
(* refreshes where the page says so.                                       *)
LogIn(t) == SubmitLogin(t, password)
PatientSpec == AccessSpec /\ \A t \in Tabs : SF_accessVars(LogIn(t)) /\ SF_accessVars(Refresh(t))
RefreshingSpec == AccessSpec /\ \A t \in Tabs : SF_accessVars(Refresh(t))

----------------------------------------------------------------------------
(* README:149, "read-only guest access without sensitive data": whatever   *)
(* anybody sends without the password changes nothing and is told no       *)
(* secret, and gets nothing at all where guests are off.  Who has the      *)
(* password is never refused for want of it, nor taken for a guest.        *)
AccessIsRight ==
  \A e \in Endpoints :
    /\ Answer(e, password).as = "full" /\ Answer(e, password).code # 401
    /\ \A tok \in Passwords \ {password} :
         password # "" /\ Answer(e, tok).code < 300 =>
           guestEnabled /\ e.method = "GET" /\ ~Answer(e, tok).secret

(* With one tab, a restart that the dashboard offers is granted, unless    *)
(* the server was restarted since; only if the program is on its way out   *)
(* already, by a signal, the TUI or an earlier restart, it is refused, and *)
(* for no other reason (503, never 401, 403, 409 or 501).                  *)
OfferedRestartsAreGranted ==
  \A t \in Tabs : tabs[t].at = "dashboard" /\ tabs[t].button /\ tabs[t].said = faults =>
    Answer(On("restart", "POST"), token).code = IF closing THEN 503 ELSE 202

(* With one tab, a user at the login page gets to the dashboard, through   *)
(* broken connections, wrong passwords and changes of the password, unless *)
(* the server comes back without one: then no login succeeds, since the    *)
(* form sends none and handleLogin compares with "".                       *)
LoginLeadsIn ==
  \A t \in Tabs : tabs[t].at = "login" ~> (tabs[t].at = "dashboard" \/ password = "")

(* app.js: "Service status is unavailable", "Refresh the page to try       *)
(* again.": then it helps in the end, or leads to the login.               *)
RefreshHelps == \A t \in Tabs : tabs[t].at = "error" ~> tabs[t].at \in {"dashboard", "login"}
=============================================================================
