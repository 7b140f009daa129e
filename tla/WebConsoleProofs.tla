--------------------------- MODULE WebConsoleProofs ---------------------------
(***************************************************************************)
(* The console's web process beside bootstrap-admin and notify-worker, for  *)
(* any admins, browsers, alerts and settings, any number of requests, resets *)
(* and deaths of the process.                                               *)
(***************************************************************************)
EXTENDS WebConsole, TLAPS

Cookies == [user : Admins \cup {Blank}, csrf : Nat]
Pages == [cookie : Cookies, alert : Alerts \cup {Blank}]
Kinds == {"none", "login", "status", "save", "chat"}
Values == Admins \cup Alerts \cup Statuses \cup Passwords \cup Tokens \cup Chats \cup {Blank}
Tasks == [kind : Kinds, cookie : Cookies, form : Cookies, about : Values, seen : Values,
          value : Values]
Changes == [from : Statuses, to : Statuses, by : Admins \cup {Blank}]

-----------------------------------------------------------------------------
(* The invariant, a part for each of the rows that are shared.              *)

\* One handler has the event loop, and knows what it works on.
TaskInv ==
    /\ task \in [Browsers -> Tasks]
    /\ \A b, c \in Browsers : task[b].kind # "none" /\ task[c].kind # "none" => b = c
    /\ \A b \in Browsers :
         /\ task[b].kind = "login" => task[b].about \in Admins /\ task[b].seen \in Passwords
         /\ task[b].kind = "status" => /\ task[b].about \in Alerts
                                       /\ {task[b].seen, task[b].value} \subseteq Statuses
         /\ task[b].kind \in {"save", "chat"} => /\ task[b].about \in Chats \cup {Blank}
                                                /\ task[b].value \in Tokens \cup {Blank}
                                                /\ task[b].seen \in Tokens \cup {Blank}

\* The status a handler has read is still the alert's.
DeskInv ==
    /\ triage \in [Alerts -> Statuses] /\ history \in [Alerts -> Seq(Changes)]
    /\ \A b \in Browsers : task[b].kind = "status" => task[b].seen = triage[task[b].about]
    /\ HistoryChains

\* Wherever a cookie is held, its form token tells it from every other one.
Held(b) == {session[b], page[b].cookie, fetch[b].cookie, task[b].cookie, task[b].form}
CookieInv ==
    /\ session \in [Browsers -> Cookies] /\ logins \in Nat
    /\ page \in [Browsers -> Pages] /\ fetch \in [Browsers -> Pages]
    /\ \A b \in Browsers : \A c \in Held(b) : c.csrf <= logins /\ (c.csrf = 0 => c = NoCookie)
    /\ \A b, d \in Browsers : \A c \in Held(b), e \in Held(d) : c.csrf = e.csrf => c = e

\* A password about to be written back is the one bootstrap-admin set last, or
\* the race is known.
LoginInv ==
    /\ hash \in [Admins -> Passwords] /\ chosen \in [Admins -> Passwords] /\ raced \subseteq Admins
    /\ \A b \in Browsers : task[b].kind = "login" =>
         task[b].seen = chosen[task[b].about] \/ task[b].about \in raced
    /\ PasswordsStick

\* Between the saves the stored pair is one that was saved; within one, the token
\* is that of the pair to come.
Kept(b) == task[b].about # Blank /\ task[b].value = Blank
NewToken(b) == IF Kept(b) THEN task[b].seen
               ELSE IF task[b].about = Blank THEN Blank ELSE task[b].value
SaveInv ==
    /\ stored \in (Tokens \cup {Blank}) \X (Chats \cup {Blank})
    /\ \A b \in Browsers :
         /\ task[b].kind = "save" /\ Kept(b) => task[b].seen = stored[1]
         /\ task[b].kind = "chat" => stored[1] = NewToken(b)
    /\ ~cut /\ ~HalfSaved => stored \in saved \cup {NoPair}

\* What the worker has read is what is stored, unless the reads are torn.
WorkerInv ==
    /\ worker \in [at : {"idle", "reading"}, token : Tokens \cup {Blank},
                   pair : ((Tokens \cup {Blank}) \X (Chats \cup {Blank})) \cup {EnvPair}]
    /\ torn \in BOOLEAN /\ cut \in BOOLEAN
    /\ worker.at = "reading" /\ ~torn => worker.token = stored[1] /\ ~cut /\ ~HalfSaved
    /\ PairsAreSaved

WebInv ==
    TaskInv /\ DeskInv /\ CookieInv /\ LoginInv /\ SaveInv /\ WorkerInv /\ FormsNameTheirAuthor

-----------------------------------------------------------------------------
LEMMA NoTaskType == NoTask \in Tasks /\ NoTask.kind = "none" /\ NoTask.cookie = NoCookie
                      /\ NoTask.form = NoCookie
BY DEF NoTask, Tasks, Kinds, Cookies, Values, NoCookie

LEMMA WebInvInit == WebAssumption /\ Init => WebInv
<1> SUFFICES ASSUME WebAssumption, Init PROVE WebInv
  OBVIOUS
<1>1. task = [b \in Browsers |-> NoTask] /\ fetch = page /\ page = [b \in Browsers |-> NoPage]
  BY DEF Init
<1>2. TaskInv
  BY <1>1, NoTaskType DEF TaskInv
<1>3. DeskInv
  <2>1. triage \in [Alerts -> Statuses] /\ history \in [Alerts -> Seq(Changes)]
    BY DEF Init, WebAssumption
  <2>2. HistoryChains
    BY DEF Init, HistoryChains
  <2> QED
    BY <1>1, <2>1, <2>2, NoTaskType DEF DeskInv
<1>4. CookieInv
  <2>1. PICK u \in Admins : FirstCookies \in [Browsers -> {NoCookie, [user |-> u, csrf |-> 1]}]
    BY DEF WebAssumption
  <2>2. \A b \in Browsers : Held(b) \subseteq {NoCookie, [user |-> u, csrf |-> 1]}
    BY <1>1, <2>1, NoTaskType DEF Held, Init, NoPage
  <2>3. NoCookie.csrf = 0 /\ NoCookie \in Cookies /\ [user |-> u, csrf |-> 1] \in Cookies
    BY DEF NoCookie, Cookies
  <2>4. page \in [Browsers -> Pages] /\ session \in [Browsers -> Cookies] /\ logins = 1
    BY <1>1, <2>1, <2>3 DEF Pages, NoPage, Init
  <2> QED
    BY <1>1, <2>2, <2>3, <2>4 DEF CookieInv
<1>5. LoginInv
  BY <1>1, NoTaskType DEF LoginInv, PasswordsStick, Init, WebAssumption
<1>6. SaveInv
  BY <1>1, NoTaskType DEF SaveInv, NoPair, Init
<1>7. WorkerInv
  BY DEF WorkerInv, IdleWorker, NoPair, PairsAreSaved, Init
<1>8. FormsNameTheirAuthor
  BY <1>1, NoTaskType DEF FormsNameTheirAuthor
<1> QED
  BY <1>2, <1>3, <1>4, <1>5, <1>6, <1>7, <1>8 DEF WebInv

-----------------------------------------------------------------------------
(* What a step does to the handlers.                                        *)

\* A handler goes on as it is, ends, or has written the first of two settings.
Continues(b) ==
    \/ task'[b] = task[b] \/ task'[b] = NoTask
    \/ task[b].kind = "save" /\ task'[b] = [task[b] EXCEPT !.kind = "chat"]

LEMMA HandlersEnd ==
    ASSUME TaskInv,
           \/ \E b \in Browsers : \/ LoginEstablish(b) \/ StatusWrite(b)
                                  \/ SaveToken(b) \/ SaveChat(b)
           \/ WebCrash
    PROVE  task' \in [Browsers -> Tasks] /\ \A b \in Browsers : Continues(b)
<1>1. task \in [Browsers -> Tasks]
  BY DEF TaskInv
<1>2. CASE WebCrash
  BY <1>1, <1>2, NoTaskType DEF WebCrash, Continues
<1>3. ASSUME NEW b \in Browsers, task' = [task EXCEPT ![b] = NoTask]
      PROVE  task' \in [Browsers -> Tasks] /\ \A c \in Browsers : Continues(c)
  BY <1>1, <1>3, NoTaskType DEF Continues
<1>4. ASSUME NEW b \in Browsers, task[b].kind = "save", task' = [task EXCEPT ![b].kind = "chat"]
      PROVE  task' \in [Browsers -> Tasks] /\ \A c \in Browsers : Continues(c)
  <2>1. task'[b] = [task[b] EXCEPT !.kind = "chat"] /\ \A c \in Browsers : c # b => task'[c] = task[c]
    BY <1>1, <1>4
  <2>2. [task[b] EXCEPT !.kind = "chat"] \in Tasks
    BY <1>1 DEF Tasks, Kinds
  <2> QED
    BY <1>1, <1>4, <2>1, <2>2 DEF Continues
<1>5. ASSUME NEW b \in Browsers, LoginEstablish(b) \/ StatusWrite(b) \/ SaveToken(b) \/ SaveChat(b)
      PROVE  task' \in [Browsers -> Tasks] /\ \A c \in Browsers : Continues(c)
  BY <1>3, <1>4, <1>5 DEF LoginEstablish, StatusWrite, SaveToken, SaveChat, Finish
<1> QED
  BY <1>2, <1>5

\* The handler of browser b begins, the only one.
Begun(b, kind, about, seen, value) ==
    /\ task' \in [Browsers -> Tasks]
    /\ task'[b] = [kind |-> kind, cookie |-> session[b], form |-> page[b].cookie,
                    about |-> about, seen |-> seen, value |-> value]
    /\ \A c \in Browsers : task[c].kind = "none" /\ (c # b => task'[c] = task[c])

LEMMA HandlerBegins ==
    ASSUME TaskInv, CookieInv, NEW b \in Browsers, MayRun(b), NEW kind \in Kinds,
           NEW about \in Values, NEW seen \in Values, NEW value \in Values,
           Begin(b, kind, about, seen, value)
    PROVE  Begun(b, kind, about, seen, value)
<1>1. task \in [Browsers -> Tasks] /\ session[b] \in Cookies /\ page[b].cookie \in Cookies
  BY DEF TaskInv, CookieInv, Pages
<1>2. [kind |-> kind, cookie |-> session[b], form |-> page[b].cookie,
       about |-> about, seen |-> seen, value |-> value] \in Tasks
  BY <1>1 DEF Tasks
<1> QED
  BY <1>1, <1>2 DEF Begin, MayRun, LoopFree, Begun

LEMMA LoginBegins ==
    ASSUME WebInv, NEW b \in Browsers, NEW u \in Admins, LoginVerify(b, u)
    PROVE  Begun(b, "login", u, hash[u], Blank) /\ hash[u] \in Passwords
<1>1. /\ "login" \in Kinds /\ hash[u] \in Passwords
      /\ u \in Values /\ hash[u] \in Values /\ Blank \in Values
  BY DEF Kinds, Values, WebInv, LoginInv
<1> QED
  BY <1>1, HandlerBegins DEF LoginVerify, WebInv

LEMMA StatusBegins ==
    ASSUME WebInv, NEW b \in Browsers, NEW to \in Statuses, StatusRead(b, to)
    PROVE  /\ Begun(b, "status", page[b].alert, triage[page[b].alert], to)
           /\ page[b].alert \in Alerts /\ triage[page[b].alert] \in Statuses
<1>1. page[b].alert \in Alerts /\ triage[page[b].alert] \in Statuses
  BY DEF StatusRead, WebInv, DeskInv
<1>2. /\ "status" \in Kinds /\ page[b].alert \in Values
      /\ triage[page[b].alert] \in Values /\ to \in Values
  BY <1>1 DEF Kinds, Values
<1> QED
  BY <1>1, <1>2, HandlerBegins DEF StatusRead, WebInv

LEMMA SaveBegins ==
    ASSUME WebInv, NEW b \in Browsers, NEW token \in Tokens \cup {Blank},
           NEW chat \in Chats \cup {Blank}, SaveBegin(b, token, chat)
    PROVE  /\ Begun(b, "save", chat, IF chat = Blank THEN Blank ELSE stored[1], token)
           /\ stored[1] \in Tokens \cup {Blank}
<1>1. stored[1] \in Tokens \cup {Blank}
  BY DEF WebInv, SaveInv
<1>2. /\ "save" \in Kinds /\ chat \in Values /\ token \in Values
      /\ (IF chat = Blank THEN Blank ELSE stored[1]) \in Values
  BY <1>1 DEF Kinds, Values
<1> QED
  BY <1>1, <1>2, HandlerBegins DEF SaveBegin, WebInv

\* A history h is a chain that ends in the status t.
Follows(h, t) ==
    /\ t = IF h = <<>> THEN "new" ELSE h[Len(h)].to
    /\ \A i \in DOMAIN h : h[i].from = IF i = 1 THEN "new" ELSE h[i - 1].to

\* A change from the status a chain ends in makes it a longer chain.
LEMMA ChainGrows ==
    ASSUME NEW h \in Seq(Changes), NEW t, Follows(h, t), NEW e \in Changes, e.from = t
    PROVE  Append(h, e) \in Seq(Changes) /\ Follows(Append(h, e), e.to)
<1> DEFINE g == Append(h, e)
<1>1. /\ g \in Seq(Changes) /\ g # <<>>
      /\ Len(g) = Len(h) + 1 /\ DOMAIN g = 1 .. Len(h) + 1
      /\ g[Len(h) + 1] = e /\ \A i \in 1 .. Len(h) : g[i] = h[i]
      /\ Len(h) \in Nat /\ DOMAIN h = 1 .. Len(h) /\ (h = <<>> <=> Len(h) = 0)
  OBVIOUS
<1> HIDE DEF g
<1>2. ASSUME NEW i \in 1 .. Len(h) + 1
      PROVE  g[i].from = IF i = 1 THEN "new" ELSE g[i - 1].to
  <2>1. CASE i = Len(h) + 1
    BY <1>1, <2>1 DEF Follows
  <2>2. CASE i \in 1 .. Len(h)
    BY <1>1, <2>2 DEF Follows
  <2> QED
    BY <1>1, <2>1, <2>2
<1>3. g \in Seq(Changes) /\ Follows(g, e.to)
  BY <1>1, <1>2 DEF Follows
<1> QED
  BY <1>3 DEF g

LEMMA TaskStep == WebAssumption /\ WebInv /\ [Next]_vars => TaskInv'
<1> SUFFICES ASSUME WebAssumption, WebInv, [Next]_vars
             PROVE  TaskInv'
  OBVIOUS
<1> USE DEF WebInv, TaskInv, deskVars, adminVars, webVars, saveVars
<1>e. ASSUME task' \in [Browsers -> Tasks], \A b \in Browsers : Continues(b)
      PROVE  TaskInv'
  BY <1>e, NoTaskType DEF Continues, Tasks
<1>1. ASSUME NEW b \in Browsers, NEW u \in Admins, LoginVerify(b, u)
      PROVE  TaskInv'
  <2>3. Begun(b, "login", u, hash[u], Blank) /\ hash[u] \in Passwords
    BY <1>1, LoginBegins
  <2> QED
    BY <2>3 DEF Begun
<1>2. ASSUME NEW b \in Browsers, LoginEstablish(b)
      PROVE  TaskInv'
  <2>1. task' \in [Browsers -> Tasks] /\ \A c \in Browsers : Continues(c)
    BY <1>2, HandlersEnd
  <2> QED
    BY <1>2, <2>1, <1>e DEF LoginEstablish, Respond, NewCookie
<1>3. ASSUME NEW b \in Browsers, NEW to \in Statuses, StatusRead(b, to)
      PROVE  TaskInv'
  <2>3. /\ Begun(b, "status", page[b].alert, triage[page[b].alert], to)
        /\ page[b].alert \in Alerts /\ triage[page[b].alert] \in Statuses
    BY <1>3, StatusBegins
  <2> QED
    BY <2>3 DEF Begun
<1>4. ASSUME NEW b \in Browsers, StatusWrite(b)
      PROVE  TaskInv'
  <2>1. task' \in [Browsers -> Tasks] /\ \A c \in Browsers : Continues(c)
    BY <1>4, HandlersEnd
  <2> QED
    BY <1>4, <2>1, <1>e DEF StatusWrite, Finish, Respond
<1>5. ASSUME NEW b \in Browsers, NEW token \in Tokens \cup {Blank},
             NEW chat \in Chats \cup {Blank}, SaveBegin(b, token, chat)
      PROVE  TaskInv'
  <2>3. /\ Begun(b, "save", chat, IF chat = Blank THEN Blank ELSE stored[1], token)
        /\ stored[1] \in Tokens \cup {Blank}
    BY <1>5, SaveBegins
  <2> QED
    BY <2>3 DEF Begun
<1>6. ASSUME NEW b \in Browsers, SaveToken(b)
      PROVE  TaskInv'
  <2>1. task' \in [Browsers -> Tasks] /\ \A c \in Browsers : Continues(c)
    BY <1>6, HandlersEnd
  <2> QED
    BY <1>6, <2>1, <1>e DEF SaveToken, Finish, Respond, Overlap
<1>7. ASSUME NEW b \in Browsers, SaveChat(b)
      PROVE  TaskInv'
  <2>1. task' \in [Browsers -> Tasks] /\ \A c \in Browsers : Continues(c)
    BY <1>7, HandlersEnd
  <2> QED
    BY <1>7, <2>1, <1>e DEF SaveChat, Finish, Respond, Overlap
<1>8. CASE WebCrash
  <2>1. task' \in [Browsers -> Tasks] /\ \A c \in Browsers : Continues(c)
    BY <1>8, HandlersEnd
  <2> QED
    BY <1>8, <2>1, <1>e DEF WebCrash, HalfSaved
<1>9. CASE UNCHANGED <<task>>
  BY <1>9
<1>10. ASSUME NEW b \in Browsers, Logout(b)
      PROVE  TaskInv'
  BY <1>10, <1>9 DEF Logout, MayRun, LoopFree, Respond
<1>11. ASSUME NEW b \in Browsers, NEW a \in Alerts, PageBegin(b, a)
      PROVE  TaskInv'
  BY <1>11, <1>9 DEF PageBegin
<1>12. ASSUME NEW b \in Browsers, PageShow(b)
      PROVE  TaskInv'
  BY <1>12, <1>9 DEF PageShow, Respond
<1>13. ASSUME NEW b \in Browsers, AddNote(b)
      PROVE  TaskInv'
  BY <1>13, <1>9 DEF AddNote
<1>14. ASSUME NEW b \in Browsers, CreateRule(b)
      PROVE  TaskInv'
  BY <1>14, <1>9 DEF CreateRule
<1>15. ASSUME NEW b \in Browsers, NEW r \in DOMAIN rules, DeactivateRule(b, r)
      PROVE  TaskInv'
  BY <1>15, <1>9 DEF DeactivateRule
<1>16. ASSUME NEW u \in Admins, NEW p \in Passwords, SetPassword(u, p)
      PROVE  TaskInv'
  BY <1>16, <1>9 DEF SetPassword
<1>17. CASE ReadToken
  BY <1>17, <1>9 DEF ReadToken
<1>18. CASE ReadChat
  BY <1>18, <1>9 DEF ReadChat
<1>19. CASE UNCHANGED vars
  BY <1>19, <1>9 DEF vars
<1> QED
  BY <1>1, <1>2, <1>3, <1>4, <1>5, <1>6, <1>7, <1>8, <1>10, <1>11, <1>12, <1>13, <1>14, <1>15,
     <1>16, <1>17, <1>18, <1>19
     DEF Next, LoopStep, WorkerStep

LEMMA DeskStep == WebAssumption /\ WebInv /\ [Next]_vars => DeskInv'
<1> SUFFICES ASSUME WebAssumption, WebInv, [Next]_vars
             PROVE  DeskInv'
  OBVIOUS
<1> USE DEF WebInv, TaskInv, deskVars, adminVars, webVars, saveVars, DeskInv, HistoryChains
<1>e. ASSUME task' \in [Browsers -> Tasks], \A b \in Browsers : Continues(b),
             UNCHANGED <<triage, history>>
      PROVE  DeskInv'
  BY <1>e, NoTaskType DEF Continues, Tasks
<1>b. ASSUME NEW b \in Browsers, UNCHANGED <<triage, history>>,
             task'[b].kind = "status" => task'[b].seen = triage[task'[b].about],
             \A c \in Browsers : c # b => task'[c] = task[c]
      PROVE  DeskInv'
  <2>1. HistoryChains' /\ triage' \in [Alerts -> Statuses] /\ history' \in [Alerts -> Seq(Changes)]
    BY <1>b
  <2>2. \A c \in Browsers : task'[c].kind = "status" => task'[c].seen = triage[task'[c].about]
    BY <1>b
  <2> QED
    BY <1>b, <2>1, <2>2
<1>1. ASSUME NEW b \in Browsers, NEW u \in Admins, LoginVerify(b, u)
      PROVE  DeskInv'
  <2>3. Begun(b, "login", u, hash[u], Blank) /\ hash[u] \in Passwords
    BY <1>1, LoginBegins
  <2>4. UNCHANGED <<triage, history>>
    BY <1>1 DEF LoginVerify
  <2>5. task'[b].kind = "status" => task'[b].seen = triage[task'[b].about]
    BY <2>3 DEF Begun
  <2> QED
    BY <2>3, <2>4, <2>5, <1>b DEF Begun
<1>2. ASSUME NEW b \in Browsers, LoginEstablish(b)
      PROVE  DeskInv'
  <2>1. task' \in [Browsers -> Tasks] /\ \A c \in Browsers : Continues(c)
    BY <1>2, HandlersEnd
  <2> QED
    BY <1>2, <2>1, <1>e DEF LoginEstablish, Respond, NewCookie
<1>3. ASSUME NEW b \in Browsers, NEW to \in Statuses, StatusRead(b, to)
      PROVE  DeskInv'
  <2>3. /\ Begun(b, "status", page[b].alert, triage[page[b].alert], to)
        /\ page[b].alert \in Alerts /\ triage[page[b].alert] \in Statuses
    BY <1>3, StatusBegins
  <2>4. UNCHANGED <<triage, history>>
    BY <1>3 DEF StatusRead
  <2>5. task'[b].kind = "status" => task'[b].seen = triage[task'[b].about]
    BY <2>3 DEF Begun
  <2> QED
    BY <2>3, <2>4, <2>5, <1>b DEF Begun
<1>4. ASSUME NEW b \in Browsers, StatusWrite(b)
      PROVE  DeskInv'
  <2> DEFINE a == task[b].about
             e == [from |-> task[b].seen, to |-> task[b].value, by |-> task[b].cookie.user]
  <2>1. a \in Alerts /\ e \in Changes /\ task[b].value \in Statuses /\ e.from = triage[a]
    BY <1>4 DEF StatusWrite, Changes, Tasks, Cookies
  <2>2. \A c \in Browsers : task'[c].kind = "none"
    BY <1>4, NoTaskType DEF StatusWrite, Finish
  <2>3. /\ triage' = [triage EXCEPT ![a] = e.to] /\ history' = [history EXCEPT ![a] = Append(@, e)]
    BY <1>4 DEF StatusWrite
  <2> HIDE DEF a, e
  <2>4. history[a] \in Seq(Changes) /\ e.to \in Statuses
    BY <2>1 DEF Changes
  <2>5. ASSUME NEW x \in Alerts, x # a
        PROVE  history'[x] = history[x] /\ triage'[x] = triage[x]
    BY <2>3, <2>5
  <2>6. history'[a] = Append(history[a], e) /\ triage'[a] = e.to
    BY <2>1, <2>3
  <2>7. triage' \in [Alerts -> Statuses] /\ history' \in [Alerts -> Seq(Changes)]
    BY <2>1, <2>3, <2>4, ChainGrows
  <2>8. Follows(history[a], triage[a])
    BY <2>1 DEF Follows
  <2>9. Follows(history'[a], triage'[a])
    BY <2>1, <2>4, <2>6, <2>8, ChainGrows
  <2>10. HistoryChains'
    BY <2>5, <2>9 DEF Follows
  <2>11. \A c \in Browsers : task'[c].kind # "status"
    BY <2>2
  <2> QED
    BY <2>2, <2>7, <2>10, <2>11
<1>5. ASSUME NEW b \in Browsers, NEW token \in Tokens \cup {Blank},
             NEW chat \in Chats \cup {Blank}, SaveBegin(b, token, chat)
      PROVE  DeskInv'
  <2>3. /\ Begun(b, "save", chat, IF chat = Blank THEN Blank ELSE stored[1], token)
        /\ stored[1] \in Tokens \cup {Blank}
    BY <1>5, SaveBegins
  <2>4. UNCHANGED <<triage, history>>
    BY <1>5 DEF SaveBegin
  <2>5. task'[b].kind = "status" => task'[b].seen = triage[task'[b].about]
    BY <2>3 DEF Begun
  <2> QED
    BY <2>3, <2>4, <2>5, <1>b DEF Begun
<1>6. ASSUME NEW b \in Browsers, SaveToken(b)
      PROVE  DeskInv'
  <2>1. task' \in [Browsers -> Tasks] /\ \A c \in Browsers : Continues(c)
    BY <1>6, HandlersEnd
  <2> QED
    BY <1>6, <2>1, <1>e DEF SaveToken, Finish, Respond, Overlap
<1>7. ASSUME NEW b \in Browsers, SaveChat(b)
      PROVE  DeskInv'
  <2>1. task' \in [Browsers -> Tasks] /\ \A c \in Browsers : Continues(c)
    BY <1>7, HandlersEnd
  <2> QED
    BY <1>7, <2>1, <1>e DEF SaveChat, Finish, Respond, Overlap
<1>8. CASE WebCrash
  <2>1. task' \in [Browsers -> Tasks] /\ \A c \in Browsers : Continues(c)
    BY <1>8, HandlersEnd
  <2> QED
    BY <1>8, <2>1, <1>e DEF WebCrash, HalfSaved
<1>9. CASE UNCHANGED <<triage, history, task>>
  BY <1>9
<1>10. ASSUME NEW b \in Browsers, Logout(b)
      PROVE  DeskInv'
  BY <1>10, <1>9 DEF Logout, MayRun, LoopFree, Respond
<1>11. ASSUME NEW b \in Browsers, NEW a \in Alerts, PageBegin(b, a)
      PROVE  DeskInv'
  BY <1>11, <1>9 DEF PageBegin
<1>12. ASSUME NEW b \in Browsers, PageShow(b)
      PROVE  DeskInv'
  BY <1>12, <1>9 DEF PageShow, Respond
<1>13. ASSUME NEW b \in Browsers, AddNote(b)
      PROVE  DeskInv'
  BY <1>13, <1>9 DEF AddNote
<1>14. ASSUME NEW b \in Browsers, CreateRule(b)
      PROVE  DeskInv'
  BY <1>14, <1>9 DEF CreateRule
<1>15. ASSUME NEW b \in Browsers, NEW r \in DOMAIN rules, DeactivateRule(b, r)
      PROVE  DeskInv'
  BY <1>15, <1>9 DEF DeactivateRule
<1>16. ASSUME NEW u \in Admins, NEW p \in Passwords, SetPassword(u, p)
      PROVE  DeskInv'
  BY <1>16, <1>9 DEF SetPassword
<1>17. CASE ReadToken
  BY <1>17, <1>9 DEF ReadToken
<1>18. CASE ReadChat
  BY <1>18, <1>9 DEF ReadChat
<1>19. CASE UNCHANGED vars
  BY <1>19, <1>9 DEF vars
<1> QED
  BY <1>1, <1>2, <1>3, <1>4, <1>5, <1>6, <1>7, <1>8, <1>10, <1>11, <1>12, <1>13, <1>14, <1>15,
     <1>16, <1>17, <1>18, <1>19
     DEF Next, LoopStep, WorkerStep

LEMMA CookieStep == WebAssumption /\ WebInv /\ [Next]_vars => CookieInv'
<1> SUFFICES ASSUME WebAssumption, WebInv, [Next]_vars
             PROVE  CookieInv'
  OBVIOUS
<1> USE DEF WebInv, TaskInv, deskVars, adminVars, webVars, saveVars, CookieInv
<1>n. NoCookie \in Cookies /\ NoCookie.csrf = 0 /\ NoPage \in Pages /\ NoPage.cookie = NoCookie
  BY DEF NoCookie, Cookies, NoPage, Pages
<1>c. ASSUME session' \in [Browsers -> Cookies], page' \in [Browsers -> Pages],
             fetch' \in [Browsers -> Pages], UNCHANGED logins,
             \A b \in Browsers : Held(b)' \subseteq Held(b) \cup {NoCookie}
      PROVE  CookieInv'
  BY <1>c, <1>n
<1>h. ASSUME NEW b \in Browsers, Continues(b)
      PROVE  {task'[b].cookie, task'[b].form} \subseteq {task[b].cookie, task[b].form, NoCookie}
  BY <1>h, NoTaskType DEF Continues, Tasks
<1>1. ASSUME NEW b \in Browsers, NEW u \in Admins, LoginVerify(b, u)
      PROVE  CookieInv'
  <2>3. Begun(b, "login", u, hash[u], Blank) /\ hash[u] \in Passwords
    BY <1>1, LoginBegins
  <2>4. \A c \in Browsers : UNCHANGED <<session[c], page[c].cookie, fetch[c].cookie>>
    BY <1>1 DEF LoginVerify
  <2>5. ASSUME NEW c \in Browsers
        PROVE  {task'[c].cookie, task'[c].form} \subseteq
                 {session[c], page[c].cookie, task[c].cookie, task[c].form}
    <3>1. CASE c = b
      BY <2>3, <3>1 DEF Begun
    <3>2. CASE c # b
      BY <2>3, <3>2 DEF Begun
    <3> QED
      BY <3>1, <3>2
  <2>6. \A c \in Browsers : Held(c)' \subseteq Held(c)
    BY <2>4, <2>5 DEF Held
  <2> QED
    BY <1>1, <2>6, <1>c DEF LoginVerify
<1>2. ASSUME NEW b \in Browsers, LoginEstablish(b)
      PROVE  CookieInv'
  <2> DEFINE new == NewCookie(task[b].about, task[b].cookie)
  <2>1. new \in Cookies /\ new.csrf = logins + 1
    BY <1>2 DEF LoginEstablish, NewCookie, Cookies
  <2>2. \A c \in Browsers : Continues(c)
    BY <1>2, HandlersEnd
  <2>3. session' = [session EXCEPT ![b] = new] /\ logins' = logins + 1 /\ UNCHANGED <<page, fetch>>
    BY <1>2 DEF LoginEstablish, Respond
  <2> HIDE DEF new
  <2>4. \A c \in Browsers : Held(c)' \subseteq Held(c) \cup {NoCookie, new}
    BY <2>2, <2>3, <1>h DEF Held
  <2>5. \A c \in Browsers : \A k \in Held(c) : k \in Cookies /\ k.csrf \in Nat /\ k.csrf <= logins
    BY DEF Held, Cookies, Pages, Tasks
  <2>6. ASSUME NEW c \in Browsers, NEW k \in Held(c)'
        PROVE  k.csrf <= logins' /\ (k.csrf = 0 => k = NoCookie)
    BY <2>1, <2>3, <2>4, <2>5, <1>n
  <2>7. ASSUME NEW c \in Browsers, NEW d \in Browsers, NEW k \in Held(c)', NEW l \in Held(d)',
               k.csrf = l.csrf
        PROVE  k = l
    BY <2>1, <2>4, <2>5, <2>7, <1>n
  <2>8. session' \in [Browsers -> Cookies]
    BY <2>1, <2>3
  <2> QED
    BY <2>3, <2>6, <2>7, <2>8
<1>3. ASSUME NEW b \in Browsers, Logout(b)
      PROVE  CookieInv'
  <2>1. /\ session' \in [Browsers -> Cookies] /\ page' \in [Browsers -> Pages]
        /\ fetch' \in [Browsers -> Pages] /\ UNCHANGED <<task, logins>>
    BY <1>3, <1>n DEF Logout, MayRun, LoopFree, Respond
  <2>2. ASSUME NEW c \in Browsers
        PROVE  {session'[c], page'[c].cookie, fetch'[c].cookie} \subseteq
                 {session[c], page[c].cookie, fetch[c].cookie, NoCookie}
    BY <1>3, <1>n DEF Logout, MayRun, LoopFree, Respond
  <2>3. \A c \in Browsers : Held(c)' \subseteq Held(c) \cup {NoCookie}
    BY <2>1, <2>2 DEF Held
  <2> QED
    BY <2>1, <2>3, <1>c
<1>4. ASSUME NEW b \in Browsers, NEW a \in Alerts, PageBegin(b, a)
      PROVE  CookieInv'
  <2>1. /\ session' \in [Browsers -> Cookies] /\ page' \in [Browsers -> Pages]
        /\ fetch' \in [Browsers -> Pages] /\ UNCHANGED <<task, logins>>
    BY <1>4, <1>n DEF PageBegin, Pages
  <2>2. ASSUME NEW c \in Browsers
        PROVE  {session'[c], page'[c].cookie, fetch'[c].cookie} \subseteq
                 {session[c], page[c].cookie, fetch[c].cookie, NoCookie}
    BY <1>4, <1>n DEF PageBegin, Pages
  <2>3. \A c \in Browsers : Held(c)' \subseteq Held(c) \cup {NoCookie}
    BY <2>1, <2>2 DEF Held
  <2> QED
    BY <2>1, <2>3, <1>c
<1>5. ASSUME NEW b \in Browsers, PageShow(b)
      PROVE  CookieInv'
  <2>1. /\ session' \in [Browsers -> Cookies] /\ page' \in [Browsers -> Pages]
        /\ fetch' \in [Browsers -> Pages] /\ UNCHANGED <<task, logins>>
    BY <1>5, <1>n DEF PageShow, Respond, Pages
  <2>2. ASSUME NEW c \in Browsers
        PROVE  {session'[c], page'[c].cookie, fetch'[c].cookie} \subseteq
                 {session[c], page[c].cookie, fetch[c].cookie, NoCookie}
    BY <1>5, <1>n DEF PageShow, Respond, Pages
  <2>3. \A c \in Browsers : Held(c)' \subseteq Held(c) \cup {NoCookie}
    BY <2>1, <2>2 DEF Held
  <2> QED
    BY <2>1, <2>3, <1>c
<1>6. ASSUME NEW b \in Browsers, NEW to \in Statuses, StatusRead(b, to)
      PROVE  CookieInv'
  <2>3. /\ Begun(b, "status", page[b].alert, triage[page[b].alert], to)
        /\ page[b].alert \in Alerts /\ triage[page[b].alert] \in Statuses
    BY <1>6, StatusBegins
  <2>4. \A c \in Browsers : UNCHANGED <<session[c], page[c].cookie, fetch[c].cookie>>
    BY <1>6 DEF StatusRead
  <2>5. ASSUME NEW c \in Browsers
        PROVE  {task'[c].cookie, task'[c].form} \subseteq
                 {session[c], page[c].cookie, task[c].cookie, task[c].form}
    <3>1. CASE c = b
      BY <2>3, <3>1 DEF Begun
    <3>2. CASE c # b
      BY <2>3, <3>2 DEF Begun
    <3> QED
      BY <3>1, <3>2
  <2>6. \A c \in Browsers : Held(c)' \subseteq Held(c)
    BY <2>4, <2>5 DEF Held
  <2> QED
    BY <1>6, <2>6, <1>c DEF StatusRead
<1>7. ASSUME NEW b \in Browsers, StatusWrite(b)
      PROVE  CookieInv'
  <2>1. task[b].cookie \in Cookies /\ \A c \in Browsers : Continues(c)
    BY <1>7, HandlersEnd DEF Tasks
  <2>2. session' \in [Browsers -> Cookies] /\ UNCHANGED <<page, fetch, logins>>
    BY <1>7, <2>1 DEF StatusWrite, Finish, Respond
  <2>3. \A c \in Browsers : session'[c] \in {session[c], task[c].cookie}
    BY <1>7, <2>1 DEF StatusWrite, Finish, Respond
  <2>4. \A c \in Browsers : Held(c)' \subseteq Held(c) \cup {NoCookie}
    BY <2>1, <2>2, <2>3, <1>h DEF Held
  <2> QED
    BY <2>2, <2>4, <1>c
<1>8. ASSUME NEW b \in Browsers, NEW token \in Tokens \cup {Blank},
             NEW chat \in Chats \cup {Blank}, SaveBegin(b, token, chat)
      PROVE  CookieInv'
  <2>3. /\ Begun(b, "save", chat, IF chat = Blank THEN Blank ELSE stored[1], token)
        /\ stored[1] \in Tokens \cup {Blank}
    BY <1>8, SaveBegins
  <2>4. \A c \in Browsers : UNCHANGED <<session[c], page[c].cookie, fetch[c].cookie>>
    BY <1>8 DEF SaveBegin
  <2>5. ASSUME NEW c \in Browsers
        PROVE  {task'[c].cookie, task'[c].form} \subseteq
                 {session[c], page[c].cookie, task[c].cookie, task[c].form}
    <3>1. CASE c = b
      BY <2>3, <3>1 DEF Begun
    <3>2. CASE c # b
      BY <2>3, <3>2 DEF Begun
    <3> QED
      BY <3>1, <3>2
  <2>6. \A c \in Browsers : Held(c)' \subseteq Held(c)
    BY <2>4, <2>5 DEF Held
  <2> QED
    BY <1>8, <2>6, <1>c DEF SaveBegin
<1>9. ASSUME NEW b \in Browsers, SaveToken(b)
      PROVE  CookieInv'
  <2>1. task[b].cookie \in Cookies /\ \A c \in Browsers : Continues(c)
    BY <1>9, HandlersEnd DEF Tasks
  <2>2. session' \in [Browsers -> Cookies] /\ UNCHANGED <<page, fetch, logins>>
    BY <1>9, <2>1 DEF SaveToken, Finish, Respond, Overlap
  <2>3. \A c \in Browsers : session'[c] \in {session[c], task[c].cookie}
    BY <1>9, <2>1 DEF SaveToken, Finish, Respond, Overlap
  <2>4. \A c \in Browsers : Held(c)' \subseteq Held(c) \cup {NoCookie}
    BY <2>1, <2>2, <2>3, <1>h DEF Held
  <2> QED
    BY <2>2, <2>4, <1>c
<1>10. ASSUME NEW b \in Browsers, SaveChat(b)
      PROVE  CookieInv'
  <2>1. task[b].cookie \in Cookies /\ \A c \in Browsers : Continues(c)
    BY <1>10, HandlersEnd DEF Tasks
  <2>2. session' \in [Browsers -> Cookies] /\ UNCHANGED <<page, fetch, logins>>
    BY <1>10, <2>1 DEF SaveChat, Finish, Respond, Overlap
  <2>3. \A c \in Browsers : session'[c] \in {session[c], task[c].cookie}
    BY <1>10, <2>1 DEF SaveChat, Finish, Respond, Overlap
  <2>4. \A c \in Browsers : Held(c)' \subseteq Held(c) \cup {NoCookie}
    BY <2>1, <2>2, <2>3, <1>h DEF Held
  <2> QED
    BY <2>2, <2>4, <1>c
<1>11. CASE WebCrash
  <2>1. \A c \in Browsers : Continues(c)
    BY <1>11, HandlersEnd
  <2>2. UNCHANGED <<session, page, logins>> /\ fetch' = [c \in Browsers |-> NoPage]
    BY <1>11 DEF WebCrash
  <2>3. \A c \in Browsers : Held(c)' \subseteq Held(c) \cup {NoCookie}
    BY <2>1, <2>2, <1>h, <1>n DEF Held
  <2> QED
    BY <2>2, <2>3, <1>c, <1>n
<1>12. CASE UNCHANGED <<session, page, fetch, task, logins>>
  BY <1>12 DEF Held
<1>13. ASSUME NEW b \in Browsers, AddNote(b)
      PROVE  CookieInv'
  <2>1. UNCHANGED <<session, page, fetch, task, logins>>
    BY <1>13 DEF AddNote
  <2> QED
    BY <2>1, <1>12
<1>14. ASSUME NEW b \in Browsers, CreateRule(b)
      PROVE  CookieInv'
  BY <1>14, <1>12 DEF CreateRule
<1>15. ASSUME NEW b \in Browsers, NEW r \in DOMAIN rules, DeactivateRule(b, r)
      PROVE  CookieInv'
  BY <1>15, <1>12 DEF DeactivateRule
<1>16. ASSUME NEW u \in Admins, NEW p \in Passwords, SetPassword(u, p)
      PROVE  CookieInv'
  BY <1>16, <1>12 DEF SetPassword
<1>17. CASE ReadToken
  BY <1>17, <1>12 DEF ReadToken
<1>18. CASE ReadChat
  BY <1>18, <1>12 DEF ReadChat
<1>19. CASE UNCHANGED vars
  BY <1>19, <1>12 DEF vars
<1> QED
  BY <1>1, <1>2, <1>3, <1>4, <1>5, <1>6, <1>7, <1>8, <1>9, <1>10, <1>11, <1>13, <1>14, <1>15,
     <1>16, <1>17, <1>18, <1>19
     DEF Next, LoopStep, WorkerStep

LEMMA LoginStep == WebAssumption /\ WebInv /\ [Next]_vars => LoginInv'
<1> SUFFICES ASSUME WebAssumption, WebInv, [Next]_vars
             PROVE  LoginInv'
  OBVIOUS
<1> USE DEF WebInv, TaskInv, deskVars, adminVars, webVars, saveVars, LoginInv, PasswordsStick,
            Tasks, NoTask
<1>1. ASSUME NEW b \in Browsers, NEW u \in Admins, LoginVerify(b, u)
      PROVE  LoginInv'
  BY <1>1 DEF LoginVerify, MayRun, LoopFree, Begin
<1>2. ASSUME NEW b \in Browsers, LoginEstablish(b)
      PROVE  LoginInv'
  BY <1>2 DEF LoginEstablish, Respond, NewCookie
<1>3. ASSUME NEW b \in Browsers, NEW to \in Statuses, StatusRead(b, to)
      PROVE  LoginInv'
  BY <1>3 DEF StatusRead, MayRun, LoopFree, Begin, Accepted
<1>4. ASSUME NEW b \in Browsers, StatusWrite(b)
      PROVE  LoginInv'
  BY <1>4 DEF StatusWrite, Finish, Respond
<1>5. ASSUME NEW b \in Browsers, NEW token \in Tokens \cup {Blank},
             NEW chat \in Chats \cup {Blank}, SaveBegin(b, token, chat)
      PROVE  LoginInv'
  BY <1>5 DEF SaveBegin, MayRun, LoopFree, Begin, Accepted
<1>6. ASSUME NEW b \in Browsers, SaveToken(b)
      PROVE  LoginInv'
  BY <1>6 DEF SaveToken, Finish, Respond, Overlap
<1>7. ASSUME NEW b \in Browsers, SaveChat(b)
      PROVE  LoginInv'
  BY <1>7 DEF SaveChat, Finish, Respond, Overlap
<1>8. CASE WebCrash
  BY <1>8 DEF WebCrash, HalfSaved
<1>9. ASSUME NEW u \in Admins, NEW p \in Passwords, SetPassword(u, p)
      PROVE  LoginInv'
  BY <1>9 DEF SetPassword
<1>10. CASE UNCHANGED <<hash, chosen, raced, task>>
  BY <1>10
<1>11. ASSUME NEW b \in Browsers, Logout(b)
      PROVE  LoginInv'
  BY <1>11, <1>10 DEF Logout, MayRun, LoopFree, Respond
<1>12. ASSUME NEW b \in Browsers, NEW a \in Alerts, PageBegin(b, a)
      PROVE  LoginInv'
  BY <1>12, <1>10 DEF PageBegin
<1>13. ASSUME NEW b \in Browsers, PageShow(b)
      PROVE  LoginInv'
  BY <1>13, <1>10 DEF PageShow, Respond
<1>14. ASSUME NEW b \in Browsers, AddNote(b)
      PROVE  LoginInv'
  BY <1>14, <1>10 DEF AddNote
<1>15. ASSUME NEW b \in Browsers, CreateRule(b)
      PROVE  LoginInv'
  BY <1>15, <1>10 DEF CreateRule
<1>16. ASSUME NEW b \in Browsers, NEW r \in DOMAIN rules, DeactivateRule(b, r)
      PROVE  LoginInv'
  BY <1>16, <1>10 DEF DeactivateRule
<1>17. CASE ReadToken
  BY <1>17, <1>10 DEF ReadToken
<1>18. CASE ReadChat
  BY <1>18, <1>10 DEF ReadChat
<1>19. CASE UNCHANGED vars
  BY <1>19, <1>10 DEF vars
<1> QED
  BY <1>1, <1>2, <1>3, <1>4, <1>5, <1>6, <1>7, <1>8, <1>9, <1>11, <1>12, <1>13, <1>14, <1>15,
     <1>16, <1>17, <1>18, <1>19
     DEF Next, LoopStep, WorkerStep

LEMMA SaveStep == WebAssumption /\ WebInv /\ [Next]_vars => SaveInv'
<1> SUFFICES ASSUME WebAssumption, WebInv, [Next]_vars
             PROVE  SaveInv'
  OBVIOUS
<1> USE DEF WebInv, TaskInv, deskVars, adminVars, webVars, saveVars, SaveInv, Kept, NewToken,
            HalfSaved, Tasks, NoTask
<1>1. ASSUME NEW b \in Browsers, NEW u \in Admins, LoginVerify(b, u)
      PROVE  SaveInv'
  BY <1>1 DEF LoginVerify, MayRun, LoopFree, Begin
<1>2. ASSUME NEW b \in Browsers, LoginEstablish(b)
      PROVE  SaveInv'
  BY <1>2 DEF LoginEstablish, Respond, NewCookie
<1>3. ASSUME NEW b \in Browsers, NEW to \in Statuses, StatusRead(b, to)
      PROVE  SaveInv'
  BY <1>3 DEF StatusRead, MayRun, LoopFree, Begin, Accepted
<1>4. ASSUME NEW b \in Browsers, StatusWrite(b)
      PROVE  SaveInv'
  BY <1>4 DEF StatusWrite, Finish, Respond
<1>5. ASSUME NEW b \in Browsers, NEW token \in Tokens \cup {Blank},
             NEW chat \in Chats \cup {Blank}, SaveBegin(b, token, chat)
      PROVE  SaveInv'
  BY <1>5 DEF SaveBegin, MayRun, LoopFree, Begin, Accepted
<1>6. ASSUME NEW b \in Browsers, SaveToken(b)
      PROVE  SaveInv'
  BY <1>6 DEF SaveToken, Finish, Respond, Overlap
<1>7. ASSUME NEW b \in Browsers, SaveChat(b)
      PROVE  SaveInv'
  BY <1>7 DEF SaveChat, Finish, Respond, Overlap
<1>8. CASE WebCrash
  BY <1>8 DEF WebCrash, HalfSaved
<1>9. CASE UNCHANGED <<stored, saved, cut, task>>
  BY <1>9
<1>10. ASSUME NEW b \in Browsers, Logout(b)
      PROVE  SaveInv'
  BY <1>10, <1>9 DEF Logout, MayRun, LoopFree, Respond
<1>11. ASSUME NEW b \in Browsers, NEW a \in Alerts, PageBegin(b, a)
      PROVE  SaveInv'
  BY <1>11, <1>9 DEF PageBegin
<1>12. ASSUME NEW b \in Browsers, PageShow(b)
      PROVE  SaveInv'
  BY <1>12, <1>9 DEF PageShow, Respond
<1>13. ASSUME NEW b \in Browsers, AddNote(b)
      PROVE  SaveInv'
  BY <1>13, <1>9 DEF AddNote
<1>14. ASSUME NEW b \in Browsers, CreateRule(b)
      PROVE  SaveInv'
  BY <1>14, <1>9 DEF CreateRule
<1>15. ASSUME NEW b \in Browsers, NEW r \in DOMAIN rules, DeactivateRule(b, r)
      PROVE  SaveInv'
  BY <1>15, <1>9 DEF DeactivateRule
<1>16. ASSUME NEW u \in Admins, NEW p \in Passwords, SetPassword(u, p)
      PROVE  SaveInv'
  BY <1>16, <1>9 DEF SetPassword
<1>17. CASE ReadToken
  BY <1>17, <1>9 DEF ReadToken
<1>18. CASE ReadChat
  BY <1>18, <1>9 DEF ReadChat
<1>19. CASE UNCHANGED vars
  BY <1>19, <1>9 DEF vars
<1> QED
  BY <1>1, <1>2, <1>3, <1>4, <1>5, <1>6, <1>7, <1>8, <1>10, <1>11, <1>12, <1>13, <1>14, <1>15,
     <1>16, <1>17, <1>18, <1>19
     DEF Next, LoopStep, WorkerStep

LEMMA WorkerStepInv == WebAssumption /\ WebInv /\ [Next]_vars => WorkerInv'
<1> SUFFICES ASSUME WebAssumption, WebInv, [Next]_vars
             PROVE  WorkerInv'
  OBVIOUS
<1> USE DEF WebInv, TaskInv, deskVars, adminVars, webVars, saveVars, SaveInv, WorkerInv,
            PairsAreSaved, HalfSaved, Tasks, NoTask
<1>1. ASSUME NEW b \in Browsers, NEW u \in Admins, LoginVerify(b, u)
      PROVE  WorkerInv'
  BY <1>1 DEF LoginVerify, MayRun, LoopFree, Begin
<1>2. ASSUME NEW b \in Browsers, LoginEstablish(b)
      PROVE  WorkerInv'
  BY <1>2 DEF LoginEstablish, Respond, NewCookie
<1>3. ASSUME NEW b \in Browsers, NEW to \in Statuses, StatusRead(b, to)
      PROVE  WorkerInv'
  BY <1>3 DEF StatusRead, MayRun, LoopFree, Begin, Accepted
<1>4. ASSUME NEW b \in Browsers, StatusWrite(b)
      PROVE  WorkerInv'
  BY <1>4 DEF StatusWrite, Finish, Respond
<1>5. ASSUME NEW b \in Browsers, NEW token \in Tokens \cup {Blank},
             NEW chat \in Chats \cup {Blank}, SaveBegin(b, token, chat)
      PROVE  WorkerInv'
  BY <1>5 DEF SaveBegin, MayRun, LoopFree, Begin, Accepted
<1>6. ASSUME NEW b \in Browsers, SaveToken(b)
      PROVE  WorkerInv'
  <2>1. ~HalfSaved /\ task[b].kind = "save"
    BY <1>6 DEF SaveToken
  <2>2. CASE UNCHANGED <<stored, torn>> /\ task' = [task EXCEPT ![b] = NoTask]
    <3>1. ~HalfSaved'
      BY <2>1, <2>2, NoTaskType
    <3> QED
      BY <1>6, <2>1, <2>2, <3>1 DEF SaveToken
  <2>3. CASE Overlap /\ stored' \in (Tokens \cup {Blank}) \X (Chats \cup {Blank})
    BY <1>6, <2>1, <2>3 DEF SaveToken, Overlap
  <2> QED
    BY <1>6, <2>1, <2>2, <2>3 DEF SaveToken, Finish
<1>7. ASSUME NEW b \in Browsers, SaveChat(b)
      PROVE  WorkerInv'
  BY <1>7 DEF SaveChat, Finish, Respond, Overlap
<1>8. CASE WebCrash
  BY <1>8 DEF WebCrash, HalfSaved
<1>9. CASE ReadToken
  BY <1>9 DEF ReadToken, HalfSaved
<1>10. CASE ReadChat
  BY <1>10 DEF ReadChat, Resolved
<1>11. CASE UNCHANGED <<stored, saved, torn, cut, task, worker>>
  BY <1>11
<1>12. ASSUME NEW b \in Browsers, Logout(b)
      PROVE  WorkerInv'
  BY <1>12, <1>11 DEF Logout, MayRun, LoopFree, Respond
<1>13. ASSUME NEW b \in Browsers, NEW a \in Alerts, PageBegin(b, a)
      PROVE  WorkerInv'
  BY <1>13, <1>11 DEF PageBegin
<1>14. ASSUME NEW b \in Browsers, PageShow(b)
      PROVE  WorkerInv'
  BY <1>14, <1>11 DEF PageShow, Respond
<1>15. ASSUME NEW b \in Browsers, AddNote(b)
      PROVE  WorkerInv'
  BY <1>15, <1>11 DEF AddNote
<1>16. ASSUME NEW b \in Browsers, CreateRule(b)
      PROVE  WorkerInv'
  BY <1>16, <1>11 DEF CreateRule
<1>17. ASSUME NEW b \in Browsers, NEW r \in DOMAIN rules, DeactivateRule(b, r)
      PROVE  WorkerInv'
  BY <1>17, <1>11 DEF DeactivateRule
<1>18. ASSUME NEW u \in Admins, NEW p \in Passwords, SetPassword(u, p)
      PROVE  WorkerInv'
  BY <1>18, <1>11 DEF SetPassword
<1>19. CASE UNCHANGED vars
  BY <1>19, <1>11 DEF vars
<1> QED
  BY <1>1, <1>2, <1>3, <1>4, <1>5, <1>6, <1>7, <1>8, <1>9, <1>10, <1>12, <1>13, <1>14, <1>15,
     <1>16, <1>17, <1>18, <1>19
     DEF Next, LoopStep, WorkerStep

LEMMA FormStep == WebAssumption /\ WebInv /\ [Next]_vars => FormsNameTheirAuthor'
<1> SUFFICES ASSUME WebAssumption, WebInv, [Next]_vars
             PROVE  FormsNameTheirAuthor'
  OBVIOUS
<1> USE DEF WebInv, TaskInv, deskVars, adminVars, webVars, saveVars, FormsNameTheirAuthor
<1>e. ASSUME task' \in [Browsers -> Tasks], \A b \in Browsers : Continues(b)
      PROVE  FormsNameTheirAuthor'
  <2>1. ASSUME NEW c \in Browsers, task'[c].kind \in {"status", "save", "chat"}
        PROVE  task'[c].form = task'[c].cookie
    <3>1. CASE task'[c] = task[c]
      BY <2>1, <3>1
    <3>2. CASE task[c].kind = "save" /\ task'[c] = [task[c] EXCEPT !.kind = "chat"]
      BY <3>2 DEF Tasks
    <3> QED
      BY <1>e, <2>1, <3>1, <3>2, NoTaskType DEF Continues
  <2> QED
    BY <2>1
<1>1. ASSUME NEW b \in Browsers, NEW u \in Admins, LoginVerify(b, u)
      PROVE  FormsNameTheirAuthor'
  <2>3. Begun(b, "login", u, hash[u], Blank) /\ hash[u] \in Passwords
    BY <1>1, LoginBegins
  <2> QED
    BY <2>3 DEF Begun
<1>2. ASSUME NEW b \in Browsers, LoginEstablish(b)
      PROVE  FormsNameTheirAuthor'
  <2>1. task' \in [Browsers -> Tasks] /\ \A c \in Browsers : Continues(c)
    BY <1>2, HandlersEnd
  <2> QED
    BY <1>2, <2>1, <1>e DEF LoginEstablish, Respond, NewCookie
<1>3. ASSUME NEW b \in Browsers, NEW to \in Statuses, StatusRead(b, to)
      PROVE  FormsNameTheirAuthor'
  <2>3. /\ Begun(b, "status", page[b].alert, triage[page[b].alert], to)
        /\ page[b].alert \in Alerts /\ triage[page[b].alert] \in Statuses
    BY <1>3, StatusBegins
  <2>4. session[b] \in Held(b) /\ page[b].cookie \in Held(b)
    BY DEF Held
  <2>5. session[b] = page[b].cookie
    BY <1>3, <2>4 DEF StatusRead, Accepted, CookieInv
  <2> QED
    BY <2>3, <2>5 DEF Begun
<1>4. ASSUME NEW b \in Browsers, StatusWrite(b)
      PROVE  FormsNameTheirAuthor'
  <2>1. task' \in [Browsers -> Tasks] /\ \A c \in Browsers : Continues(c)
    BY <1>4, HandlersEnd
  <2> QED
    BY <1>4, <2>1, <1>e DEF StatusWrite, Finish, Respond
<1>5. ASSUME NEW b \in Browsers, NEW token \in Tokens \cup {Blank},
             NEW chat \in Chats \cup {Blank}, SaveBegin(b, token, chat)
      PROVE  FormsNameTheirAuthor'
  <2>3. /\ Begun(b, "save", chat, IF chat = Blank THEN Blank ELSE stored[1], token)
        /\ stored[1] \in Tokens \cup {Blank}
    BY <1>5, SaveBegins
  <2>4. session[b] \in Held(b) /\ page[b].cookie \in Held(b)
    BY DEF Held
  <2>5. session[b] = page[b].cookie
    BY <1>5, <2>4 DEF SaveBegin, Accepted, CookieInv
  <2> QED
    BY <2>3, <2>5 DEF Begun
<1>6. ASSUME NEW b \in Browsers, SaveToken(b)
      PROVE  FormsNameTheirAuthor'
  <2>1. task' \in [Browsers -> Tasks] /\ \A c \in Browsers : Continues(c)
    BY <1>6, HandlersEnd
  <2> QED
    BY <1>6, <2>1, <1>e DEF SaveToken, Finish, Respond, Overlap
<1>7. ASSUME NEW b \in Browsers, SaveChat(b)
      PROVE  FormsNameTheirAuthor'
  <2>1. task' \in [Browsers -> Tasks] /\ \A c \in Browsers : Continues(c)
    BY <1>7, HandlersEnd
  <2> QED
    BY <1>7, <2>1, <1>e DEF SaveChat, Finish, Respond, Overlap
<1>8. CASE WebCrash
  <2>1. task' \in [Browsers -> Tasks] /\ \A c \in Browsers : Continues(c)
    BY <1>8, HandlersEnd
  <2> QED
    BY <1>8, <2>1, <1>e DEF WebCrash, HalfSaved
<1>9. CASE UNCHANGED <<task>>
  BY <1>9
<1>10. ASSUME NEW b \in Browsers, Logout(b)
      PROVE  FormsNameTheirAuthor'
  BY <1>10, <1>9 DEF Logout, MayRun, LoopFree, Respond
<1>11. ASSUME NEW b \in Browsers, NEW a \in Alerts, PageBegin(b, a)
      PROVE  FormsNameTheirAuthor'
  BY <1>11, <1>9 DEF PageBegin
<1>12. ASSUME NEW b \in Browsers, PageShow(b)
      PROVE  FormsNameTheirAuthor'
  BY <1>12, <1>9 DEF PageShow, Respond
<1>13. ASSUME NEW b \in Browsers, AddNote(b)
      PROVE  FormsNameTheirAuthor'
  BY <1>13, <1>9 DEF AddNote
<1>14. ASSUME NEW b \in Browsers, CreateRule(b)
      PROVE  FormsNameTheirAuthor'
  BY <1>14, <1>9 DEF CreateRule
<1>15. ASSUME NEW b \in Browsers, NEW r \in DOMAIN rules, DeactivateRule(b, r)
      PROVE  FormsNameTheirAuthor'
  BY <1>15, <1>9 DEF DeactivateRule
<1>16. ASSUME NEW u \in Admins, NEW p \in Passwords, SetPassword(u, p)
      PROVE  FormsNameTheirAuthor'
  BY <1>16, <1>9 DEF SetPassword
<1>17. CASE ReadToken
  BY <1>17, <1>9 DEF ReadToken
<1>18. CASE ReadChat
  BY <1>18, <1>9 DEF ReadChat
<1>19. CASE UNCHANGED vars
  BY <1>19, <1>9 DEF vars
<1> QED
  BY <1>1, <1>2, <1>3, <1>4, <1>5, <1>6, <1>7, <1>8, <1>10, <1>11, <1>12, <1>13, <1>14, <1>15,
     <1>16, <1>17, <1>18, <1>19
     DEF Next, LoopStep, WorkerStep

-----------------------------------------------------------------------------
LEMMA WebInvStep == WebAssumption /\ WebInv /\ [Next]_vars => WebInv'
BY TaskStep, DeskStep, CookieStep, LoginStep, SaveStep, WorkerStepInv, FormStep DEF WebInv

LEMMA WebInvariant == Spec => []WebInv
BY WebAssumption, WebInvInit, WebInvStep, PTL DEF Spec

\* update_alert_status reads and writes in two statements, and no other handler
\* comes between them: the history of every alert is a chain.
THEOREM HistoryIsChain == Spec => []HistoryChains
<1>1. WebInv => HistoryChains
  BY DEF WebInv, DeskInv
<1> QED
  BY <1>1, WebInvariant, PTL

\* What a form changes is recorded under the admin whose page it was on.
THEOREM FormsAreAuthored == Spec => []FormsNameTheirAuthor
<1>1. WebInv => FormsNameTheirAuthor
  BY DEF WebInv
<1> QED
  BY <1>1, WebInvariant, PTL

\* Only a login under way when bootstrap-admin runs can undo the password it sets.
THEOREM PasswordStays == Spec => []PasswordsStick
<1>1. WebInv => PasswordsStick
  BY DEF WebInv, LoginInv
<1> QED
  BY <1>1, WebInvariant, PTL

\* Outside a torn read the worker uses a pair that was saved as one.
THEOREM PairsSound == Spec => []PairsAreSaved
<1>1. WebInv => PairsAreSaved
  BY DEF WebInv, WorkerInv
<1> QED
  BY <1>1, WebInvariant, PTL
=============================================================================
