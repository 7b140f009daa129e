----------------------------- MODULE WebConsole -----------------------------
(***************************************************************************)
(* The operator console's web process (console/web.py, auth.py): cookie    *)
(* sessions, triage, notes, suppression rules and the Telegram settings,   *)
(* beside the two other processes that touch the same rows: notify-worker, *)
(* which reads the settings each cycle, and bootstrap-admin, which sets a  *)
(* password.                                                               *)
(*                                                                         *)
(* A POST handler is an "async def" that never awaits, so it keeps the     *)
(* event loop from its first statement to its response.  A page is a "def" *)
(* that runs in the thread pool beside it.  Each statement or "with         *)
(* connection" block on the database is a transaction, hence a step.  A     *)
(* request that is refused (no session, a wrong form token, an unknown      *)
(* status) changes nothing and is no step.                                  *)
(***************************************************************************)
EXTENDS Naturals, Sequences

CONSTANTS
    Admins, Browsers, Alerts,
    Statuses,       \* ALERT_TRIAGE_STATES; "new" is the first
    Passwords, FirstPassword,
    Tokens, Chats,  \* values of the two Telegram settings
    EnvPair,        \* the environment's <<token, chat>>, or NoPair
    FirstCookies,   \* cookies the browsers hold from before the web process started
    MaxRequests,    \* BOUND: POSTs and pages served
    MaxResets,      \* BOUND: runs of bootstrap-admin
    MaxCrashes      \* BOUND: deaths of the web process

Blank == ""
NoPair == <<Blank, Blank>>
NoCookie == [user |-> Blank, csrf |-> 0]

ASSUME WebAssumption ==
    /\ "new" \in Statuses /\ FirstPassword \in Passwords
    /\ Blank \notin Tokens \cup Chats
    /\ EnvPair = NoPair \/ Blank \notin {EnvPair[1], EnvPair[2]}
    /\ \E u \in Admins :
         FirstCookies \in [Browsers -> {NoCookie, [user |-> u, csrf |-> 1]}]
    /\ MaxRequests \in Nat /\ MaxResets \in Nat /\ MaxCrashes \in Nat

VARIABLES
    triage,     \* alerts.triage_status
    history,    \* alert_status_history, oldest first
    notes,      \* alert_notes: who wrote each
    rules,      \* suppression_rules.is_active of every rule created
    stored,     \* console_settings: <<token, chat>>
    hash,       \* admin_users.password_hash
    session,    \* the cookie each browser holds
    page,       \* the alert page each browser shows
    fetch,      \* the alert page each browser waits for
    task,       \* the POST handler at work for each browser
    logins,     \* sessions established; each has a form token of its own
    worker,     \* notify-worker: where it is and the settings it has read
    served, resets, crashes,
    chosen,     \* history: the password bootstrap-admin set last
    raced,      \* history: admins with a login under way when it was set
    saved,      \* history: the pairs operators have saved
    torn,       \* history: a save overlapped the worker's last reads
    cut         \* history: the web process died inside the last save

deskVars == <<triage, history, notes, rules>>
adminVars == <<hash, resets, chosen, raced>>
webVars == <<session, page, fetch, task, logins, served>>
saveVars == <<stored, saved, torn, cut>>
vars == <<deskVars, adminVars, webVars, saveVars, worker, crashes>>

NoPage == [cookie |-> NoCookie, alert |-> Blank]
NoTask == [kind |-> "none", cookie |-> NoCookie, form |-> NoCookie,
           about |-> Blank, seen |-> Blank, value |-> Blank]
IdleWorker == [at |-> "idle", token |-> Blank, pair |-> NoPair]

-----------------------------------------------------------------------------
(* What the handlers compute.                                               *)

LoopFree == \A b \in Browsers : task[b].kind = "none"

\* SLIP: handlers declared "def" would run in the thread pool, side by side.
MayRun_Threads(b) == served < MaxRequests /\ task[b] = NoTask

\* An async handler starts when the event loop is free.
MayRun(b) == served < MaxRequests /\ LoopFree

\* SLIP: the form token outlives the login it was made for.
NewCookie_KeepsToken(user, old) == [user |-> user, csrf |-> IF old.csrf = 0 THEN 1 ELSE old.csrf]

\* establish_admin_session: a new form token with every login.
NewCookie(user, old) == [user |-> user, csrf |-> logins + 1]

\* validate_csrf_form, require_authenticated_api
Accepted(b) ==
    /\ session[b] # NoCookie
    /\ page[b].cookie.csrf = session[b].csrf

\* resolve_telegram_config_with_source: both settings, or the environment's pair.
Resolved(t, c) == IF t # Blank /\ c # Blank THEN <<t, c>> ELSE EnvPair

Begin(b, kind, about, seen, value) ==
    /\ task' = [task EXCEPT ![b] =
                  [kind |-> kind, cookie |-> session[b], form |-> page[b].cookie,
                   about |-> about, seen |-> seen, value |-> value]]
    /\ served' = served + 1

\* A response carries the request's session back in Set-Cookie, whatever the
\* browser has been given since.
Respond(b, cookie) == session' = [session EXCEPT ![b] = cookie]

Finish(b) == task' = [task EXCEPT ![b] = NoTask] /\ Respond(b, task[b].cookie)

-----------------------------------------------------------------------------
Init ==
    /\ triage = [a \in Alerts |-> "new"]
    /\ history = [a \in Alerts |-> <<>>]
    /\ notes = [a \in Alerts |-> <<>>]
    /\ rules = <<>>
    /\ stored = NoPair
    /\ hash = [u \in Admins |-> FirstPassword]
    /\ session = FirstCookies
    /\ page = [b \in Browsers |-> NoPage]
    /\ fetch = page
    /\ task = [b \in Browsers |-> NoTask]
    /\ logins = 1
    /\ worker = IdleWorker
    /\ served = 0 /\ resets = 0 /\ crashes = 0
    /\ chosen = hash /\ raced = {} /\ saved = {}
    /\ torn = FALSE /\ cut = FALSE

(* login_submit: SELECT the row and verify, UPDATE it, set the cookie.      *)

LoginVerify(b, u) ==
    /\ MayRun(b)
    /\ Begin(b, "login", u, hash[u], Blank)
    /\ UNCHANGED <<deskVars, adminVars, session, page, fetch,
                   logins, worker, crashes, saveVars>>

LoginEstablish(b) ==
    /\ task[b].kind = "login"
    /\ hash' = [hash EXCEPT ![task[b].about] = task[b].seen]
    /\ raced' = IF task[b].seen = chosen[task[b].about]
                THEN raced \ {task[b].about} ELSE raced
    /\ logins' = logins + 1
    /\ Respond(b, NewCookie(task[b].about, task[b].cookie))
    /\ task' = [task EXCEPT ![b] = NoTask]
    /\ UNCHANGED <<deskVars, resets, chosen, page, fetch, worker, served, crashes, saveVars>>

Logout(b) ==
    /\ MayRun(b) /\ Accepted(b)
    /\ served' = served + 1
    /\ Respond(b, NoCookie)
    /\ UNCHANGED <<deskVars, adminVars, page, fetch, task,
                   logins, worker, crashes, saveVars>>

(* alert_detail, in the thread pool.  Any other page would do for the forms *)
(* on it: they carry the form token of the cookie it was asked for with.    *)

PageBegin(b, a) ==
    /\ served < MaxRequests
    /\ fetch[b] = NoPage /\ session[b] # NoCookie
    /\ fetch' = [fetch EXCEPT ![b] = [cookie |-> session[b], alert |-> a]]
    /\ served' = served + 1
    /\ UNCHANGED <<deskVars, adminVars, session, page, task,
                   logins, worker, crashes, saveVars>>

PageShow(b) ==
    /\ fetch[b] # NoPage
    /\ page' = [page EXCEPT ![b] = fetch[b]]
    /\ Respond(b, fetch[b].cookie)
    /\ fetch' = [fetch EXCEPT ![b] = NoPage]
    /\ UNCHANGED <<deskVars, adminVars, task, logins, worker, served, crashes, saveVars>>

(* alert_update_status: read the old status, then write both tables.        *)

StatusRead(b, to) ==
    /\ MayRun(b) /\ Accepted(b) /\ page[b].alert \in Alerts
    /\ Begin(b, "status", page[b].alert, triage[page[b].alert], to)
    /\ UNCHANGED <<deskVars, adminVars, session, page, fetch,
                   logins, worker, crashes, saveVars>>

StatusWrite(b) ==
    /\ task[b].kind = "status"
    /\ triage' = [triage EXCEPT ![task[b].about] = task[b].value]
    /\ history' = [history EXCEPT ![task[b].about] =
                     Append(@, [from |-> task[b].seen, to |-> task[b].value,
                                by |-> task[b].cookie.user])]
    /\ Finish(b)
    /\ UNCHANGED <<notes, rules, adminVars, page, fetch, logins,
                   worker, served, crashes, saveVars>>

AddNote(b) ==
    /\ MayRun(b) /\ Accepted(b) /\ page[b].alert \in Alerts
    /\ notes' = [notes EXCEPT ![page[b].alert] = Append(@, session[b].user)]
    /\ served' = served + 1
    /\ UNCHANGED <<triage, history, rules, adminVars, session, page, fetch,
                   task, logins, worker, crashes, saveVars>>

CreateRule(b) ==
    /\ MayRun(b) /\ Accepted(b)
    /\ rules' = Append(rules, TRUE)
    /\ served' = served + 1
    /\ UNCHANGED <<triage, history, notes, adminVars, session, page, fetch,
                   task, logins, worker, crashes, saveVars>>

\* A rule that is not active is not found.
DeactivateRule(b, r) ==
    /\ MayRun(b) /\ Accepted(b)
    /\ rules[r]
    /\ rules' = [rules EXCEPT ![r] = FALSE]
    /\ served' = served + 1
    /\ UNCHANGED <<triage, history, notes, adminVars, session, page, fetch,
                   task, logins, worker, crashes, saveVars>>

(* settings_save, each set_setting a transaction: an empty chat clears      *)
(* both, an empty token keeps the one stored, and with none stored the form *)
(* is refused.                                                              *)

SaveBegin(b, token, chat) ==
    /\ MayRun(b) /\ Accepted(b)
    /\ Begin(b, "save", chat, IF chat = Blank THEN Blank ELSE stored[1], token)
    /\ UNCHANGED <<deskVars, adminVars, session, page, fetch, logins, saveVars, worker,
                   crashes>>

\* A save has written the token and not the chat.
HalfSaved == \E b \in Browsers : task[b].kind = "chat"

Overlap == torn' = (torn \/ worker.at = "reading")

SaveToken(b) ==
    /\ task[b].kind = "save"
    /\ LET kept == task[b].about # Blank /\ task[b].value = Blank
       IN  IF kept /\ task[b].seen = Blank
           THEN Finish(b) /\ UNCHANGED <<stored, torn>>
           ELSE /\ stored' = IF kept THEN stored ELSE
                       <<IF task[b].about = Blank THEN Blank ELSE task[b].value, stored[2]>>
                /\ task' = [task EXCEPT ![b].kind = "chat"]
                /\ Overlap
                /\ UNCHANGED session
    /\ UNCHANGED <<deskVars, adminVars, page, fetch, logins, served, saved, cut, worker,
                   crashes>>

SaveChat(b) ==
    /\ task[b].kind = "chat"
    /\ stored' = <<stored[1], task[b].about>>
    /\ saved' = saved \cup {<<IF task[b].about # Blank /\ task[b].value = Blank THEN task[b].seen
                              ELSE IF task[b].about = Blank THEN Blank ELSE task[b].value,
                              task[b].about>>}
    /\ cut' = FALSE
    /\ Overlap
    /\ Finish(b)
    /\ UNCHANGED <<deskVars, adminVars, page, fetch, logins, served, worker, crashes>>

(* The process dies; cookies and the database stay.                         *)

WebCrash ==
    /\ crashes < MaxCrashes
    /\ crashes' = crashes + 1
    /\ task' = [b \in Browsers |-> NoTask]
    /\ fetch' = [b \in Browsers |-> NoPage]
    /\ cut' = (cut \/ HalfSaved)
    /\ UNCHANGED <<deskVars, adminVars, session, page, logins, served, stored, saved, torn,
                   worker>>

(* bootstrap-admin, a process of its own.                                   *)

\* SLIP: an admin that exists keeps its password.
SetPassword_Inserts(u, p) ==
    /\ resets < MaxResets
    /\ chosen' = [chosen EXCEPT ![u] = p]
    /\ resets' = resets + 1
    /\ UNCHANGED <<deskVars, webVars, saveVars, worker, crashes, hash, raced>>

SetPassword(u, p) ==
    /\ resets < MaxResets
    /\ hash' = [hash EXCEPT ![u] = p]
    /\ chosen' = [chosen EXCEPT ![u] = p]
    /\ raced' = IF \E b \in Browsers : task[b].kind = "login" /\ task[b].about = u
                THEN raced \cup {u} ELSE raced \ {u}
    /\ resets' = resets + 1
    /\ UNCHANGED <<deskVars, webVars, saveVars, worker, crashes>>

(* A cycle of notify-worker reads the two settings one after the other and  *)
(* works with what they resolve to.                                         *)

\* SLIP: a token once resolved is kept from cycle to cycle.
ReadToken_Cached ==
    /\ worker.at = "idle"
    /\ worker' = [worker EXCEPT !.at = "reading",
                    !.token = IF worker.pair = NoPair THEN stored[1] ELSE worker.pair[1]]
    /\ torn' = (cut \/ HalfSaved)
    /\ UNCHANGED <<deskVars, adminVars, webVars, stored, saved, cut, crashes>>

ReadToken ==
    /\ worker.at = "idle"
    /\ worker' = [worker EXCEPT !.at = "reading", !.token = stored[1]]
    /\ torn' = (cut \/ HalfSaved)
    /\ UNCHANGED <<deskVars, adminVars, webVars, stored, saved, cut, crashes>>

\* SLIP: settings are resolved once, when the worker starts.
ReadChat_Once ==
    /\ worker.at = "reading"
    /\ worker' = [at |-> "idle", token |-> Blank,
                  pair |-> IF worker.pair # NoPair THEN worker.pair
                           ELSE Resolved(worker.token, stored[2])]
    /\ UNCHANGED <<deskVars, adminVars, webVars, saveVars, crashes>>

ReadChat ==
    /\ worker.at = "reading"
    /\ worker' = [at |-> "idle", token |-> Blank,
                  pair |-> Resolved(worker.token, stored[2])]
    /\ UNCHANGED <<deskVars, adminVars, webVars, saveVars, crashes>>

-----------------------------------------------------------------------------
LoopStep == \E b \in Browsers :
               LoginEstablish(b) \/ StatusWrite(b) \/ SaveToken(b) \/ SaveChat(b)
WorkerStep == ReadToken \/ ReadChat

Next ==
    \/ \E b \in Browsers :
         \/ \E u \in Admins : LoginVerify(b, u)
         \/ Logout(b) \/ AddNote(b) \/ CreateRule(b) \/ PageShow(b)
         \/ \E a \in Alerts : PageBegin(b, a)
         \/ \E to \in Statuses : StatusRead(b, to)
         \/ \E r \in DOMAIN rules : DeactivateRule(b, r)
         \/ \E token \in Tokens \cup {Blank}, chat \in Chats \cup {Blank} :
                SaveBegin(b, token, chat)
    \/ LoopStep \/ WorkerStep \/ WebCrash
    \/ \E u \in Admins, p \in Passwords : SetPassword(u, p)

Spec == Init /\ [][Next]_vars

\* A handler that has the event loop and a supervised worker keep going;
\* nothing is promised of operators.
FairSpec == Spec /\ WF_vars(LoopStep) /\ WF_vars(WorkerStep)

-----------------------------------------------------------------------------
\* The history of an alert is a chain from "new" to the status it has now,
\* whoever triages it at the same time: between update_alert_status's read and
\* its write no other handler runs.
HistoryChains ==
    \A a \in Alerts :
        LET h == history[a]
        IN  /\ triage[a] = IF h = <<>> THEN "new" ELSE h[Len(h)].to
            /\ \A i \in DOMAIN h : h[i].from = IF i = 1 THEN "new" ELSE h[i - 1].to

\* What a form changes is recorded under the admin whose page it was on, even
\* when the browser has logged out, in again as another, or been handed an old
\* cookie by a late response (validate_csrf_form and the token of each login).
FormsNameTheirAuthor ==
    \A b \in Browsers :
        task[b].kind \in {"status", "save", "chat"} => task[b].form = task[b].cookie

\* The password bootstrap-admin set last is the one in force, unless a login of
\* that admin was between its read and its write back of the row.
PasswordsStick == \A u \in Admins : hash[u] = chosen[u] \/ u \in raced

\* The worker uses a pair an operator saved, or the environment's, unless a save
\* overlapped its two reads or the web process died between its two writes.
PairsAreSaved ==
    worker.at = "idle" /\ ~torn => worker.pair \in saved \cup {EnvPair, NoPair}

\* What the operations guide promises of the settings page: whatever was saved,
\* and cleared, the worker comes to use what the page resolves.
SettingsTakeEffect == <>[](worker.pair = Resolved(stored[1], stored[2]))
=============================================================================
