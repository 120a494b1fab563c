---------------------------- MODULE LoginSession ----------------------------
(***************************************************************************)
(* Who is logged in.  A login is recorded three times: as an attribute of  *)
(* the HTTP session, in sessionsMap (one per server), and as a row of      *)
(* tb_sys_usess, which all servers share.  A request is served when its    *)
(* session has the attribute and the row the attribute's CURRENT_ID names. *)
(*                                                                         *)
(* The three are kept together by WebSystemHttpSessionListener, which runs *)
(* inside the request that logs in (attributeAdded) or in whatever ends    *)
(* the session (sessionDestroyed), with one database call per statement:   *)
(*   find -> clean -> write   in attributeAdded, then                      *)
(*   current                  in setUserSession, which looks its row up.   *)
(* A session id is never used again, so a row is named by its session.     *)
(* With INVALIDATE_SAME_ACCOUNT_SESSION a login first ends the account's   *)
(* other sessions; the file shipped with the code switches that off.       *)
(***************************************************************************)
EXTENDS Naturals, FiniteSets

CONSTANTS
  Sessions,        \* HTTP session ids
  Accounts,
  NoAccount,
  Servers,         \* the running copies of the web application
  ServerOf,        \* the server a session lives on
  Exclusive,       \* the servers with INVALIDATE_SAME_ACCOUNT_SESSION = "Y"
  MaxStops         \* bound: servers that stop or crash

ASSUME ConstantsAssumption ==
  /\ NoAccount \notin Accounts
  /\ ServerOf \in [Sessions -> Servers]
  /\ Exclusive \subseteq Servers /\ MaxStops \in Nat

VARIABLES
  life,     \* "new" until it logs in, then "alive", then "dead"
  owner,    \* the account that logged in
  attr,     \* sessions with the attribute SESS_ACCOUNT
  current,  \* sessions with the attribute SESS_SYSCURRENT_ID
  known,    \* sessionsMap, of all servers
  rows,     \* sessions with a row in tb_sys_usess
  login,    \* the request that logs a session in: where it is, what it must clean
  purging,  \* ended sessions whose sessionDestroyed has not reached the table
  up,       \* running servers
  stops,    \* how much of MaxStops is used
  cutOff,   \* history: sessions that ended during their login or with their server
  wiped     \* history: sessions that lived when the table was emptied

history == <<cutOff, wiped>>
vars == <<life, owner, attr, current, known, rows, login, purging, up, stops, history>>

Pc == {"idle", "find", "clean", "write", "current", "done"}
InLogin(s) == login[s].pc \in {"find", "clean", "write", "current"}
GoTo(s, pc) == login' = [login EXCEPT ![s].pc = pc]
RowsOf(a) == {x \in rows : owner[x] = a}

Init ==
  /\ life = [s \in Sessions |-> "new"]
  /\ owner = [s \in Sessions |-> NoAccount]
  /\ attr = {} /\ current = {} /\ known = {} /\ rows = {}
  /\ login = [s \in Sessions |-> [pc |-> "idle", todo |-> {}]]
  /\ purging = {}
  /\ up = Servers /\ stops = 0
  /\ cutOff = {} /\ wiped = {}
-----------------------------------------------------------------------------
(* Logging in: executeLogin -> setUserSession -> attributeAdded *)

\* sessionsMap.put.  The map is a plain HashMap: an entry put while another
\* request of the server is in the listener may be lost.
Put(s) ==
  \/ known' = known \cup {s}
  \/ /\ \E k \in Sessions \ {s} : ServerOf[k] = ServerOf[s] /\ (InLogin(k) \/ k \in purging)
     /\ known' = known

\* Mutation of Begin: the account is not stored.
BeginWithoutAccount(s, a) ==
  /\ life[s] = "new" /\ ServerOf[s] \in up
  /\ life' = [life EXCEPT ![s] = "alive"]
  /\ attr' = attr \cup {s} /\ Put(s)
  /\ GoTo(s, IF ServerOf[s] \in Exclusive THEN "find" ELSE "write")
  /\ UNCHANGED <<owner, current, rows, purging, up, stops, history>>

\* subject.login succeeds, SESS_ACCOUNT is set, sessionsMap.put.
Begin(s, a) ==
  /\ life[s] = "new" /\ ServerOf[s] \in up
  /\ life' = [life EXCEPT ![s] = "alive"]
  /\ owner' = [owner EXCEPT ![s] = a]
  /\ attr' = attr \cup {s} /\ Put(s)
  /\ GoTo(s, IF ServerOf[s] \in Exclusive THEN "find" ELSE "write")
  /\ UNCHANGED <<current, rows, purging, up, stops, history>>

\* cleanBeforeLoginUser: findSessionIdByAccount
Find(s) ==
  /\ login[s].pc = "find"
  /\ login' = [login EXCEPT ![s] = [pc |-> "clean", todo |-> RowsOf(owner[s])]]
  /\ UNCHANGED <<life, owner, attr, current, known, rows, purging, up, stops, history>>

Cleaned(s) ==
  /\ login[s].pc = "clean" /\ login[s].todo = {}
  /\ GoTo(s, "write")
  /\ UNCHANGED <<life, owner, attr, current, known, rows, purging, up, stops, history>>

\* sessionsMap.get(x).invalidate().  Its sessionDestroyed deletes the row and,
\* if there was one, logs out the CURRENT subject: that of the login itself.
Invalidate(s, x) ==
  /\ login[s].pc = "clean" /\ x \in login[s].todo
  /\ x \in known /\ ServerOf[x] = ServerOf[s]
  /\ LET ended == IF x \in rows THEN {x, s} ELSE {x} IN
       /\ life' = [k \in Sessions |-> IF k \in ended THEN "dead" ELSE life[k]]
       /\ attr' = attr \ ended /\ current' = current \ ended /\ known' = known \ ended
       /\ rows' = rows \ ended
       /\ cutOff' = cutOff \cup {k \in ended : InLogin(k)}
  /\ login' = [login EXCEPT ![s].todo = @ \ {x}]
  /\ UNCHANGED <<owner, purging, up, stops, wiped>>

\* sessionsMap has no x (it is another server's, or has ended): a null pointer,
\* which attributeAdded swallows together with the write.
InvalidateFails(s, x) ==
  /\ login[s].pc = "clean" /\ x \in login[s].todo
  /\ x \notin known \/ ServerOf[x] # ServerOf[s]
  /\ GoTo(s, "current")
  /\ UNCHANGED <<life, owner, attr, current, known, rows, purging, up, stops, history>>

\* Mutation of Write: the insert is taken into the branch of the delete.
WriteIfPresent(s) ==
  /\ login[s].pc = "write"
  /\ GoTo(s, "current")
  /\ UNCHANGED <<life, owner, attr, current, known, rows, purging, up, stops, history>>

\* writeLoginUser; the container still answers getId() on an ended session.
Write(s) ==
  /\ login[s].pc = "write"
  /\ rows' = rows \cup {s}
  /\ GoTo(s, "current")
  /\ UNCHANGED <<life, owner, attr, current, known, purging, up, stops, history>>

\* setUserSession: the cookie and SESS_SYSCURRENT_ID come from the row, if it is
\* found under the id of the session the request has by now.
Current(s) ==
  /\ login[s].pc = "current"
  /\ current' = IF life[s] = "alive" /\ s \in rows THEN current \cup {s} ELSE current
  /\ GoTo(s, "done")
  /\ UNCHANGED <<life, owner, attr, known, rows, purging, up, stops, history>>
-----------------------------------------------------------------------------
(* Ending a session *)

\* logout.do or the container's timeout; sessionDestroyed begins.
End(s) ==
  /\ life[s] = "alive" /\ ServerOf[s] \in up
  /\ life' = [life EXCEPT ![s] = "dead"]
  /\ attr' = attr \ {s} /\ current' = current \ {s} /\ known' = known \ {s}
  /\ purging' = purging \cup {s}
  /\ cutOff' = IF InLogin(s) THEN cutOff \cup {s} ELSE cutOff
  /\ UNCHANGED <<owner, rows, login, up, stops, wiped>>

\* Mutation of Purge: the row is counted and not deleted.
PurgeNothing(s) ==
  /\ s \in purging /\ purging' = purging \ {s}
  /\ UNCHANGED <<life, owner, attr, current, known, rows, login, up, stops, history>>
\* Mutation of Purge: the rows are deleted by account.
PurgeAccount(s) ==
  /\ s \in purging /\ purging' = purging \ {s}
  /\ rows' = rows \ RowsOf(owner[s])
  /\ UNCHANGED <<life, owner, attr, current, known, login, up, stops, history>>

\* ... and deletes the row, if there is one by now.
Purge(s) ==
  /\ s \in purging /\ purging' = purging \ {s}
  /\ rows' = rows \ {s}
  /\ UNCHANGED <<life, owner, attr, current, known, login, up, stops, history>>

\* LoginHandlerInterceptor.preHandle refuses a request, which may come while the
\* session is still logging in: redirectLogin takes the attributes away, and
\* attributeRemoved the row.
Refuse(s) ==
  /\ s \in attr
  /\ s \notin current \/ s \notin rows
  /\ attr' = attr \ {s} /\ current' = current \ {s}
  /\ rows' = rows \ {s}
  /\ UNCHANGED <<life, owner, known, login, purging, up, stops, history>>
-----------------------------------------------------------------------------
(* Servers *)

Living == {s \in Sessions : life[s] = "alive"}
Of(v) == {s \in Sessions : ServerOf[s] = v}

\* A server goes down with its sessions and requests.  contextDestroyed empties
\* the table for all servers; a crash does not.
Stop(v, orderly) ==
  /\ v \in up /\ stops < MaxStops
  /\ up' = up \ {v} /\ stops' = stops + 1
  /\ life' = [s \in Sessions |-> IF s \in Of(v) \cap Living THEN "dead" ELSE life[s]]
  /\ attr' = attr \ Of(v) /\ current' = current \ Of(v) /\ known' = known \ Of(v)
  /\ purging' = purging \ Of(v)
  /\ login' = [s \in Sessions |-> IF s \in Of(v) /\ InLogin(s)
                 THEN [pc |-> "done", todo |-> {}] ELSE login[s]]
  /\ cutOff' = cutOff \cup (Of(v) \cap (Living \cup purging))
  /\ rows' = IF orderly THEN {} ELSE rows
  /\ wiped' = IF orderly THEN wiped \cup Living ELSE wiped
  /\ UNCHANGED owner

\* contextInitialized -> beginClean
Start(v) ==
  /\ v \notin up /\ up' = up \cup {v}
  /\ rows' = {} /\ wiped' = wiped \cup Living
  /\ UNCHANGED <<life, owner, attr, current, known, login, purging, stops, cutOff>>
-----------------------------------------------------------------------------
LoginStep(s) ==
  \/ Find(s) \/ Cleaned(s) \/ Write(s) \/ Current(s)
  \/ \E x \in Sessions : Invalidate(s, x) \/ InvalidateFails(s, x)

Next ==
  \/ \E s \in Sessions :
       \/ \E a \in Accounts : Begin(s, a)
       \/ LoginStep(s) \/ End(s) \/ Purge(s) \/ Refuse(s)
  \/ \E v \in Servers : Start(v) \/ \E orderly \in BOOLEAN : Stop(v, orderly)

Spec == Init /\ [][Next]_vars
-----------------------------------------------------------------------------
\* The type invariant; a session that has logged in has an account.
TypeOK ==
  /\ life \in [Sessions -> {"new", "alive", "dead"}]
  /\ owner \in [Sessions -> Accounts \cup {NoAccount}]
  /\ \A s \in Sessions : life[s] = "alive" => owner[s] \in Accounts
  /\ attr \subseteq Sessions /\ current \subseteq Sessions
  /\ known \subseteq Sessions /\ rows \subseteq Sessions /\ purging \subseteq Sessions
  /\ login \in [Sessions -> [pc : Pc, todo : SUBSET Sessions]]
  /\ up \subseteq Servers /\ stops \in Nat
  /\ cutOff \subseteq Sessions /\ wiped \subseteq Sessions

\* A row of a session that has ended, and that no listener is about to delete,
\* is left only when the session ended during its own login or with its server.
StaleRowsExplained ==
  \A s \in rows : life[s] = "dead" /\ s \notin purging => s \in cutOff

\* A finished login can be used: its row and its CURRENT_ID are there, until a
\* server that stops or starts empties the table; where a login ends the account's
\* other sessions it may meet one it cannot end, and is then not recorded.
LoginIsUsable ==
  \A s \in attr :
    login[s].pc = "done" => s \in rows \cap current \/ s \in wiped
                           \/ ServerOf[s] \in Exclusive

\* A row disappears only when its own session ends or is refused, when a login
\* to the same account ends it, or when a server empties the table.
RowsLeaveForAReason ==
  [][\A s \in rows \ rows' :
       \/ s \in purging \/ s \in attr \ attr'
       \/ /\ life'[s] = "dead"
          /\ \E k \in Sessions : login[k].pc = "clean" /\ owner[k] = owner[s]
       \/ up' # up]_vars

\* "Clear the records of the sessionIds the same account logged in with before":
\* once a login is through, none of the rows it found is left, except those
\* whose own session is on its way out.
EarlierRecordsCleared ==
  \A s \in Sessions : login[s].pc = "done" => login[s].todo \cap rows \subseteq purging
=============================================================================
