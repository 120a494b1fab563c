------------------------- MODULE LoginSessionProofs -------------------------
(***************************************************************************)
(* Proofs about LoginSession, for any sessions, accounts and servers.      *)
(***************************************************************************)
EXTENDS LoginSession, TLAPS

\* Before the first login every value is in its domain.
LEMMA TypeInit == Init => TypeOK
BY ConstantsAssumption DEF Init, TypeOK, Pc

\* Logins, logouts, refusals and servers keep the domains.
LEMMA TypeNext == TypeOK /\ [Next]_vars => TypeOK'
<1> USE DEF TypeOK
<1> SUFFICES ASSUME TypeOK, [Next]_vars PROVE TypeOK' OBVIOUS
<1>1. ASSUME NEW s \in Sessions, NEW pc \in Pc, GoTo(s, pc)
      PROVE login' \in [Sessions -> [pc : Pc, todo : SUBSET Sessions]]
  BY <1>1 DEF GoTo
<1>2. ASSUME NEW s \in Sessions, NEW a \in Accounts, Begin(s, a) PROVE TypeOK'
  <2>1. \E pc \in Pc : GoTo(s, pc) BY <1>2 DEF Begin, Pc
  <2>2. known' \subseteq Sessions BY <1>2 DEF Begin, Put
  <2>3. /\ life' \in [Sessions -> {"new", "alive", "dead"}]
        /\ owner' \in [Sessions -> Accounts \cup {NoAccount}]
        /\ \A k \in Sessions : life'[k] = "alive" => owner'[k] \in Accounts
    BY <1>2 DEF Begin
  <2> QED BY <1>1, <2>1, <2>2, <2>3, <1>2 DEF Begin, history
<1>3. ASSUME NEW s \in Sessions, Find(s) PROVE TypeOK'
  BY <1>3 DEF Find, RowsOf, Pc, history
<1>4. ASSUME NEW s \in Sessions, Cleaned(s) \/ Write(s) \/ Current(s) PROVE TypeOK'
  <2>1. \E pc \in Pc : GoTo(s, pc) BY <1>4 DEF Cleaned, Write, Current, Pc
  <2> QED BY <1>1, <2>1, <1>4 DEF Cleaned, Write, Current, history
<1>5. ASSUME NEW s \in Sessions, NEW x \in Sessions, Invalidate(s, x) PROVE TypeOK'
  <2>1. login' \in [Sessions -> [pc : Pc, todo : SUBSET Sessions]] BY <1>5 DEF Invalidate
  <2> QED BY <2>1, <1>5 DEF Invalidate
<1>6. ASSUME NEW s \in Sessions, NEW x \in Sessions, InvalidateFails(s, x) PROVE TypeOK'
  <2>1. "current" \in Pc BY DEF Pc
  <2> QED BY <1>1, <2>1, <1>6 DEF InvalidateFails, history
<1>7. ASSUME NEW s \in Sessions, End(s) \/ Purge(s) \/ Refuse(s) PROVE TypeOK'
  BY <1>7 DEF End, Purge, Refuse, history
<1>8. ASSUME NEW v \in Servers, Start(v) PROVE TypeOK'
  BY <1>8 DEF Start, Living
<1>9. ASSUME NEW v \in Servers, NEW orderly \in BOOLEAN, Stop(v, orderly) PROVE TypeOK'
  <2>1. login' \in [Sessions -> [pc : Pc, todo : SUBSET Sessions]]
    BY <1>9 DEF Stop, Pc
  <2> QED BY <2>1, <1>9, ConstantsAssumption DEF Stop, Living, Of, ConstantsAssumption
<1>10. CASE UNCHANGED vars BY <1>10 DEF vars, history
<1> QED BY <1>2, <1>3, <1>4, <1>5, <1>6, <1>7, <1>8, <1>9, <1>10 DEF Next, LoginStep

\* The state keeps its domains, and whoever has logged in has an account.
THEOREM TypeCorrect == Spec => []TypeOK
BY TypeInit, TypeNext, PTL DEF Spec
-----------------------------------------------------------------------------
\* What each session's traces say about its life.
TracesSound ==
  /\ \A s \in Sessions : InLogin(s) \/ s \in rows => life[s] # "new"
  /\ \A s \in attr : life[s] = "alive"
  /\ \A s \in purging : life[s] = "dead"
  /\ \A s \in Sessions : InLogin(s) /\ life[s] = "dead" => s \in cutOff
  /\ \A s \in Sessions :
       login[s].pc \in {"find", "clean"} => ServerOf[s] \in Exclusive
  /\ \A s \in attr :
       login[s].pc = "current" => s \in rows \cup wiped \/ ServerOf[s] \in Exclusive
  /\ \A s \in Sessions : login[s].pc = "clean" =>
       \A x \in login[s].todo : life[x] # "new" /\ owner[x] = owner[s]

IInv == TracesSound /\ StaleRowsExplained /\ LoginIsUsable

\* Before the first login there are no traces.
LEMMA IInvInit == Init => IInv
BY DEF Init, IInv, TracesSound, StaleRowsExplained, LoginIsUsable, InLogin

\* Each step of a login, of the end of a session or of a server keeps it.
LEMMA IInvNext == TypeOK /\ IInv /\ [Next]_vars => IInv'
<1> USE DEF TypeOK, IInv, TracesSound, StaleRowsExplained, LoginIsUsable, InLogin
<1> SUFFICES ASSUME TypeOK, IInv, [Next]_vars PROVE IInv' OBVIOUS
<1>1. ASSUME NEW s \in Sessions, NEW a \in Accounts, Begin(s, a) PROVE IInv'
  BY <1>1 DEF Begin, GoTo, history
<1>2. ASSUME NEW s \in Sessions, Find(s) PROVE IInv'
  BY <1>2 DEF Find, RowsOf, history
<1>3. ASSUME NEW s \in Sessions, Cleaned(s) PROVE IInv'
  BY <1>3 DEF Cleaned, GoTo, history
<1>4. ASSUME NEW s \in Sessions, Write(s) PROVE IInv'
  BY <1>4 DEF Write, GoTo, history
<1>5. ASSUME NEW s \in Sessions, Current(s) PROVE IInv'
  BY <1>5 DEF Current, GoTo, history
<1>6. ASSUME NEW s \in Sessions, NEW x \in Sessions, Invalidate(s, x) PROVE IInv'
  BY <1>6 DEF Invalidate
<1>7. ASSUME NEW s \in Sessions, NEW x \in Sessions, InvalidateFails(s, x) PROVE IInv'
  BY <1>7 DEF InvalidateFails, GoTo, history
<1>8. ASSUME NEW s \in Sessions, End(s) PROVE IInv'
  BY <1>8 DEF End
<1>9. ASSUME NEW s \in Sessions, Purge(s) PROVE IInv'
  BY <1>9 DEF Purge, history
<1>10. ASSUME NEW s \in Sessions, Refuse(s) PROVE IInv'
  BY <1>10 DEF Refuse, history
<1>11. ASSUME NEW v \in Servers, Start(v) PROVE IInv'
  BY <1>11 DEF Start, Living
<1>12. ASSUME NEW v \in Servers, NEW orderly \in BOOLEAN, Stop(v, orderly) PROVE IInv'
  BY <1>12 DEF Stop, Living, Of
<1>13. CASE UNCHANGED vars BY <1>13 DEF vars, history
<1> QED BY <1>1, <1>2, <1>3, <1>4, <1>5, <1>6, <1>7, <1>8, <1>9, <1>10, <1>11, <1>12, <1>13
        DEF Next, LoginStep

\* The inductive invariant holds.
THEOREM Inductive == Spec => []IInv
BY IInvInit, IInvNext, TypeCorrect, PTL DEF Spec

\* A row outlives its session only if the session ended while it was logging in,
\* or with its server.
THEOREM StaleRows == Spec => []StaleRowsExplained
<1>1. IInv => StaleRowsExplained BY DEF IInv
<1> QED BY <1>1, Inductive, PTL

\* On a server with the shipped setting every finished login can be used until
\* some server empties the table.
THEOREM UsableLogins == Spec => []LoginIsUsable
<1>1. IInv => LoginIsUsable BY DEF IInv
<1> QED BY <1>1, Inductive, PTL
-----------------------------------------------------------------------------
\* No login, logout or refusal deletes the row of a session that is none of its
\* business: one that goes on, of another account, while no server stops or starts.
THEOREM RowLosses == Spec => RowsLeaveForAReason
<1> DEFINE Reason(s) ==
      \/ s \in purging \/ s \in attr \ attr'
      \/ /\ life'[s] = "dead"
         /\ \E k \in Sessions : login[k].pc = "clean" /\ owner[k] = owner[s]
      \/ up' # up
<1>1. TypeOK /\ IInv /\ [Next]_vars => [\A s \in rows \ rows' : Reason(s)]_vars
  <2> SUFFICES ASSUME TypeOK, IInv, [Next]_vars, NEW s \in rows \ rows'
               PROVE Reason(s)
    OBVIOUS
  <2> USE DEF TypeOK
  <2>1. ASSUME NEW k \in Sessions, NEW a \in Accounts, Begin(k, a) PROVE Reason(s)
    BY <2>1 DEF Begin
  <2>2. ASSUME NEW k \in Sessions, Find(k) \/ Cleaned(k) \/ Write(k) \/ Current(k)
        PROVE Reason(s)
    BY <2>2 DEF Find, Cleaned, Write, Current
  <2>3. ASSUME NEW k \in Sessions, NEW x \in Sessions, Invalidate(k, x) PROVE Reason(s)
    <3>1. s \in {k, x} /\ life'[s] = "dead" BY <2>3 DEF Invalidate
    <3>2. login[k].pc = "clean" /\ owner[k] = owner[s]
      BY <2>3, <3>1 DEF Invalidate, IInv, TracesSound
    <3> QED BY <3>1, <3>2
  <2>4. ASSUME NEW k \in Sessions, NEW x \in Sessions, InvalidateFails(k, x)
        PROVE Reason(s)
    BY <2>4 DEF InvalidateFails
  <2>5. ASSUME NEW k \in Sessions, End(k) \/ Purge(k) \/ Refuse(k) PROVE Reason(s)
    BY <2>5 DEF End, Purge, Refuse
  <2>6. ASSUME NEW v \in Servers, Start(v) PROVE Reason(s) BY <2>6 DEF Start
  <2>7. ASSUME NEW v \in Servers, NEW orderly \in BOOLEAN, Stop(v, orderly)
        PROVE Reason(s)
    BY <2>7 DEF Stop
  <2>8. CASE UNCHANGED vars BY <2>8 DEF vars
  <2> QED BY <2>1, <2>2, <2>3, <2>4, <2>5, <2>6, <2>7, <2>8 DEF Next, LoginStep
<1> QED BY <1>1, TypeCorrect, Inductive, PTL DEF Spec, RowsLeaveForAReason
-----------------------------------------------------------------------------
(* The shipped setting *)

\* With the shipped setting no login looks for other sessions.
LEMMA NobodyCleans ==
  ASSUME Exclusive = {}, IInv, NEW s \in Sessions
  PROVE  login[s].pc \notin {"find", "clean"}
BY DEF IInv, TracesSound

\* With the shipped setting nobody's login or logout touches anybody else's: a row
\* goes only with its own session, which is ending, refused or on a server that
\* stops, and a session ends only by its own logout or timeout, or with a server.
THEOREM LoginsDoNotInterfere ==
  ASSUME Exclusive = {}
  PROVE  Spec => [][ /\ \A s \in rows \ rows' : s \in purging \/ s \in attr \ attr' \/ up' # up
                     /\ \A s \in Sessions :
                          life[s] = "alive" /\ life'[s] = "dead"
                            => s \in purging' \/ up' # up ]_vars
<1> DEFINE Own == /\ \A s \in rows \ rows' : s \in purging \/ s \in attr \ attr' \/ up' # up
                  /\ \A s \in Sessions :
                       (life[s] = "alive" /\ life'[s] = "dead") => s \in purging' \/ up' # up
<1>1. TypeOK /\ IInv /\ [Next]_vars => Own
  <2> SUFFICES ASSUME TypeOK, IInv, [Next]_vars PROVE Own
    OBVIOUS
  <2> USE DEF TypeOK
  <2>1. ASSUME NEW k \in Sessions, NEW a \in Accounts, Begin(k, a) PROVE Own
    BY <2>1 DEF Begin
  <2>2. ASSUME NEW k \in Sessions, Find(k) \/ Cleaned(k) \/ Write(k) \/ Current(k) PROVE Own
    BY <2>2 DEF Find, Cleaned, Write, Current
  <2>3. ASSUME NEW k \in Sessions, NEW x \in Sessions, Invalidate(k, x) \/ InvalidateFails(k, x)
        PROVE  FALSE
    BY <2>3, NobodyCleans DEF Invalidate, InvalidateFails
  <2>4. ASSUME NEW k \in Sessions, End(k) PROVE Own
    BY <2>4 DEF End
  <2>5. ASSUME NEW k \in Sessions, Purge(k) \/ Refuse(k) PROVE Own
    BY <2>5 DEF Purge, Refuse
  <2>6. ASSUME NEW v \in Servers, Start(v) PROVE Own
    BY <2>6 DEF Start
  <2>7. ASSUME NEW v \in Servers, NEW orderly \in BOOLEAN, Stop(v, orderly) PROVE Own
    BY <2>7 DEF Stop
  <2>8. CASE UNCHANGED vars
    BY <2>8 DEF vars
  <2> QED BY <2>1, <2>2, <2>3, <2>4, <2>5, <2>6, <2>7, <2>8 DEF Next, LoginStep
<1> QED BY <1>1, TypeCorrect, Inductive, PTL DEF Spec

\* With the shipped setting, and while every server stays up, a login that is
\* through is recorded and can be used: its row and its CURRENT_ID are there for
\* as long as the session has its attribute.
THEOREM LoginsLast ==
  ASSUME Exclusive = {}, MaxStops = 0
  PROVE  Spec => [](\A s \in attr : login[s].pc = "done" => s \in rows \cap current)
<1> DEFINE AllUp == up = Servers /\ stops = 0 /\ wiped = {}
<1>1. Init => AllUp
  BY DEF Init
<1>2. AllUp /\ [Next]_vars => AllUp'
  BY DEF Next, LoginStep, vars, history, Begin, Find, Cleaned, Write, Current, Invalidate,
     InvalidateFails, End, Purge, Refuse, Stop, Start
<1>3. IInv /\ AllUp => \A s \in attr : login[s].pc = "done" => s \in rows \cap current
  <2> SUFFICES ASSUME IInv, AllUp, NEW s \in attr, login[s].pc = "done"
               PROVE  s \in rows \cap current
    OBVIOUS
  <2> QED BY DEF IInv, LoginIsUsable
<1> HIDE DEF AllUp
<1> QED BY <1>1, <1>2, <1>3, Inductive, PTL DEF Spec
-----------------------------------------------------------------------------
(* Ended sessions *)

\* The container runs sessionDestroyed to its end.
Runs(s) == []<>(s \notin purging) \/ []<><<Purge(s)>>_vars

\* A session that has ended never lives again, and its row, when it is the
\* listener's to delete, waits for it.
LEMMA EndedStep ==
  ASSUME TypeOK, [Next]_vars, NEW s \in Sessions, life[s] = "dead"
  PROVE  /\ life'[s] = "dead"
         /\ s \in purging => s \in purging' \/ s \notin rows' \/ s \in cutOff'
<1> USE DEF TypeOK
<1> DEFINE Waits == /\ life'[s] = "dead"
                    /\ s \in purging => s \in purging' \/ s \notin rows' \/ s \in cutOff'
<1>1. ASSUME NEW k \in Sessions, NEW a \in Accounts, Begin(k, a) PROVE Waits
  BY <1>1 DEF Begin
<1>2. ASSUME NEW k \in Sessions, Find(k) \/ Cleaned(k) \/ Write(k) \/ Current(k) PROVE Waits
  BY <1>2 DEF Find, Cleaned, Write, Current
<1>3. ASSUME NEW k \in Sessions, NEW x \in Sessions, Invalidate(k, x) \/ InvalidateFails(k, x)
      PROVE  Waits
  BY <1>3 DEF Invalidate, InvalidateFails
<1>4. ASSUME NEW k \in Sessions, End(k) \/ Purge(k) \/ Refuse(k) PROVE Waits
  BY <1>4 DEF End, Purge, Refuse
<1>5. ASSUME NEW v \in Servers, Start(v) PROVE Waits
  BY <1>5 DEF Start
<1>6. ASSUME NEW v \in Servers, NEW orderly \in BOOLEAN, Stop(v, orderly) PROVE Waits
  BY <1>6 DEF Stop
<1>7. CASE UNCHANGED vars
  BY <1>7 DEF vars
<1> QED BY <1>1, <1>2, <1>3, <1>4, <1>5, <1>6, <1>7 DEF Next, LoginStep

\* The record of a session that has ended is deleted, once sessionDestroyed is
\* through, unless the session ended during its own login or with its server:
\* no login on another session brings it back.
THEOREM EndedSessionsAreForgotten ==
  Spec /\ (\A s \in Sessions : Runs(s))
    => \A s \in Sessions : life[s] = "dead" ~> s \notin rows \/ s \in cutOff
<1> SUFFICES ASSUME NEW s \in Sessions
             PROVE  Spec /\ (\A k \in Sessions : Runs(k))
                      => (life[s] = "dead" ~> s \notin rows \/ s \in cutOff)
  OBVIOUS
<1> DEFINE Dead == life[s] = "dead"
           Over == s \notin rows \/ s \in cutOff
           Purging == s \in purging
           Purged == s \notin purging
<1>1. IInv /\ Dead => Purging \/ Over
  BY DEF IInv, StaleRowsExplained
<1>2. TypeOK /\ Dead /\ [Next]_vars => Dead'
  BY EndedStep
<1>3. TypeOK /\ Dead /\ Purging /\ [Next]_vars => Purging' \/ Over'
  BY EndedStep
<1>4. <<Purge(s)>>_vars => Over'
  BY DEF Purge
<1>5. (\A k \in Sessions : Runs(k)) => Runs(s)
  OBVIOUS
<1> HIDE DEF Dead, Over
<1>6. Spec /\ Runs(s) => (Dead ~> Over)
  <2>1. Runs(s) => []<>Purged \/ []<><<Purge(s)>>_vars
    BY DEF Runs
  <2>2. Purged <=> ~Purging
    OBVIOUS
  <2> HIDE DEF Purging, Purged
  <2> QED BY <1>1, <1>2, <1>3, <1>4, <2>1, <2>2, TypeCorrect, Inductive, PTL DEF Spec
<1>7. Spec /\ (\A k \in Sessions : Runs(k)) => (Dead ~> Over)
  BY <1>5, <1>6
<1> QED BY <1>7 DEF Dead, Over
=============================================================================
