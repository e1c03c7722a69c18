--------------------------- MODULE SessionsProofs ---------------------------
(***************************************************************************)
(* Proofs about Sessions, for any number of connections, UINs and cookies. *)
(***************************************************************************)
EXTENDS Sessions, TLAPS

USE SessionsAssumption

----------------------------------------------------------------------------
(* Type correctness. A look-up sessions[uin[c]] only has a value while the *)
(* connection has an identity, so the places where it has one belong to    *)
(* the invariant.                                                          *)

\* Where a connection has an identity, and where it has none.
Identified ==
  \A c \in Conns :
    /\ pc[c] \in {"replace", "stopOld", "closeOld", "delete", "clear"}
         => uin[c] # NoUin
    /\ pc[c] \in {"idle", "close", "done"} => uin[c] = NoUin

TypeInv == TypeOK /\ Identified

LEMMA TypeInit == Init => TypeInv
  BY DEF Init, TypeInv, Identified, TypeOK, Places, Registered, Entry

LEMMA TypeNext == TypeInv /\ [Next]_vars => TypeInv'
<1> SUFFICES ASSUME TypeInv, [Next]_vars PROVE TypeInv'
  OBVIOUS
<1> USE DEF TypeInv, Identified, TypeOK, Places, Registered, GoTo, Resume,
            local, shared, history
<1>1. ASSUME NEW c \in Conns, Accept(c) PROVE TypeInv'
  BY <1>1 DEF Accept
<1>2. ASSUME NEW c \in Conns, PeerClose(c) PROVE TypeInv'
  BY <1>2 DEF PeerClose
<1>3. ASSUME NEW c \in Conns, ReadError(c) PROVE TypeInv'
  BY <1>3 DEF ReadError
<1>4. ASSUME NEW c \in Conns, ReadTimeout(c) PROVE TypeInv'
  BY <1>4 DEF ReadTimeout
<1>5. ASSUME NEW c \in Conns, OtherFrame(c) PROVE TypeInv'
  BY <1>5 DEF OtherFrame
<1>6. ASSUME NEW c \in Conns, SignOff(c) PROVE TypeInv'
  BY <1>6 DEF SignOff, StopSelf
<1>7. ASSUME NEW c \in Conns, LoginRefused(c) PROVE TypeInv'
  BY <1>7 DEF LoginRefused, StopSelf
<1>8. ASSUME NEW c \in Conns, NEW k \in Cookies, NEW u \in Uins, GrantCookie(c, k, u)
      PROVE TypeInv'
  <2>1. ledger' \in [Cookies -> Entry]
    BY <1>8 DEF GrantCookie, Entry
  <2>2. QED
    BY <1>8, <2>1 DEF GrantCookie, StopSelf, SetCookie
<1>9. ASSUME NEW c \in Conns, BosRefused(c) PROVE TypeInv'
  BY <1>9 DEF BosRefused, StopSelf
<1>10. ASSUME NEW c \in Conns, NEW k \in Cookies, BosAuth(c, k) PROVE TypeInv'
  <2>1. ledger' \in [Cookies -> Entry]
    BY <1>10 DEF BosAuth, Entry
  <2>2. QED
    BY <1>10, <2>1 DEF BosAuth, PopCookie, TakeIdentity
<1>11. ASSUME NEW c \in Conns, BosReplace(c) PROVE TypeInv'
  BY <1>11 DEF BosReplace
<1>12. ASSUME NEW c \in Conns, StopOld(c) PROVE TypeInv'
  BY <1>12 DEF StopOld
<1>13. ASSUME NEW c \in Conns, CloseOld(c) PROVE TypeInv'
  BY <1>13 DEF CloseOld
<1>14. ASSUME NEW c \in Conns, CleanupCheck(c) PROVE TypeInv'
  BY <1>14 DEF CleanupCheck
<1>15. ASSUME NEW c \in Conns, CleanupDelete(c) PROVE TypeInv'
  BY <1>15 DEF CleanupDelete
<1>16. ASSUME NEW c \in Conns, CleanupClear(c) PROVE TypeInv'
  BY <1>16 DEF CleanupClear
<1>17. ASSUME NEW c \in Conns, CleanupClose(c) PROVE TypeInv'
  BY <1>17 DEF CleanupClose
<1>18. ASSUME UNCHANGED vars PROVE TypeInv'
  BY <1>18 DEF vars
<1>19. QED
  BY <1>1, <1>2, <1>3, <1>4, <1>5, <1>6, <1>7, <1>8, <1>9, <1>10, <1>11, <1>12,
     <1>13, <1>14, <1>15, <1>16, <1>17, <1>18
     DEF Next, Step, LoginAccepted, Proceed, WindUp, AllGone

LEMMA TypeInvariant == Spec => []TypeInv
  BY TypeInit, TypeNext, PTL DEF Spec

\* In every reachable state each variable of the session layer has its type:
\* no look-up in the registry is made without an identity, and no operation
\* stores anything but a session, a UIN or their absence.
THEOREM TypeCorrect == Spec => []TypeOK
  BY TypeInvariant, PTL DEF TypeInv

----------------------------------------------------------------------------
(* Every live session is registered, being ended, or clobbered. The        *)
(* invariant that carries it: the session a sign-on found registered had   *)
(* been accepted, so it cannot start anew; once stopped it stays stopped.  *)

KickInv ==
  /\ \A u \in Uins : sessions[u] # NoConn => pc[sessions[u]] # "idle"
  /\ \A d \in Conns : pc[d] \in {"stopOld", "closeOld"} =>
       old[d] \in Conns /\ pc[old[d]] # "idle"
  /\ \A d \in Conns : pc[d] = "closeOld" => ~running[old[d]]

LEMMA KickInit == Init => KickInv
  BY DEF Init, KickInv

LEMMA KickNext ==
  ASSUME TypeInv, KickInv, [Next]_vars
  PROVE  KickInv'
<1> USE DEF TypeInv, Identified, TypeOK, KickInv, Registered, Places, GoTo,
            Resume, local, shared, history
<1>1. ASSUME NEW c \in Conns, Accept(c) PROVE KickInv'
  BY <1>1 DEF Accept
<1>2. ASSUME NEW c \in Conns, PeerClose(c) PROVE KickInv'
  BY <1>2 DEF PeerClose
<1>3. ASSUME NEW c \in Conns, ReadError(c) PROVE KickInv'
  BY <1>3 DEF ReadError
<1>4. ASSUME NEW c \in Conns, ReadTimeout(c) PROVE KickInv'
  BY <1>4 DEF ReadTimeout
<1>5. ASSUME NEW c \in Conns, OtherFrame(c) PROVE KickInv'
  BY <1>5 DEF OtherFrame
<1>6. ASSUME NEW c \in Conns, SignOff(c) PROVE KickInv'
  BY <1>6 DEF SignOff, StopSelf
<1>7. ASSUME NEW c \in Conns, LoginRefused(c) PROVE KickInv'
  BY <1>7 DEF LoginRefused, StopSelf
<1>8. ASSUME NEW c \in Conns, NEW k \in Cookies, NEW u \in Uins, GrantCookie(c, k, u)
      PROVE KickInv'
  BY <1>8 DEF GrantCookie, StopSelf, SetCookie
<1>9. ASSUME NEW c \in Conns, BosRefused(c) PROVE KickInv'
  BY <1>9 DEF BosRefused, StopSelf
<1>10. ASSUME NEW c \in Conns, NEW k \in Cookies, BosAuth(c, k) PROVE KickInv'
  BY <1>10 DEF BosAuth, PopCookie, TakeIdentity
<1>11. ASSUME NEW c \in Conns, BosReplace(c) PROVE KickInv'
  BY <1>11 DEF BosReplace
<1>12. ASSUME NEW c \in Conns, StopOld(c) PROVE KickInv'
  BY <1>12 DEF StopOld
<1>13. ASSUME NEW c \in Conns, CloseOld(c) PROVE KickInv'
  BY <1>13 DEF CloseOld
<1>14. ASSUME NEW c \in Conns, CleanupCheck(c) PROVE KickInv'
  BY <1>14 DEF CleanupCheck
<1>15. ASSUME NEW c \in Conns, CleanupDelete(c) PROVE KickInv'
  BY <1>15 DEF CleanupDelete
<1>16. ASSUME NEW c \in Conns, CleanupClear(c) PROVE KickInv'
  BY <1>16 DEF CleanupClear
<1>17. ASSUME NEW c \in Conns, CleanupClose(c) PROVE KickInv'
  BY <1>17 DEF CleanupClose
<1>18. ASSUME UNCHANGED vars PROVE KickInv'
  BY <1>18 DEF vars
<1>19. QED
  BY <1>1, <1>2, <1>3, <1>4, <1>5, <1>6, <1>7, <1>8, <1>9, <1>10, <1>11, <1>12,
     <1>13, <1>14, <1>15, <1>16, <1>17, <1>18
     DEF Next, Step, LoginAccepted, Proceed, WindUp, AllGone

LEMMA ClobberInit == Init => OnlyClobberedUnregistered
  BY DEF Init, OnlyClobberedUnregistered

LEMMA ClobberNext ==
  ASSUME TypeInv, KickInv, OnlyClobberedUnregistered, [Next]_vars
  PROVE  OnlyClobberedUnregistered'
<1> USE DEF TypeInv, Identified, TypeOK, KickInv, OnlyClobberedUnregistered,
            BeingKicked, Registered, Places, GoTo, Resume, local, shared, history
<1>1. ASSUME NEW c \in Conns, Accept(c) PROVE OnlyClobberedUnregistered'
  BY <1>1 DEF Accept
<1>2. ASSUME NEW c \in Conns, PeerClose(c) PROVE OnlyClobberedUnregistered'
  BY <1>2 DEF PeerClose
<1>3. ASSUME NEW c \in Conns, ReadError(c) PROVE OnlyClobberedUnregistered'
  BY <1>3 DEF ReadError
<1>4. ASSUME NEW c \in Conns, ReadTimeout(c) PROVE OnlyClobberedUnregistered'
  BY <1>4 DEF ReadTimeout
<1>5. ASSUME NEW c \in Conns, OtherFrame(c) PROVE OnlyClobberedUnregistered'
  BY <1>5 DEF OtherFrame
<1>6. ASSUME NEW c \in Conns, SignOff(c) PROVE OnlyClobberedUnregistered'
  BY <1>6 DEF SignOff, StopSelf
<1>7. ASSUME NEW c \in Conns, LoginRefused(c) PROVE OnlyClobberedUnregistered'
  BY <1>7 DEF LoginRefused, StopSelf
<1>8. ASSUME NEW c \in Conns, NEW k \in Cookies, NEW u \in Uins, GrantCookie(c, k, u)
      PROVE OnlyClobberedUnregistered'
  BY <1>8 DEF GrantCookie, StopSelf, SetCookie
<1>9. ASSUME NEW c \in Conns, BosRefused(c) PROVE OnlyClobberedUnregistered'
  BY <1>9 DEF BosRefused, StopSelf
<1>10. ASSUME NEW c \in Conns, NEW k \in Cookies, BosAuth(c, k)
      PROVE OnlyClobberedUnregistered'
  BY <1>10 DEF BosAuth, PopCookie, TakeIdentity
<1>11. ASSUME NEW c \in Conns, BosReplace(c) PROVE OnlyClobberedUnregistered'
  BY <1>11 DEF BosReplace
<1>12. ASSUME NEW c \in Conns, StopOld(c) PROVE OnlyClobberedUnregistered'
  BY <1>12 DEF StopOld
<1>13. ASSUME NEW c \in Conns, CloseOld(c) PROVE OnlyClobberedUnregistered'
  BY <1>13 DEF CloseOld
<1>14. ASSUME NEW c \in Conns, CleanupCheck(c) PROVE OnlyClobberedUnregistered'
  BY <1>14 DEF CleanupCheck
<1>15. ASSUME NEW c \in Conns, CleanupDelete(c) PROVE OnlyClobberedUnregistered'
  BY <1>15 DEF CleanupDelete
<1>16. ASSUME NEW c \in Conns, CleanupClear(c) PROVE OnlyClobberedUnregistered'
  BY <1>16 DEF CleanupClear
<1>17. ASSUME NEW c \in Conns, CleanupClose(c) PROVE OnlyClobberedUnregistered'
  BY <1>17 DEF CleanupClose
<1>18. ASSUME UNCHANGED vars PROVE OnlyClobberedUnregistered'
  BY <1>18 DEF vars
<1>19. QED
  BY <1>1, <1>2, <1>3, <1>4, <1>5, <1>6, <1>7, <1>8, <1>9, <1>10, <1>11, <1>12,
     <1>13, <1>14, <1>15, <1>16, <1>17, <1>18
     DEF Next, Step, LoginAccepted, Proceed, WindUp, AllGone

\* However sign-ons and clean-ups interleave, and even when clients switch
\* UINs, the only signed-on sessions that can be lost from the registry while
\* they live are those whose entry an older session's cleanup removed.
THEOREM OnlyClobberedAreLost == Spec => []OnlyClobberedUnregistered
<1>1. TypeInv /\ KickInv /\ [Next]_vars => KickInv'
  BY KickNext
<1>2. TypeInv /\ KickInv /\ OnlyClobberedUnregistered /\ [Next]_vars
        => OnlyClobberedUnregistered'
  BY ClobberNext
<1>3. QED
  BY <1>1, <1>2, TypeInvariant, KickInit, ClobberInit, PTL DEF Spec

\* A kick under way, or done for good.
CutOff(c) == BeingKicked(c) \/ (~running[c] /\ ~open[c] /\ pc[c] # "idle")

LEMMA CutOffNext ==
  ASSUME TypeInv, KickInv, [Next]_vars, NEW e \in Conns, CutOff(e)
  PROVE  CutOff(e)'
<1> USE DEF TypeInv, Identified, TypeOK, KickInv, CutOff,
            BeingKicked, Places, GoTo, Resume, local, shared, history
<1>1. ASSUME NEW c \in Conns, Accept(c) PROVE CutOff(e)'
  BY <1>1 DEF Accept
<1>2. ASSUME NEW c \in Conns, PeerClose(c) PROVE CutOff(e)'
  BY <1>2 DEF PeerClose
<1>3. ASSUME NEW c \in Conns, ReadError(c) PROVE CutOff(e)'
  BY <1>3 DEF ReadError
<1>4. ASSUME NEW c \in Conns, ReadTimeout(c) PROVE CutOff(e)'
  BY <1>4 DEF ReadTimeout
<1>5. ASSUME NEW c \in Conns, OtherFrame(c) PROVE CutOff(e)'
  BY <1>5 DEF OtherFrame
<1>6. ASSUME NEW c \in Conns, SignOff(c) PROVE CutOff(e)'
  BY <1>6 DEF SignOff, StopSelf
<1>7. ASSUME NEW c \in Conns, LoginRefused(c) PROVE CutOff(e)'
  BY <1>7 DEF LoginRefused, StopSelf
<1>8. ASSUME NEW c \in Conns, NEW k \in Cookies, NEW u \in Uins, GrantCookie(c, k, u)
      PROVE CutOff(e)'
  BY <1>8 DEF GrantCookie, StopSelf, SetCookie
<1>9. ASSUME NEW c \in Conns, BosRefused(c) PROVE CutOff(e)'
  BY <1>9 DEF BosRefused, StopSelf
<1>10. ASSUME NEW c \in Conns, NEW k \in Cookies, BosAuth(c, k) PROVE CutOff(e)'
  BY <1>10 DEF BosAuth, PopCookie, TakeIdentity
<1>11. ASSUME NEW c \in Conns, BosReplace(c) PROVE CutOff(e)'
  BY <1>11 DEF BosReplace
<1>12. ASSUME NEW c \in Conns, StopOld(c) PROVE CutOff(e)'
  BY <1>12 DEF StopOld
<1>13. ASSUME NEW c \in Conns, CloseOld(c) PROVE CutOff(e)'
  BY <1>13 DEF CloseOld
<1>14. ASSUME NEW c \in Conns, CleanupCheck(c) PROVE CutOff(e)'
  BY <1>14 DEF CleanupCheck
<1>15. ASSUME NEW c \in Conns, CleanupDelete(c) PROVE CutOff(e)'
  BY <1>15 DEF CleanupDelete
<1>16. ASSUME NEW c \in Conns, CleanupClear(c) PROVE CutOff(e)'
  BY <1>16 DEF CleanupClear
<1>17. ASSUME NEW c \in Conns, CleanupClose(c) PROVE CutOff(e)'
  BY <1>17 DEF CleanupClose
<1>18. ASSUME UNCHANGED vars PROVE CutOff(e)'
  BY <1>18 DEF vars
<1>19. QED
  BY <1>1, <1>2, <1>3, <1>4, <1>5, <1>6, <1>7, <1>8, <1>9, <1>10, <1>11, <1>12,
     <1>13, <1>14, <1>15, <1>16, <1>17, <1>18
     DEF Next, Step, LoginAccepted, Proceed, WindUp, AllGone

\* What SupersededEventuallyEnds rests on: once a sign-on has begun to end an older
\* session, that session is being ended or has been stopped and its socket closed,
\* for ever after: nothing in between (its own sign-on, its cleanup, the end of the
\* newer session) calls the kick off or starts it again.
THEOREM KicksAreFinal ==
  ASSUME NEW c \in Conns
  PROVE  Spec => [](BeingKicked(c) => []CutOff(c))
<1>1. TypeInv /\ KickInv /\ [Next]_vars => KickInv'
  BY KickNext
<1>2. TypeInv /\ KickInv /\ [Next]_vars /\ CutOff(c) => CutOff(c)'
  BY CutOffNext
<1>3. BeingKicked(c) => CutOff(c)
  BY DEF CutOff
<1>4. QED
  BY <1>1, <1>2, <1>3, TypeInvariant, KickInit, PTL DEF Spec

----------------------------------------------------------------------------
(* Logins. A pending cookie has an issuer and no redeemer yet, and an      *)
(* identity comes with a cookie redeemed for it.                           *)

LedgerInv ==
  /\ \A k \in Cookies : pendingCookies[k] # NoUin =>
       /\ ledger[k].issuer # NoConn
       /\ ledger[k].redeemer = NoConn
       /\ ledger[k].owner = pendingCookies[k]
  /\ \A k \in Cookies : ledger[k].issuer = NoConn =>
       /\ pendingCookies[k] = NoUin
       /\ ledger[k].redeemer = NoConn
  /\ \A c \in Conns : uin[c] # NoUin => uin[c] \in Grants(c)

LEMMA LedgerInit == Init => LedgerInv
  BY DEF Init, LedgerInv, Entry

\* A connection never loses what a cookie granted it.
LEMMA GrantsGrow ==
  ASSUME TypeInv, LedgerInv, [Next]_vars, NEW d \in Conns
  PROVE  Grants(d) \subseteq Grants(d)'
<1> USE DEF TypeInv, TypeOK, LedgerInv, Grants, Entry, local, shared, history
<1>1. ASSUME NEW c \in Conns, Accept(c) PROVE Grants(d) \subseteq Grants(d)'
  BY <1>1 DEF Accept
<1>2. ASSUME NEW c \in Conns, PeerClose(c) PROVE Grants(d) \subseteq Grants(d)'
  BY <1>2 DEF PeerClose
<1>3. ASSUME NEW c \in Conns, ReadError(c) PROVE Grants(d) \subseteq Grants(d)'
  BY <1>3 DEF ReadError
<1>4. ASSUME NEW c \in Conns, ReadTimeout(c)
      PROVE Grants(d) \subseteq Grants(d)'
  BY <1>4 DEF ReadTimeout
<1>5. ASSUME NEW c \in Conns, OtherFrame(c) PROVE Grants(d) \subseteq Grants(d)'
  BY <1>5 DEF OtherFrame
<1>6. ASSUME NEW c \in Conns, SignOff(c) PROVE Grants(d) \subseteq Grants(d)'
  BY <1>6 DEF SignOff, StopSelf
<1>7. ASSUME NEW c \in Conns, LoginRefused(c)
      PROVE Grants(d) \subseteq Grants(d)'
  BY <1>7 DEF LoginRefused, StopSelf
<1>8. ASSUME NEW c \in Conns, NEW k \in Cookies, NEW u \in Uins, GrantCookie(c, k, u)
      PROVE Grants(d) \subseteq Grants(d)'
  BY <1>8 DEF GrantCookie, StopSelf, SetCookie
<1>9. ASSUME NEW c \in Conns, BosRefused(c) PROVE Grants(d) \subseteq Grants(d)'
  BY <1>9 DEF BosRefused, StopSelf
<1>10. ASSUME NEW c \in Conns, NEW k \in Cookies, BosAuth(c, k)
      PROVE Grants(d) \subseteq Grants(d)'
  BY <1>10 DEF BosAuth, PopCookie, TakeIdentity
<1>11. ASSUME NEW c \in Conns, BosReplace(c)
      PROVE Grants(d) \subseteq Grants(d)'
  BY <1>11 DEF BosReplace
<1>12. ASSUME NEW c \in Conns, StopOld(c) PROVE Grants(d) \subseteq Grants(d)'
  BY <1>12 DEF StopOld
<1>13. ASSUME NEW c \in Conns, CloseOld(c) PROVE Grants(d) \subseteq Grants(d)'
  BY <1>13 DEF CloseOld
<1>14. ASSUME NEW c \in Conns, CleanupCheck(c)
      PROVE Grants(d) \subseteq Grants(d)'
  BY <1>14 DEF CleanupCheck
<1>15. ASSUME NEW c \in Conns, CleanupDelete(c)
      PROVE Grants(d) \subseteq Grants(d)'
  BY <1>15 DEF CleanupDelete
<1>16. ASSUME NEW c \in Conns, CleanupClear(c)
      PROVE Grants(d) \subseteq Grants(d)'
  BY <1>16 DEF CleanupClear
<1>17. ASSUME NEW c \in Conns, CleanupClose(c)
      PROVE Grants(d) \subseteq Grants(d)'
  BY <1>17 DEF CleanupClose
<1>18. ASSUME UNCHANGED vars PROVE Grants(d) \subseteq Grants(d)'
  BY <1>18 DEF vars
<1>19. QED
  BY <1>1, <1>2, <1>3, <1>4, <1>5, <1>6, <1>7, <1>8, <1>9, <1>10, <1>11, <1>12,
     <1>13, <1>14, <1>15, <1>16, <1>17, <1>18
     DEF Next, Step, LoginAccepted, Proceed, WindUp, AllGone

LEMMA LedgerNext ==
  ASSUME TypeInv, LedgerInv, [Next]_vars
  PROVE  LedgerInv'
<1> USE DEF TypeInv, Identified, TypeOK, LedgerInv, Entry, GoTo, Resume,
            local, shared, history
<1>0. \A d \in Conns : Grants(d) \subseteq Grants(d)'
  BY GrantsGrow
<1>1. ASSUME NEW c \in Conns, Accept(c) PROVE LedgerInv'
  BY <1>0, <1>1 DEF Accept
<1>2. ASSUME NEW c \in Conns, PeerClose(c) PROVE LedgerInv'
  BY <1>0, <1>2 DEF PeerClose
<1>3. ASSUME NEW c \in Conns, ReadError(c) PROVE LedgerInv'
  BY <1>0, <1>3 DEF ReadError
<1>4. ASSUME NEW c \in Conns, ReadTimeout(c) PROVE LedgerInv'
  BY <1>0, <1>4 DEF ReadTimeout
<1>5. ASSUME NEW c \in Conns, OtherFrame(c) PROVE LedgerInv'
  BY <1>0, <1>5 DEF OtherFrame
<1>6. ASSUME NEW c \in Conns, SignOff(c) PROVE LedgerInv'
  BY <1>0, <1>6 DEF SignOff, StopSelf
<1>7. ASSUME NEW c \in Conns, LoginRefused(c) PROVE LedgerInv'
  BY <1>0, <1>7 DEF LoginRefused, StopSelf
<1>8. ASSUME NEW c \in Conns, NEW k \in Cookies, NEW u \in Uins, GrantCookie(c, k, u)
      PROVE LedgerInv'
  BY <1>0, <1>8 DEF GrantCookie, StopSelf, SetCookie
<1>9. ASSUME NEW c \in Conns, BosRefused(c) PROVE LedgerInv'
  BY <1>0, <1>9 DEF BosRefused, StopSelf
<1>10. ASSUME NEW c \in Conns, NEW k \in Cookies, BosAuth(c, k) PROVE LedgerInv'
  <2>1. pendingCookies[k] # NoUin /\ ledger[k].owner = pendingCookies[k]
    BY <1>10 DEF BosAuth
  <2>2. ledger'[k].redeemer = c /\ ledger'[k].owner = pendingCookies[k]
    BY <1>10, <2>1 DEF BosAuth
  <2>3. uin'[c] \in Grants(c)'
    BY <1>10, <2>2 DEF BosAuth, TakeIdentity, Grants
  <2>4. \A d \in Conns : uin'[d] # NoUin => uin'[d] \in Grants(d)'
    BY <1>0, <1>10, <2>3 DEF BosAuth, TakeIdentity
  <2>5. \A j \in Cookies \ {k} : ledger'[j] = ledger[j] /\ pendingCookies'[j] = pendingCookies[j]
    BY <1>10 DEF BosAuth, PopCookie
  <2>6. pendingCookies'[k] = NoUin /\ ledger'[k].issuer # NoConn
    BY <1>10, <2>1 DEF BosAuth, PopCookie
  <2>7. QED
    BY <2>4, <2>5, <2>6
<1>11. ASSUME NEW c \in Conns, BosReplace(c) PROVE LedgerInv'
  BY <1>0, <1>11 DEF BosReplace
<1>12. ASSUME NEW c \in Conns, StopOld(c) PROVE LedgerInv'
  BY <1>0, <1>12 DEF StopOld
<1>13. ASSUME NEW c \in Conns, CloseOld(c) PROVE LedgerInv'
  BY <1>0, <1>13 DEF CloseOld
<1>14. ASSUME NEW c \in Conns, CleanupCheck(c) PROVE LedgerInv'
  BY <1>0, <1>14 DEF CleanupCheck
<1>15. ASSUME NEW c \in Conns, CleanupDelete(c) PROVE LedgerInv'
  BY <1>0, <1>15 DEF CleanupDelete
<1>16. ASSUME NEW c \in Conns, CleanupClear(c) PROVE LedgerInv'
  BY <1>0, <1>16 DEF CleanupClear
<1>17. ASSUME NEW c \in Conns, CleanupClose(c) PROVE LedgerInv'
  BY <1>0, <1>17 DEF CleanupClose
<1>18. ASSUME UNCHANGED vars PROVE LedgerInv'
  BY <1>0, <1>18 DEF vars
<1>19. QED
  BY <1>1, <1>2, <1>3, <1>4, <1>5, <1>6, <1>7, <1>8, <1>9, <1>10, <1>11, <1>12,
     <1>13, <1>14, <1>15, <1>16, <1>17, <1>18
     DEF Next, Step, LoginAccepted, Proceed, WindUp, AllGone

LEMMA GrantedNext ==
  ASSUME TypeInv, LedgerInv, EntryGranted, [Next]_vars
  PROVE  EntryGranted'
<1> USE DEF TypeInv, Identified, TypeOK, LedgerInv, EntryGranted, GoTo, Resume,
            local, shared, history
<1>0. \A d \in Conns : Grants(d) \subseteq Grants(d)'
  BY GrantsGrow
<1>1. ASSUME NEW c \in Conns, Accept(c) PROVE EntryGranted'
  BY <1>0, <1>1 DEF Accept
<1>2. ASSUME NEW c \in Conns, PeerClose(c) PROVE EntryGranted'
  BY <1>0, <1>2 DEF PeerClose
<1>3. ASSUME NEW c \in Conns, ReadError(c) PROVE EntryGranted'
  BY <1>0, <1>3 DEF ReadError
<1>4. ASSUME NEW c \in Conns, ReadTimeout(c) PROVE EntryGranted'
  BY <1>0, <1>4 DEF ReadTimeout
<1>5. ASSUME NEW c \in Conns, OtherFrame(c) PROVE EntryGranted'
  BY <1>0, <1>5 DEF OtherFrame
<1>6. ASSUME NEW c \in Conns, SignOff(c) PROVE EntryGranted'
  BY <1>0, <1>6 DEF SignOff, StopSelf
<1>7. ASSUME NEW c \in Conns, LoginRefused(c) PROVE EntryGranted'
  BY <1>0, <1>7 DEF LoginRefused, StopSelf
<1>8. ASSUME NEW c \in Conns, NEW k \in Cookies, NEW u \in Uins, GrantCookie(c, k, u)
      PROVE EntryGranted'
  BY <1>0, <1>8 DEF GrantCookie, StopSelf, SetCookie
<1>9. ASSUME NEW c \in Conns, BosRefused(c) PROVE EntryGranted'
  BY <1>0, <1>9 DEF BosRefused, StopSelf
<1>10. ASSUME NEW c \in Conns, NEW k \in Cookies, BosAuth(c, k)
      PROVE EntryGranted'
  BY <1>0, <1>10 DEF BosAuth, PopCookie, TakeIdentity
<1>11. ASSUME NEW c \in Conns, BosReplace(c) PROVE EntryGranted'
  BY <1>0, <1>11 DEF BosReplace
<1>12. ASSUME NEW c \in Conns, StopOld(c) PROVE EntryGranted'
  BY <1>0, <1>12 DEF StopOld
<1>13. ASSUME NEW c \in Conns, CloseOld(c) PROVE EntryGranted'
  BY <1>0, <1>13 DEF CloseOld
<1>14. ASSUME NEW c \in Conns, CleanupCheck(c) PROVE EntryGranted'
  BY <1>0, <1>14 DEF CleanupCheck
<1>15. ASSUME NEW c \in Conns, CleanupDelete(c) PROVE EntryGranted'
  BY <1>0, <1>15 DEF CleanupDelete
<1>16. ASSUME NEW c \in Conns, CleanupClear(c) PROVE EntryGranted'
  BY <1>0, <1>16 DEF CleanupClear
<1>17. ASSUME NEW c \in Conns, CleanupClose(c) PROVE EntryGranted'
  BY <1>0, <1>17 DEF CleanupClose
<1>18. ASSUME UNCHANGED vars PROVE EntryGranted'
  BY <1>0, <1>18 DEF vars
<1>19. QED
  BY <1>1, <1>2, <1>3, <1>4, <1>5, <1>6, <1>7, <1>8, <1>9, <1>10, <1>11, <1>12,
     <1>13, <1>14, <1>15, <1>16, <1>17, <1>18
     DEF Next, Step, LoginAccepted, Proceed, WindUp, AllGone

LEMMA LedgerInvariant == Spec => []LedgerInv
<1>1. TypeInv /\ LedgerInv /\ [Next]_vars => LedgerInv'
  BY LedgerNext
<1>2. QED
  BY <1>1, TypeInvariant, LedgerInit, PTL DEF Spec

\* Whoever is registered under a UIN has redeemed a cookie issued for it, with
\* any number of clients, switching UINs or not.
THEOREM EntriesAreGranted == Spec => []EntryGranted
<1>1. Init => EntryGranted
  BY DEF Init, EntryGranted
<1>2. TypeInv /\ LedgerInv /\ EntryGranted /\ [Next]_vars => EntryGranted'
  BY GrantedNext
<1>3. QED
  BY <1>1, <1>2, TypeInvariant, LedgerInvariant, PTL DEF Spec

----------------------------------------------------------------------------
(* The registry. A connection that passes on to a second UIN redeemed two  *)
(* cookies, so its first entry is one of a connection that Switched; and   *)
(* one that is past the removal of its entry is not registered any more.   *)

Removed == \A c \in Conns : pc[c] = "clear" => sessions[uin[c]] # c

RegistryInv == RegistrySound /\ Removed

LEMMA RegistryInit == Init => RegistryInv
  BY DEF Init, RegistryInv, RegistrySound, Removed

LEMMA RegistryNext ==
  ASSUME TypeInv, LedgerInv, RegistryInv, [Next]_vars
  PROVE  RegistryInv'
<1> USE DEF TypeInv, Identified, TypeOK, RegistryInv, RegistrySound, Removed,
            Registered, Places, GoTo, Resume, local, shared, history
<1>0. /\ \A d \in Conns : Switched(d) => Switched(d)'
      /\ \A d \in Conns : uin[d] # NoUin /\ uin'[d] # NoUin /\ uin'[d] # uin[d]
                           => Switched(d)'
  <2>1. \A d \in Conns : Grants(d) \subseteq Grants(d)'  BY GrantsGrow
  <2>2. LedgerInv'  BY LedgerNext
  <2>3. \A d \in Conns : uin[d] # NoUin => uin[d] \in Grants(d)  BY DEF LedgerInv
  <2>4. \A d \in Conns : uin'[d] # NoUin => uin'[d] \in Grants(d)'
    BY <2>2 DEF LedgerInv
  <2>. QED  BY <2>1, <2>3, <2>4 DEF Switched
<1>1. ASSUME NEW c \in Conns, Accept(c) PROVE RegistryInv'
  BY <1>0, <1>1 DEF Accept
<1>2. ASSUME NEW c \in Conns, PeerClose(c) PROVE RegistryInv'
  BY <1>0, <1>2 DEF PeerClose
<1>3. ASSUME NEW c \in Conns, ReadError(c) PROVE RegistryInv'
  BY <1>0, <1>3 DEF ReadError
<1>4. ASSUME NEW c \in Conns, ReadTimeout(c) PROVE RegistryInv'
  BY <1>0, <1>4 DEF ReadTimeout
<1>5. ASSUME NEW c \in Conns, OtherFrame(c) PROVE RegistryInv'
  BY <1>0, <1>5 DEF OtherFrame
<1>6. ASSUME NEW c \in Conns, SignOff(c) PROVE RegistryInv'
  BY <1>0, <1>6 DEF SignOff, StopSelf
<1>7. ASSUME NEW c \in Conns, LoginRefused(c) PROVE RegistryInv'
  BY <1>0, <1>7 DEF LoginRefused, StopSelf
<1>8. ASSUME NEW c \in Conns, NEW k \in Cookies, NEW u \in Uins, GrantCookie(c, k, u)
      PROVE RegistryInv'
  BY <1>0, <1>8 DEF GrantCookie, StopSelf, SetCookie
<1>9. ASSUME NEW c \in Conns, BosRefused(c) PROVE RegistryInv'
  BY <1>0, <1>9 DEF BosRefused, StopSelf
<1>10. ASSUME NEW c \in Conns, NEW k \in Cookies, BosAuth(c, k)
      PROVE RegistryInv'
  BY <1>0, <1>10 DEF BosAuth, PopCookie, TakeIdentity
<1>11. ASSUME NEW c \in Conns, BosReplace(c) PROVE RegistryInv'
  BY <1>0, <1>11 DEF BosReplace
<1>12. ASSUME NEW c \in Conns, StopOld(c) PROVE RegistryInv'
  BY <1>0, <1>12 DEF StopOld
<1>13. ASSUME NEW c \in Conns, CloseOld(c) PROVE RegistryInv'
  BY <1>0, <1>13 DEF CloseOld
<1>14. ASSUME NEW c \in Conns, CleanupCheck(c) PROVE RegistryInv'
  BY <1>0, <1>14 DEF CleanupCheck
<1>15. ASSUME NEW c \in Conns, CleanupDelete(c) PROVE RegistryInv'
  BY <1>0, <1>15 DEF CleanupDelete
<1>16. ASSUME NEW c \in Conns, CleanupClear(c) PROVE RegistryInv'
  BY <1>0, <1>16 DEF CleanupClear
<1>17. ASSUME NEW c \in Conns, CleanupClose(c) PROVE RegistryInv'
  BY <1>0, <1>17 DEF CleanupClose
<1>18. ASSUME UNCHANGED vars PROVE RegistryInv'
  BY <1>0, <1>18 DEF vars
<1>19. QED
  BY <1>1, <1>2, <1>3, <1>4, <1>5, <1>6, <1>7, <1>8, <1>9, <1>10, <1>11, <1>12,
     <1>13, <1>14, <1>15, <1>16, <1>17, <1>18
     DEF Next, Step, LoginAccepted, Proceed, WindUp, AllGone

LEMMA RegistryInvariant == Spec => []RegistryInv
<1>1. TypeInv /\ LedgerInv /\ RegistryInv /\ [Next]_vars => RegistryInv'
  BY RegistryNext
<1>. QED
  BY <1>1, TypeInvariant, LedgerInvariant, RegistryInit, PTL DEF Spec

\* For any number of connections: the session found under a UIN acts for it and is
\* not past the point of its cleanup where it gives the entry up, unless its
\* client proved two passwords and signed on as two UINs over one connection.
THEOREM RegistryIsSound == Spec => []RegistrySound
  BY RegistryInvariant, PTL DEF RegistryInv

----------------------------------------------------------------------------
(* One attempt per connection: who has answered one reads no more.         *)

AttemptInv ==
  \A c \in Conns :
    /\ attempts[c] \in {0, 1}
    /\ pc[c] \in {"idle", "read", "replace", "stopOld", "closeOld"} => attempts[c] = 0

LEMMA AttemptNext ==
  ASSUME TypeInv, AttemptInv, [Next]_vars
  PROVE  AttemptInv'
<1> USE DEF TypeInv, TypeOK, AttemptInv, Places, Registered, GoTo, Resume,
            local, shared, history
<1>1. ASSUME NEW c \in Conns, Accept(c) PROVE AttemptInv'
  BY <1>1 DEF Accept
<1>2. ASSUME NEW c \in Conns, PeerClose(c) PROVE AttemptInv'
  BY <1>2 DEF PeerClose
<1>3. ASSUME NEW c \in Conns, ReadError(c) PROVE AttemptInv'
  BY <1>3 DEF ReadError
<1>4. ASSUME NEW c \in Conns, ReadTimeout(c) PROVE AttemptInv'
  BY <1>4 DEF ReadTimeout
<1>5. ASSUME NEW c \in Conns, OtherFrame(c) PROVE AttemptInv'
  BY <1>5 DEF OtherFrame
<1>6. ASSUME NEW c \in Conns, SignOff(c) PROVE AttemptInv'
  BY <1>6 DEF SignOff, StopSelf
<1>7. ASSUME NEW c \in Conns, LoginRefused(c) PROVE AttemptInv'
  BY <1>7 DEF LoginRefused, StopSelf
<1>8. ASSUME NEW c \in Conns, NEW k \in Cookies, NEW u \in Uins, GrantCookie(c, k, u)
      PROVE AttemptInv'
  BY <1>8 DEF GrantCookie, StopSelf, SetCookie
<1>9. ASSUME NEW c \in Conns, BosRefused(c) PROVE AttemptInv'
  BY <1>9 DEF BosRefused, StopSelf
<1>10. ASSUME NEW c \in Conns, NEW k \in Cookies, BosAuth(c, k)
      PROVE AttemptInv'
  BY <1>10 DEF BosAuth, PopCookie, TakeIdentity
<1>11. ASSUME NEW c \in Conns, BosReplace(c) PROVE AttemptInv'
  BY <1>11 DEF BosReplace
<1>12. ASSUME NEW c \in Conns, StopOld(c) PROVE AttemptInv'
  BY <1>12 DEF StopOld
<1>13. ASSUME NEW c \in Conns, CloseOld(c) PROVE AttemptInv'
  BY <1>13 DEF CloseOld
<1>14. ASSUME NEW c \in Conns, CleanupCheck(c) PROVE AttemptInv'
  BY <1>14 DEF CleanupCheck
<1>15. ASSUME NEW c \in Conns, CleanupDelete(c) PROVE AttemptInv'
  BY <1>15 DEF CleanupDelete
<1>16. ASSUME NEW c \in Conns, CleanupClear(c) PROVE AttemptInv'
  BY <1>16 DEF CleanupClear
<1>17. ASSUME NEW c \in Conns, CleanupClose(c) PROVE AttemptInv'
  BY <1>17 DEF CleanupClose
<1>18. ASSUME UNCHANGED vars PROVE AttemptInv'
  BY <1>18 DEF vars
<1>19. QED
  BY <1>1, <1>2, <1>3, <1>4, <1>5, <1>6, <1>7, <1>8, <1>9, <1>10, <1>11, <1>12,
     <1>13, <1>14, <1>15, <1>16, <1>17, <1>18
     DEF Next, Step, LoginAccepted, Proceed, WindUp, AllGone

\* No connection gets a second verdict on credentials, whatever it has sent
\* ahead into the server's read buffer.
THEOREM OneAttempt == Spec => []OneAttemptPerConnection
<1>1. Init => AttemptInv
  BY DEF Init, AttemptInv
<1>2. TypeInv /\ AttemptInv /\ [Next]_vars => AttemptInv'
  BY AttemptNext
<1>3. AttemptInv => OneAttemptPerConnection
  <2> SUFFICES ASSUME AttemptInv, NEW c \in Conns PROVE attempts[c] <= 1
    BY DEF OneAttemptPerConnection
  <2>1. attempts[c] \in {0, 1}
    BY DEF AttemptInv
  <2>2. QED
    BY <2>1
<1>4. QED
  BY <1>1, <1>2, <1>3, TypeInvariant, PTL DEF Spec

----------------------------------------------------------------------------
(* The sessions implement the directory.                                   *)

LEMMA DirectoryStep ==
  ASSUME TypeInv, Removed, KickInv, [Next]_vars
  PROVE  [Dir!DirNext]_(Dir!dirVars)
<1> USE DEF TypeInv, Identified, TypeOK, Removed, Registered, Places, GoTo,
            Resume, local, shared, history, LifeOf, Dir!dirVars
<1>1. ASSUME NEW c \in Conns, Accept(c)
      PROVE  Dir!Connect(c)
  BY <1>1 DEF Accept, Dir!Connect
<1>2. ASSUME NEW c \in Conns, PeerClose(c)
      PROVE  Dir!Drop(c)
  BY <1>2 DEF PeerClose, Dir!Drop
<1>3. ASSUME NEW c \in Conns, ReadError(c)
      PROVE  UNCHANGED Dir!dirVars
  BY <1>3 DEF ReadError
<1>4. ASSUME NEW c \in Conns, ReadTimeout(c)
      PROVE  UNCHANGED Dir!dirVars
  BY <1>4 DEF ReadTimeout
<1>5. ASSUME NEW c \in Conns, OtherFrame(c)
      PROVE  UNCHANGED Dir!dirVars
  BY <1>5 DEF OtherFrame
<1>6. ASSUME NEW c \in Conns, SignOff(c)
      PROVE  Dir!Halt(c) \/ UNCHANGED Dir!dirVars
  BY <1>6 DEF SignOff, StopSelf, Dir!Halt
<1>7. ASSUME NEW c \in Conns, LoginRefused(c)
      PROVE  Dir!Halt(c) \/ UNCHANGED Dir!dirVars
  BY <1>7 DEF LoginRefused, StopSelf, Dir!Halt
<1>8. ASSUME NEW c \in Conns, NEW k \in Cookies, NEW u \in Uins, GrantCookie(c, k, u)
      PROVE  Dir!Halt(c) \/ UNCHANGED Dir!dirVars
  BY <1>8 DEF GrantCookie, StopSelf, SetCookie, Dir!Halt
<1>9. ASSUME NEW c \in Conns, BosRefused(c)
      PROVE  Dir!Halt(c) \/ UNCHANGED Dir!dirVars
  BY <1>9 DEF BosRefused, StopSelf, Dir!Halt
<1>10. ASSUME NEW c \in Conns, NEW k \in Cookies, BosAuth(c, k)
      PROVE  Dir!Assume(c, pendingCookies[k])
  BY <1>10 DEF BosAuth, PopCookie, TakeIdentity, Dir!Assume
<1>11. ASSUME NEW c \in Conns, BosReplace(c)
      PROVE  Dir!Register(c)
  <2>1. \E place \in {"stopOld", "read", "cleanup"} : pc' = [pc EXCEPT ![c] = place]
    BY <1>11 DEF BosReplace
  <2>2. \A d \in Conns : LifeOf(pc[d])' = IF d = c THEN "up" ELSE LifeOf(pc[d])
    BY <2>1
  <2>3. LifeOf(pc[c]) = "joining" /\ sessions' = [sessions EXCEPT ![uin[c]] = c]
    BY <1>11 DEF BosReplace
  <2>4. UNCHANGED <<uin, running, open>>
    BY <1>11 DEF BosReplace
  <2> HIDE DEF LifeOf
  <2>5. QED
    BY <2>2, <2>3, <2>4 DEF Dir!Register
<1>12. ASSUME NEW c \in Conns, StopOld(c)
      PROVE  Dir!Halt(old[c]) \/ UNCHANGED Dir!dirVars
  BY <1>12 DEF StopOld, Dir!Halt
<1>13. ASSUME NEW c \in Conns, CloseOld(c)
      PROVE  Dir!Drop(old[c]) \/ UNCHANGED Dir!dirVars
  BY <1>13 DEF CloseOld, Dir!Drop
<1>14. ASSUME NEW c \in Conns, CleanupCheck(c)
      PROVE  Dir!Finish(c)
  BY <1>14 DEF CleanupCheck, Dir!Finish
<1>15. ASSUME NEW c \in Conns, CleanupDelete(c)
      PROVE  Dir!Unregister(c)
  BY <1>15 DEF CleanupDelete, Dir!Unregister
<1>16. ASSUME NEW c \in Conns, CleanupClear(c)
      PROVE  Dir!Forget(c)
  BY <1>16 DEF CleanupClear, Dir!Forget
<1>17. ASSUME NEW c \in Conns, CleanupClose(c)
      PROVE  Dir!Leave(c)
  BY <1>17 DEF CleanupClose, Dir!Leave
<1>18. ASSUME UNCHANGED vars PROVE UNCHANGED Dir!dirVars
  BY <1>18 DEF vars
<1>19. \A c \in Conns : pc[c] \in {"stopOld", "closeOld"} => old[c] \in Conns
  BY DEF KickInv
<1>20. ASSUME NEW c \in Conns, Step(c)
       PROVE  (\E d \in Conns : Dir!DirStep(d)) \/ UNCHANGED Dir!dirVars
  <2>1. \A k \in Cookies : BosAuth(c, k) => pendingCookies[k] \in Uins
    BY DEF BosAuth
  <2>2. StopOld(c) \/ CloseOld(c) => old[c] \in Conns
    BY <1>19 DEF StopOld, CloseOld
  <2> HIDE DEF TypeInv, Identified, TypeOK, Removed, Registered, Places,
               GoTo, Resume, local, shared, history, LifeOf, Dir!dirVars
  <2>3. QED
    BY <1>1, <1>2, <1>3, <1>4, <1>5, <1>6, <1>7, <1>8, <1>9, <1>10, <1>11, <1>12,
       <1>13, <1>14, <1>15, <1>16, <1>17, <1>20, <2>1, <2>2
       DEF Step, LoginAccepted, Proceed, WindUp, Dir!DirStep, Dir!OwnStep,
           Dir!ForeignStep
<1>21. QED
  BY <1>18, <1>20 DEF Next, AllGone, Dir!DirNext

\* For any number of connections, UINs and cookies, the session layer does no
\* more to the registry, and to what others see of a session, than the
\* directory allows, also where clients sign on as several UINs over one
\* connection: the messaging layer may be checked against that.
THEOREM DirectoryImplemented == Spec => ImplementsDirectory
<1>1. Init => Dir!DirInit
  BY DEF Init, Dir!DirInit, LifeOf
<1>2. TypeInv /\ RegistryInv /\ KickInv /\ [Next]_vars => [Dir!DirNext]_(Dir!dirVars)
  BY DirectoryStep DEF RegistryInv
<1>3. TypeInv /\ KickInv /\ [Next]_vars => KickInv'
  BY KickNext
<1>4. QED
  BY <1>1, <1>2, <1>3, TypeInvariant, RegistryInvariant, KickInit, PTL
     DEF Spec, ImplementsDirectory, Dir!DirSpec

----------------------------------------------------------------------------
(* The sessions implement the ticket protocol.                             *)

LEMMA TicketStep ==
  ASSUME TypeInv, LedgerInv, [Next]_vars
  PROVE  [Login!TicketNext]_(Login!ticketVars)
<1> USE DEF TypeInv, Identified, TypeOK, LedgerInv, Entry, StageOf, Login!ticketVars,
            GoTo, Resume, local, shared, history
<1>1. ASSUME NEW c \in Conns, NEW k \in Cookies, NEW u \in Uins, GrantCookie(c, k, u)
      PROVE  Login!Issue(k, u)
  BY <1>1 DEF GrantCookie, Login!Issue
<1>2. ASSUME NEW c \in Conns, NEW k \in Cookies, BosAuth(c, k)
      PROVE  Login!Redeem(c, k)
  <2>1. /\ pendingCookies[k] # NoUin
        /\ ledger' = [ledger EXCEPT ![k].redeemer = c]
        /\ uin' = [uin EXCEPT ![c] = pendingCookies[k]]
    BY <1>2 DEF BosAuth, TakeIdentity
  <2>2. /\ StageOf(k) = "valid"
        /\ uin' = [uin EXCEPT ![c] = ledger[k].owner]
    BY <2>1
  <2>3. ledger' \in [Cookies -> Entry]
    BY <2>1
  <2>4. /\ ledger'[k].redeemer = c
        /\ ledger'[k].issuer = ledger[k].issuer
        /\ ledger'[k].owner = ledger[k].owner
        /\ \A j \in Cookies \ {k} : ledger'[j] = ledger[j]
    BY <2>1
  <2>5. \A j \in Cookies : StageOf(j)' = IF j = k THEN "spent" ELSE StageOf(j)
    BY <2>1, <2>4
  <2>6. \A j \in Cookies : ledger'[j].owner = ledger[j].owner
    BY <2>4
  <2> HIDE DEF StageOf
  <2>7. QED
    BY <2>2, <2>5, <2>6 DEF Login!Redeem
<1>3. ASSUME NEW c \in Conns, CleanupClear(c) PROVE Login!Resign(c)
  BY <1>3 DEF CleanupClear, Login!Resign
<1>4. ASSUME NEW c \in Conns, Accept(c) PROVE UNCHANGED Login!ticketVars
  BY <1>4 DEF Accept
<1>5. ASSUME NEW c \in Conns, PeerClose(c) PROVE UNCHANGED Login!ticketVars
  BY <1>5 DEF PeerClose
<1>6. ASSUME NEW c \in Conns, ReadError(c) PROVE UNCHANGED Login!ticketVars
  BY <1>6 DEF ReadError
<1>7. ASSUME NEW c \in Conns, ReadTimeout(c) PROVE UNCHANGED Login!ticketVars
  BY <1>7 DEF ReadTimeout
<1>8. ASSUME NEW c \in Conns, OtherFrame(c) PROVE UNCHANGED Login!ticketVars
  BY <1>8 DEF OtherFrame
<1>9. ASSUME NEW c \in Conns, SignOff(c) PROVE UNCHANGED Login!ticketVars
  BY <1>9 DEF SignOff
<1>10. ASSUME NEW c \in Conns, LoginRefused(c) PROVE UNCHANGED Login!ticketVars
  BY <1>10 DEF LoginRefused
<1>11. ASSUME NEW c \in Conns, BosRefused(c) PROVE UNCHANGED Login!ticketVars
  BY <1>11 DEF BosRefused
<1>12. ASSUME NEW c \in Conns, BosReplace(c) PROVE UNCHANGED Login!ticketVars
  BY <1>12 DEF BosReplace
<1>13. ASSUME NEW c \in Conns, StopOld(c) PROVE UNCHANGED Login!ticketVars
  BY <1>13 DEF StopOld
<1>14. ASSUME NEW c \in Conns, CloseOld(c) PROVE UNCHANGED Login!ticketVars
  BY <1>14 DEF CloseOld
<1>15. ASSUME NEW c \in Conns, CleanupCheck(c) PROVE UNCHANGED Login!ticketVars
  BY <1>15 DEF CleanupCheck
<1>16. ASSUME NEW c \in Conns, CleanupDelete(c) PROVE UNCHANGED Login!ticketVars
  BY <1>16 DEF CleanupDelete
<1>17. ASSUME NEW c \in Conns, CleanupClose(c) PROVE UNCHANGED Login!ticketVars
  BY <1>17 DEF CleanupClose
<1>18. ASSUME UNCHANGED vars PROVE UNCHANGED Login!ticketVars
  BY <1>18 DEF vars
<1>19. QED
  BY <1>1, <1>2, <1>3, <1>4, <1>5, <1>6, <1>7, <1>8, <1>9, <1>10, <1>11, <1>12,
     <1>13, <1>14, <1>15, <1>16, <1>17, <1>18
     DEF Next, Step, LoginAccepted, Proceed, WindUp, AllGone, Login!TicketNext

\* For any number of connections: an identity is only ever taken by redeeming
\* a cookie, once, and the cookie was issued for it against its password.
THEOREM TicketsImplemented == Spec => ImplementsTickets
<1>1. Init => Login!TicketInit
  BY DEF Init, Login!TicketInit, StageOf
<1>2. TypeInv /\ LedgerInv /\ [Next]_vars => [Login!TicketNext]_(Login!ticketVars)
  BY TicketStep
<1>3. QED
  BY <1>1, <1>2, TypeInvariant, LedgerInvariant, PTL
     DEF Spec, ImplementsTickets, Login!TicketSpec

=============================================================================
