---------------------------- MODULE Accounts_proofs ----------------------------
(***************************************************************************)
(* Proofs about Accounts, for any number of handlers, accounts, addresses  *)
(* and invitations.  A step is split in two: what it does to the tables,   *)
(* and what it leaves of what the other handlers rely on (Keeps).          *)
(***************************************************************************)
EXTENDS Accounts, TLAPS

USE AccountsAssumption

-----------------------------------------------------------------------------
(* Ending a transaction.                                                     *)

LEMMA IdleTyped == Idle \in Transaction /\ Idle.op = "idle"
  <1>1. AnyAccount \in Account /\ AnyInvitation \in Invitation /\ AnyEmail \in Email
    BY DEF AnyAccount, AnyInvitation, AnyEmail
  <1>. QED
    BY <1>1 DEF Idle, Transaction, Status

LocksTyped ==
    /\ userLock \in [Account -> Worker \cup {NoWorker}]
    /\ invitationLock \in [Invitation -> Worker \cup {NoWorker}]
    /\ bootstrapLock \in Worker \cup {NoWorker}

\* The locks of another handler.
LocksKept(v) ==
    /\ \A a \in Account : userLock[a] = v => userLock'[a] = v
    /\ \A i \in Invitation : invitationLock[i] = v => invitationLock'[i] = v

LEMMA Released ==
    ASSUME IndInv, NEW w \in Worker, Release(w)
    PROVE  LocksTyped' /\ \A v \in Worker \ {w} : LocksKept(v)
  BY DEF IndInv, TypeOK, Release, LocksTyped, LocksKept

LEMMA Ended ==
    ASSUME IndInv, NEW w \in Worker, End(w)
    PROVE  /\ tx' \in [Worker -> Transaction] /\ tx'[w] = Idle
           /\ \A v \in Worker \ {w} : tx'[v] = tx[v]
           /\ LocksTyped' /\ \A v \in Worker \ {w} : LocksKept(v)
  <1>1. tx' = [tx EXCEPT ![w] = Idle] /\ Release(w)
    BY DEF End
  <1>. QED
    BY <1>1, IdleTyped, Released DEF IndInv, TypeOK

LEMMA IdleOK ==
    ASSUME NEW w \in Worker, tx'[w] = Idle
    PROVE  AcceptOK(w)' /\ HeldOK(w)'
  BY IdleTyped DEF AcceptOK, HeldOK, Accepting, OnUser

-----------------------------------------------------------------------------
(* What the step of one handler leaves of what another one relies on.        *)

RowsKept ==
    /\ \A a \in Account : Exists(a) =>
          /\ account'[a].status # "none"
          /\ account'[a].version \in Nat /\ account'[a].version >= account[a].version
          /\ account'[a].version = account[a].version =>
                account'[a].status = account[a].status
          /\ owner' = a => owner = a
    /\ \A i \in Invitation : invitation[i].status # "none" =>
          invitation'[i].status # "none" /\ invitation'[i].by = invitation[i].by

Keeps(v) ==
    /\ \/ tx'[v] = tx[v]
       \/ tx'[v] = [tx[v] EXCEPT !.active = {Inviter(v)}]
       \/ tx'[v] = [tx[v] EXCEPT !.could = {Inviter(v)}]
    /\ RowsKept /\ LocksKept(v)
    /\ \A i \in Invitation : invitationLock[i] = v /\ invitation[i].status # "none" =>
          invitation'[i].status = invitation[i].status
    /\ tx[v].op = "accept" /\ Inviter(v) \in able' => Inviter(v) \in able \cup tx'[v].could
    /\ Accepting(v) /\ account'[Inviter(v)].status = "ACTIVE" =>
          account[Inviter(v)].status = "ACTIVE" \/ Inviter(v) \in tx'[v].active

LEMMA KeptForV ==
    ASSUME IndInv, NEW v \in Worker, Keeps(v)
    PROVE  AcceptOK(v)' /\ HeldOK(v)'
  <1>1. /\ tx[v] \in Transaction /\ tx[v].a \in Account /\ tx[v].i \in Invitation
        /\ tx[v].ver \in Nat /\ AcceptOK(v) /\ HeldOK(v)
        /\ account[tx[v].a].version \in Nat
    BY DEF IndInv, TypeOK, Transaction, AccountRow
  <1>2. /\ tx'[v].op = tx[v].op /\ tx'[v].pc = tx[v].pc /\ tx'[v].a = tx[v].a
        /\ tx'[v].i = tx[v].i /\ tx'[v].ver = tx[v].ver /\ tx'[v].mays = tx[v].mays
        /\ tx'[v].seen = tx[v].seen
        /\ Inviter(v) \in tx[v].active => Inviter(v) \in tx'[v].active
        /\ Inviter(v) \in tx[v].could => Inviter(v) \in tx'[v].could
    BY <1>1 DEF Keeps, Transaction
  <1>3. AcceptOK(v)'
    <2> SUFFICES ASSUME tx[v].op = "accept" PROVE AcceptOK(v)'
      BY <1>2 DEF AcceptOK, Accepting
    <2>1. Row(v).status # "none" /\ Row(v)'.status # "none" /\ Inviter(v)' = Inviter(v)
      BY <1>1, <1>2 DEF AcceptOK, Keeps, RowsKept, Row, Inviter
    <2>2. Accepting(v)' <=> Accepting(v)
      BY <1>2 DEF Accepting
    <2>3. Accepting(v) => invitationLock'[tx[v].i] = v /\ Row(v)'.status = "PENDING"
      BY <1>1, <1>2, <2>1 DEF AcceptOK, Keeps, LocksKept, Row
    <2>4. Inviter(v) \in tx[v].mays \cup able' => Inviter(v) \in tx'[v].could
      BY <1>1, <1>2 DEF AcceptOK, Keeps
    <2>5. Accepting(v) /\ account'[Inviter(v)].status = "ACTIVE" => Inviter(v) \in tx'[v].active
      BY <1>1, <1>2 DEF AcceptOK, Keeps
    <2>. QED
      BY <1>1, <1>2, <2>1, <2>2, <2>3, <2>4, <2>5 DEF AcceptOK
  <1>4. HeldOK(v)'
    <2>1. tx[v].op = "revoke" /\ tx[v].pc = "write" => invitationLock'[tx[v].i] = v
      BY <1>1 DEF HeldOK, Keeps, LocksKept
    <2>2. tx[v].op \in OnUser \cup {"invite"} => Exists(tx[v].a)'
      BY <1>1, <1>2 DEF HeldOK, Keeps, RowsKept, Exists
    <2>3. tx[v].op \in OnUser /\ tx[v].pc = "write" =>
             userLock'[tx[v].a] = v /\ tx[v].a # owner'
      BY <1>1 DEF HeldOK, Keeps, LocksKept, RowsKept
    <2>4. ASSUME tx[v].op \in OnUser
          PROVE  /\ tx[v].ver <= account'[tx[v].a].version
                 /\ SameVersion(v)' => account'[tx[v].a].status = tx[v].seen
      <3>1. /\ tx[v].ver <= account[tx[v].a].version /\ Exists(tx[v].a)
            /\ SameVersion(v) => account[tx[v].a].status = tx[v].seen
        BY <1>1, <2>4 DEF HeldOK
      <3>2. /\ account'[tx[v].a].version \in Nat
            /\ account'[tx[v].a].version >= account[tx[v].a].version
            /\ account'[tx[v].a].version = account[tx[v].a].version =>
                  account'[tx[v].a].status = account[tx[v].a].status
        BY <1>1, <3>1 DEF Keeps, RowsKept
      <3>. QED
        BY <1>1, <1>2, <3>1, <3>2 DEF SameVersion
    <2>. QED
      BY <1>2, <2>1, <2>2, <2>3, <2>4 DEF HeldOK
  <1>. QED
    BY <1>3, <1>4

-----------------------------------------------------------------------------
(* Steps that leave the tables alone.                                        *)

\* The rows are as they were, and so is what others rely on.
LEMMA Quiet ==
    ASSUME IndInv, NEW w \in Worker, UNCHANGED tables,
           tx' \in [Worker -> Transaction], LocksTyped',
           requests' \in Nat, moves' \in Nat,
           \A v \in Worker \ {w} : tx'[v] = tx[v] /\ LocksKept(v),
           AcceptOK(w)', HeldOK(w)'
    PROVE  IndInv'
  <1>1. TypeOK'
    BY DEF IndInv, TypeOK, tables, LocksTyped
  <1>2. OneAccountPerInvitation' /\ RowsOK'
    BY DEF IndInv, OneAccountPerInvitation, RowsOK, Exists, tables
  <1>3. RowsKept
    BY DEF IndInv, TypeOK, AccountRow, RowsKept, Exists, tables
  <1>4. ASSUME NEW v \in Worker \ {w}
        PROVE  AcceptOK(v)' /\ HeldOK(v)'
    <2>1. Keeps(v)
      BY <1>3 DEF Keeps, tables, Inviter, Row
    <2>. QED
      BY <2>1, KeptForV
  <1>. QED
    BY <1>1, <1>2, <1>4 DEF IndInv

LEMMA Failed ==
    ASSUME IndInv, NEW w \in Worker, Fail(w)
    PROVE  IndInv'
  <1>1. End(w) /\ UNCHANGED <<tables, requests, moves>>
    BY DEF Fail
  <1>. QED
    BY <1>1, Ended, IdleOK, Quiet DEF IndInv, TypeOK

\* A handler that goes on, with the locks and the record given.
LEMMA GoesOn ==
    ASSUME IndInv, NEW w \in Worker, NEW r \in Transaction,
           tx' = [tx EXCEPT ![w] = r],
           UNCHANGED <<tables, requests, moves>>,
           LocksTyped', \A v \in Worker \ {w} : LocksKept(v),
           AcceptOK(w)', HeldOK(w)'
    PROVE  IndInv'
  BY Quiet DEF IndInv, TypeOK

LEMMA ArriveStep ==
    ASSUME IndInv, NEW w \in Worker, NEW op \in Operation, Arrive(w, op)
    PROVE  IndInv'
  <1>1. PICK a \in Account, i \in Invitation, e \in Email :
          /\ op \in {"revoke", "accept"} => invitation[i].status # "none"
          /\ op \in OnUser => Exists(a)
          /\ op = "invite" => a \in able /\ account[a].status = "ACTIVE"
          /\ tx' = [tx EXCEPT ![w] =
               [Idle EXCEPT !.op = op, !.a = a, !.i = i, !.email = e,
                            !.ver = account[a].version, !.seen = account[a].status,
                            !.could = CouldAlready(op, i), !.pc = Entry(op)]]
    BY DEF Arrive
  <1>2. Entry(op) \in {"authority", "mode", "email", "lock"}
    BY DEF Entry
  <1>3. CouldAlready(op, i) \in SUBSET Account
    BY DEF CouldAlready, IndInv, TypeOK
  <1>4. op = "accept" /\ invitation[i].by \in able => invitation[i].by \in CouldAlready(op, i)
    BY DEF CouldAlready
  <1>5. UNCHANGED <<tables, locks>> /\ requests' \in Nat /\ moves' \in Nat
    BY DEF Arrive, IndInv, TypeOK
  <1>6. account[a] \in AccountRow
    BY DEF IndInv, TypeOK
  <1>7. /\ tx' \in [Worker -> Transaction]
        /\ tx'[w].op = op /\ tx'[w].a = a /\ tx'[w].i = i /\ tx'[w].mays = {}
        /\ tx'[w].ver = account[a].version /\ tx'[w].seen = account[a].status
        /\ tx'[w].could = CouldAlready(op, i)
        /\ tx'[w].pc \in {"authority", "mode", "email", "lock"}
        /\ \A v \in Worker \ {w} : tx'[v] = tx[v]
    <2>1. Idle \in Transaction /\ Idle.mays = {}
      BY IdleTyped DEF Idle
    <2>. QED
      BY <1>1, <1>2, <1>3, <1>6, <2>1 DEF IndInv, TypeOK, Transaction, AccountRow
  <1>8. AcceptOK(w)'
    BY <1>1, <1>4, <1>5, <1>7 DEF AcceptOK, Accepting, Row, Inviter, tables
  <1>9. HeldOK(w)'
    BY <1>1, <1>5, <1>6, <1>7 DEF HeldOK, AccountRow, Exists, SameVersion, tables
  <1>10. LocksTyped' /\ \A v \in Worker : LocksKept(v)
    BY <1>5 DEF IndInv, TypeOK, LocksTyped, LocksKept, locks
  <1>. QED
    BY <1>5, <1>7, <1>8, <1>9, <1>10, Quiet

\* The locks after one more was taken.
LEMMA LocksTaken ==
    ASSUME IndInv, NEW w \in Worker,
           \/ /\ \E a \in Account : Free(userLock[a], w)
                                    /\ userLock' = [userLock EXCEPT ![a] = w]
              /\ UNCHANGED <<invitationLock, bootstrapLock>>
           \/ /\ \E i \in Invitation : Free(invitationLock[i], w)
                                       /\ invitationLock' = [invitationLock EXCEPT ![i] = w]
              /\ UNCHANGED <<userLock, bootstrapLock>>
           \/ /\ bootstrapLock' = w
              /\ UNCHANGED <<userLock, invitationLock>>
           \/ UNCHANGED locks
    PROVE  LocksTyped' /\ \A v \in Worker \ {w} : LocksKept(v)
  BY DEF IndInv, TypeOK, LocksTyped, LocksKept, Free, locks

\* What a handler has of itself.
LEMMA Own ==
    ASSUME IndInv, NEW w \in Worker
    PROVE  /\ tx[w] \in Transaction /\ tx[w].a \in Account /\ tx[w].i \in Invitation
           /\ tx[w].email \in Email /\ tx[w].ver \in Nat
           /\ AcceptOK(w) /\ HeldOK(w)
  BY DEF IndInv, TypeOK, Transaction

\* A handler at whose next statement nothing was promised goes on to it.
LEMMA NextStatement ==
    ASSUME IndInv, NEW w \in Worker,
           NEW pc \in {"mode", "email", "authority", "lock", "write"},
           tx[w].op \in {"bootstrap", "invite", "register"}, Goto(w, pc),
           UNCHANGED <<tables, requests, moves>>,
           LocksTyped', \A v \in Worker \ {w} : LocksKept(v)
    PROVE  IndInv'
  <1>1. tx' = [tx EXCEPT ![w] = [tx[w] EXCEPT !.pc = pc]]
    BY DEF Goto
  <1>2. [tx[w] EXCEPT !.pc = pc] \in Transaction
    BY Own DEF Transaction
  <1>3. /\ tx'[w].op = tx[w].op /\ tx'[w].a = tx[w].a
    BY <1>1, Own DEF IndInv, TypeOK, Transaction
  <1>4. AcceptOK(w)' /\ HeldOK(w)'
    BY <1>3, Own DEF AcceptOK, HeldOK, Accepting, OnUser, Exists, tables
  <1>. QED
    BY <1>1, <1>2, <1>4, GoesOn

LEMMA OpenSteps ==
    ASSUME IndInv, NEW w \in Worker,
           LockBootstrap(w) \/ FindEmail(w) \/ ReadMode(w)
    PROVE  IndInv'
  <1>1. CASE LockBootstrap(w)
    BY <1>1, LocksTaken, NextStatement DEF LockBootstrap, At
  <1>2. CASE FindEmail(w)
    BY <1>2, Failed, LocksTaken, NextStatement DEF FindEmail, At, locks
  <1>3. CASE ReadMode(w)
    BY <1>3, Failed, LocksTaken, NextStatement DEF ReadMode, At, locks
  <1>. QED
    BY <1>1, <1>2, <1>3

LEMMA LockInvitationStep ==
    ASSUME IndInv, NEW w \in Worker, LockInvitation(w)
    PROVE  IndInv'
  <1>1. /\ tx[w].op = "revoke" /\ tx' = [tx EXCEPT ![w] = [tx[w] EXCEPT !.pc = "write"]]
        /\ Free(invitationLock[tx[w].i], w)
        /\ invitationLock' = [invitationLock EXCEPT ![tx[w].i] = w]
        /\ UNCHANGED <<userLock, bootstrapLock>> /\ UNCHANGED <<tables, requests, moves>>
    BY DEF LockInvitation, At, Goto
  <1>2. [tx[w] EXCEPT !.pc = "write"] \in Transaction
    BY Own DEF Transaction
  <1>3. tx'[w].op = "revoke" /\ tx'[w].i = tx[w].i
    BY <1>1, Own DEF IndInv, TypeOK, Transaction
  <1>4. AcceptOK(w)' /\ HeldOK(w)'
    BY <1>1, <1>3, Own DEF AcceptOK, HeldOK, Accepting, OnUser, IndInv, TypeOK
  <1>5. LocksTyped' /\ \A v \in Worker \ {w} : LocksKept(v)
    BY <1>1, Own, LocksTaken
  <1>. QED
    BY <1>1, <1>2, <1>4, <1>5, GoesOn

LEMMA LockUserStep ==
    ASSUME IndInv, NEW w \in Worker, LockUser(w)
    PROVE  IndInv'
  <1> SUFFICES ASSUME ~Fail(w) PROVE IndInv'
    BY Failed
  <1>1. /\ tx[w].op \in OnUser /\ tx' = [tx EXCEPT ![w] = [tx[w] EXCEPT !.pc = "write"]]
        /\ Free(userLock[tx[w].a], w) /\ tx[w].a # owner
        /\ userLock' = [userLock EXCEPT ![tx[w].a] = w]
        /\ UNCHANGED <<invitationLock, bootstrapLock>> /\ UNCHANGED <<tables, requests, moves>>
    BY DEF LockUser, At, Goto
  <1>2. [tx[w] EXCEPT !.pc = "write"] \in Transaction
    BY Own DEF Transaction
  <1>3. /\ tx'[w].op = tx[w].op /\ tx'[w].a = tx[w].a /\ tx'[w].ver = tx[w].ver
        /\ tx'[w].seen = tx[w].seen
    BY <1>1, Own DEF IndInv, TypeOK, Transaction
  <1>4. AcceptOK(w)' /\ HeldOK(w)'
    BY <1>1, <1>3, Own
       DEF AcceptOK, HeldOK, Accepting, OnUser, IndInv, TypeOK, Exists, SameVersion, tables
  <1>5. LocksTyped' /\ \A v \in Worker \ {w} : LocksKept(v)
    BY <1>1, Own, LocksTaken
  <1>. QED
    BY <1>1, <1>2, <1>4, <1>5, GoesOn

LEMMA ReadAuthorityStep ==
    ASSUME IndInv, NEW w \in Worker, ReadAuthority(w)
    PROVE  IndInv'
  <1> DEFINE r == [tx[w] EXCEPT !.mays = able \cap {Inviter(w)},
                                !.was = account[Inviter(w)].status, !.pc = "lock"]
  <1>1. /\ tx[w].op = "accept" /\ tx' = [tx EXCEPT ![w] = r]
        /\ UNCHANGED locks /\ UNCHANGED <<tables, requests, moves>>
    BY DEF ReadAuthority, At
  <1>2. account[Inviter(w)].status \in Status /\ able \subseteq Account
    BY Own DEF IndInv, TypeOK, Inviter, Row, InvitationRow, AccountRow
  <1>3. /\ r \in Transaction /\ r.op = "accept" /\ r.pc = "lock" /\ r.i = tx[w].i
        /\ r.mays = able \cap {Inviter(w)} /\ r.could = tx[w].could
    BY <1>1, <1>2, Own DEF Transaction
  <1> HIDE DEF r
  <1>4. tx'[w] = r
    BY <1>1 DEF IndInv, TypeOK
  <1>5. Row(w)' = Row(w) /\ Inviter(w)' = Inviter(w) /\ UNCHANGED able
    BY <1>1, <1>3, <1>4 DEF Row, Inviter, tables
  <1>6. AcceptOK(w)' /\ HeldOK(w)'
    BY <1>1, <1>3, <1>4, <1>5, Own DEF AcceptOK, HeldOK, Accepting, OnUser
  <1>7. LocksTyped' /\ \A v \in Worker \ {w} : LocksKept(v)
    BY <1>1, LocksTaken
  <1>. QED
    BY <1>1, <1>3, <1>6, <1>7, GoesOn

LEMMA LockForAcceptanceStep ==
    ASSUME IndInv, NEW w \in Worker, LockForAcceptance(w)
    PROVE  IndInv'
  <1> DEFINE active == {a \in {Inviter(w)} : account[a].status = "ACTIVE"}
             r == [tx[w] EXCEPT !.pc = "inviter", !.active = active]
  <1>1. /\ tx[w].op = "accept" /\ tx' = [tx EXCEPT ![w] = r]
        /\ Free(invitationLock[tx[w].i], w) /\ Row(w).status = "PENDING"
        /\ invitationLock' = [invitationLock EXCEPT ![tx[w].i] = w]
        /\ UNCHANGED <<userLock, bootstrapLock>> /\ UNCHANGED <<tables, requests, moves>>
    BY DEF LockForAcceptance, At
  <1>2. active \in SUBSET Account
    BY Own DEF IndInv, TypeOK, Inviter, Row, InvitationRow
  <1>3. account[Inviter(w)].status = "ACTIVE" => Inviter(w) \in active
    OBVIOUS
  <1> HIDE DEF active
  <1>4. /\ r \in Transaction /\ r.op = "accept" /\ r.pc = "inviter" /\ r.i = tx[w].i
        /\ r.mays = tx[w].mays /\ r.could = tx[w].could /\ r.active = active
    BY <1>1, <1>2, Own DEF Transaction
  <1> HIDE DEF r
  <1>5. tx'[w] = r
    BY <1>1 DEF IndInv, TypeOK
  <1>6. /\ Row(w)' = Row(w) /\ Inviter(w)' = Inviter(w) /\ UNCHANGED <<able, account>>
        /\ invitationLock'[tx[w].i] = w
    BY <1>1, <1>4, <1>5, Own DEF Row, Inviter, tables, IndInv, TypeOK
  <1>7. AcceptOK(w)' /\ HeldOK(w)'
    BY <1>1, <1>3, <1>4, <1>5, <1>6, Own DEF AcceptOK, HeldOK, Accepting, OnUser
  <1>8. LocksTyped' /\ \A v \in Worker \ {w} : LocksKept(v)
    BY <1>1, Own, LocksTaken
  <1>. QED
    BY <1>1, <1>4, <1>7, <1>8, GoesOn

LEMMA CheckInviterStep ==
    ASSUME IndInv, NEW w \in Worker, CheckInviter(w)
    PROVE  IndInv'
  <1> SUFFICES ASSUME ~Fail(w) PROVE IndInv'
    BY Failed
  <1> DEFINE r == [tx[w] EXCEPT !.pc = "write"]
  <1>1. /\ tx[w].op = "accept" /\ tx[w].pc = "inviter" /\ tx' = [tx EXCEPT ![w] = r]
        /\ InviterIsFit(w) /\ UNCHANGED locks /\ UNCHANGED <<tables, requests, moves>>
    BY DEF CheckInviter, At, Goto
  <1>2. /\ r \in Transaction /\ r.op = "accept" /\ r.pc = "write" /\ r.i = tx[w].i
        /\ r.mays = tx[w].mays /\ r.could = tx[w].could /\ r.active = tx[w].active
    BY <1>1, Own DEF Transaction
  <1> HIDE DEF r
  <1>3. tx'[w] = r
    BY <1>1 DEF IndInv, TypeOK
  <1>4. /\ Row(w)' = Row(w) /\ Inviter(w)' = Inviter(w)
        /\ UNCHANGED <<able, account, invitationLock>>
    BY <1>1, <1>2, <1>3 DEF Row, Inviter, tables, locks
  <1>5. AcceptOK(w)' /\ HeldOK(w)'
    BY <1>1, <1>2, <1>3, <1>4, Own DEF AcceptOK, HeldOK, Accepting, OnUser, InviterIsFit
  <1>6. LocksTyped' /\ \A v \in Worker \ {w} : LocksKept(v)
    BY <1>1, LocksTaken
  <1>. QED
    BY <1>1, <1>2, <1>5, <1>6, GoesOn

LEMMA Refusals ==
    ASSUME IndInv, NEW w \in Worker,
           \/ RefuseRoot(w) \/ RefuseToken(w) \/ RefuseAcceptance(w) \/ RefuseRegistration(w)
    PROVE  IndInv'
  BY Failed DEF RefuseRoot, RefuseToken, RefuseAcceptance, RefuseRegistration

-----------------------------------------------------------------------------
(* Steps that write and end.                                                 *)

TablesTyped ==
    /\ account \in [Account -> AccountRow]
    /\ invitation \in [Invitation -> InvitationRow]
    /\ owner \in Account \cup {NoAccount}
    /\ mode \in Mode
    /\ able \subseteq Account

\* A committed step: good tables, of which what others rely on is kept.
LEMMA Written ==
    ASSUME IndInv, NEW w \in Worker, End(w), UNCHANGED <<requests, moves>>,
           TablesTyped', OneAccountPerInvitation', RowsOK', RowsKept,
           \A v \in Worker \ {w} :
              /\ \A i \in Invitation : invitationLock[i] = v /\ invitation[i].status # "none" =>
                    invitation'[i].status = invitation[i].status
              /\ tx[v].op = "accept" =>
                    /\ Inviter(v) \in able' => Inviter(v) \in able
                    /\ account'[Inviter(v)].status = "ACTIVE" =>
                          account[Inviter(v)].status = "ACTIVE"
    PROVE  IndInv'
  <1>1. TypeOK'
    BY Ended DEF IndInv, TypeOK, TablesTyped, LocksTyped
  <1>2. AcceptOK(w)' /\ HeldOK(w)'
    BY Ended, IdleOK
  <1>3. ASSUME NEW v \in Worker \ {w}
        PROVE  AcceptOK(v)' /\ HeldOK(v)'
    <2>1. tx'[v] = tx[v] /\ LocksKept(v)
      BY Ended
    <2>2. Keeps(v)
      BY <2>1 DEF Keeps, Accepting
    <2>. QED
      BY <2>2, KeptForV
  <1>. QED
    BY <1>1, <1>2, <1>3 DEF IndInv

\* insert_user, at an address that is free.
LEMMA Inserted ==
    ASSUME IndInv, NEW s \in Status \ {"none"}, NEW e \in Email,
           NEW i \in Invitation \cup {NoInvitation},
           ~Taken(e), Fresh # {}, InsertUser(s, e, i)
    PROVE  /\ NewAccount \in Account /\ ~Exists(NewAccount)
           /\ account' \in [Account -> AccountRow]
           /\ account'[NewAccount] = [status |-> s, email |-> e, version |-> 1, origin |-> i]
           /\ \A a \in Account \ {NewAccount} : account'[a] = account[a]
           /\ \A a, b \in Account : Exists(a)' /\ Exists(b)'
                                    /\ account'[a].email = account'[b].email => a = b
           /\ \A a \in Account : ~Exists(a)' => account'[a].origin = NoInvitation
  <1>1. NewAccount \in Account /\ ~Exists(NewAccount)
    BY DEF NewAccount, Fresh
  <1>2. [status |-> s, email |-> e, version |-> 1, origin |-> i] \in AccountRow
    BY DEF AccountRow
  <1>3. /\ account' \in [Account -> AccountRow]
        /\ account'[NewAccount] = [status |-> s, email |-> e, version |-> 1, origin |-> i]
        /\ \A a \in Account \ {NewAccount} : account'[a] = account[a]
    BY <1>1, <1>2 DEF InsertUser, IndInv, TypeOK
  <1>4. \A a, b \in Account : Exists(a)' /\ Exists(b)'
                              /\ account'[a].email = account'[b].email => a = b
    BY <1>1, <1>3 DEF Taken, Exists, IndInv, RowsOK
  <1>5. \A a \in Account : ~Exists(a)' => account'[a].origin = NoInvitation
    BY <1>1, <1>3 DEF Exists, IndInv, RowsOK
  <1>. QED
    BY <1>1, <1>3, <1>4, <1>5

\* The accounts that came from an invitation.
From(i) == {a \in Account : account[a].origin = i}

LEMMA InsertedFrom ==
    ASSUME IndInv, NEW s \in Status \ {"none"}, NEW e \in Email,
           NEW i \in Invitation \cup {NoInvitation},
           ~Taken(e), Fresh # {}, InsertUser(s, e, i)
    PROVE  /\ \A j \in Invitation \ {i} : From(j)' = From(j)
           /\ i \in Invitation => From(i)' = From(i) \cup {NewAccount}
  <1>1. /\ NewAccount \in Account /\ account[NewAccount].origin = NoInvitation
        /\ account'[NewAccount].origin = i
        /\ \A a \in Account \ {NewAccount} : account'[a] = account[a]
    <2>1. /\ NewAccount \in Account /\ ~Exists(NewAccount)
          /\ account'[NewAccount] = [status |-> s, email |-> e, version |-> 1, origin |-> i]
          /\ \A a \in Account \ {NewAccount} : account'[a] = account[a]
      BY Inserted
    <2>. QED
      BY <2>1 DEF IndInv, RowsOK
  <1>. QED
    BY <1>1 DEF From

\* What an insertion leaves of what others rely on.
LEMMA InsertedKeeps ==
    ASSUME IndInv, NEW s \in Status \ {"none"}, NEW e \in Email,
           NEW i \in Invitation \cup {NoInvitation},
           ~Taken(e), Fresh # {}, InsertUser(s, e, i)
    PROVE  /\ \A a \in Account : Exists(a) =>
                 /\ a # NewAccount /\ account'[a] = account[a] /\ Exists(a)'
                 /\ account'[a].version \in Nat /\ account'[a].version >= account[a].version
           /\ \A v \in Worker : tx[v].op = "accept" =>
                 Exists(Inviter(v)) /\ Inviter(v) \in Account
  <1>1. \A a \in Account : Exists(a) =>
           a # NewAccount /\ account'[a] = account[a] /\ Exists(a)'
    BY Inserted DEF Exists
  <1>2. \A a \in Account : account[a].version \in Nat
    BY DEF IndInv, TypeOK, AccountRow
  <1>3. ASSUME NEW v \in Worker, tx[v].op = "accept"
        PROVE  Exists(Inviter(v)) /\ Inviter(v) \in Account
    BY <1>3, Own DEF IndInv, TypeOK, InvitationRow, RowsOK, AcceptOK, Inviter, Row
  <1>. QED
    BY <1>1, <1>2, <1>3

LEMMA RegisterStep ==
    ASSUME IndInv, NEW w \in Worker, Register(w)
    PROVE  IndInv'
  <1>1. /\ ~Taken(tx[w].email) /\ Fresh # {} /\ End(w)
        /\ InsertUser("PENDING", tx[w].email, NoInvitation)
        /\ UNCHANGED <<invitation, owner, mode, able, requests, moves>>
    BY DEF Register
  <1>2. tx[w].email \in Email /\ "PENDING" \in Status \ {"none"}
    BY Own DEF Status
  <1>3. TablesTyped'
    BY <1>1, <1>2, Inserted DEF TablesTyped, IndInv, TypeOK
  <1>4. \A j \in Invitation : From(j)' = From(j)
    BY <1>1, <1>2, InsertedFrom
  <1>5. OneAccountPerInvitation'
    BY <1>1, <1>4 DEF OneAccountPerInvitation, From, IndInv
  <1>6. \A a \in Account : Exists(a) => account'[a] = account[a] /\ Exists(a)'
    BY <1>1, <1>2, InsertedKeeps
  <1>7. RowsOK'
    <2>1. \A i \in Invitation : invitation[i].by \in Account
      BY DEF IndInv, TypeOK, InvitationRow
    <2>2. owner # NoAccount => owner \in Account /\ Exists(owner)
      BY DEF IndInv, TypeOK, RowsOK, Exists
    <2>. QED
      BY <1>1, <1>2, <1>6, <2>1, <2>2, Inserted DEF RowsOK, IndInv
  <1>8. RowsKept
    BY <1>1, <1>2, InsertedKeeps DEF RowsKept, Exists
  <1>9. ASSUME NEW v \in Worker \ {w}, tx[v].op = "accept"
        PROVE  account'[Inviter(v)].status = account[Inviter(v)].status
    BY <1>1, <1>2, <1>9, InsertedKeeps
  <1>. QED
    BY <1>1, <1>3, <1>5, <1>7, <1>8, <1>9, Written

LEMMA CreateRootStep ==
    ASSUME IndInv, NEW w \in Worker, CreateRoot(w)
    PROVE  IndInv'
  <1>1. /\ ~Taken(tx[w].email) /\ Fresh # {} /\ End(w) /\ owner = NoAccount
        /\ InsertUser("ACTIVE", tx[w].email, NoInvitation)
        /\ owner' = NewAccount /\ able' = able \cup {NewAccount}
        /\ UNCHANGED <<invitation, mode, requests, moves>>
    BY DEF CreateRoot
  <1>2. tx[w].email \in Email /\ "ACTIVE" \in Status \ {"none"}
    BY Own DEF Status
  <1>3. TablesTyped'
    BY <1>1, <1>2, Inserted DEF TablesTyped, IndInv, TypeOK
  <1>4. \A j \in Invitation : From(j)' = From(j)
    BY <1>1, <1>2, InsertedFrom
  <1>5. OneAccountPerInvitation'
    BY <1>1, <1>4 DEF OneAccountPerInvitation, From, IndInv
  <1>6. \A a \in Account : Exists(a) => account'[a] = account[a] /\ Exists(a)'
    BY <1>1, <1>2, InsertedKeeps
  <1>7. RowsOK'
    <2>1. \A i \in Invitation : invitation[i].by \in Account
      BY DEF IndInv, TypeOK, InvitationRow
    <2>2. account'[NewAccount].status = "ACTIVE"
      <3>1. account'[NewAccount] = [status |-> "ACTIVE", email |-> tx[w].email,
                                    version |-> 1, origin |-> NoInvitation]
        BY <1>1, <1>2, Inserted
      <3>. QED
        BY <3>1
    <2>. QED
      BY <1>1, <1>2, <1>6, <2>1, <2>2, Inserted DEF RowsOK, IndInv
  <1>8. RowsKept
    BY <1>1, <1>2, InsertedKeeps DEF RowsKept, Exists
  <1>9. ASSUME NEW v \in Worker \ {w}, tx[v].op = "accept"
        PROVE  /\ account'[Inviter(v)].status = account[Inviter(v)].status
               /\ Inviter(v) # NewAccount
    BY <1>1, <1>2, <1>9, InsertedKeeps
  <1>. QED
    BY <1>1, <1>3, <1>5, <1>7, <1>8, <1>9, Written

\* An invitation changes its status, by its holder.
Settles(i, status) ==
    /\ invitation' = [invitation EXCEPT ![i].status = status]
    /\ UNCHANGED <<account, owner, mode, able>>

LEMMA SettledTables ==
    ASSUME IndInv, NEW i \in Invitation, NEW s \in {"REVOKED", "EXPIRED"},
           invitation[i].status = "PENDING", Settles(i, s)
    PROVE  TablesTyped' /\ OneAccountPerInvitation' /\ RowsOK' /\ RowsKept
  <1>1. /\ invitation' \in [Invitation -> InvitationRow]
        /\ \A j \in Invitation : /\ j # i => invitation'[j] = invitation[j]
                                 /\ invitation'[j].by = invitation[j].by
                                 /\ invitation'[j].email = invitation[j].email
                                 /\ invitation'[j].account = invitation[j].account
        /\ invitation'[i].status = s
        /\ UNCHANGED <<account, owner, mode, able>>
    BY DEF Settles, IndInv, TypeOK, InvitationRow
  <1>2. TablesTyped'
    BY <1>1 DEF TablesTyped, IndInv, TypeOK
  <1>3. OneAccountPerInvitation'
    BY <1>1 DEF OneAccountPerInvitation, IndInv
  <1>4. RowsOK'
    BY <1>1 DEF RowsOK, IndInv, Exists
  <1>5. RowsKept
    BY <1>1 DEF RowsKept, IndInv, TypeOK, AccountRow, Exists
  <1>. QED
    BY <1>2, <1>3, <1>4, <1>5

LEMMA RetireStep ==
    ASSUME IndInv, NEW w \in Worker, RetireInvitation(w)
    PROVE  IndInv'
  <1>1. /\ tx[w].i \in Invitation /\ Free(invitationLock[tx[w].i], w)
        /\ invitation[tx[w].i].status = "PENDING" /\ End(w)
        /\ Settles(tx[w].i, "EXPIRED") /\ UNCHANGED <<requests, moves>>
    BY Own DEF RetireInvitation, Row, Settles
  <1>2. TablesTyped' /\ OneAccountPerInvitation' /\ RowsOK' /\ RowsKept
    BY <1>1, SettledTables
  <1>3. ASSUME NEW v \in Worker \ {w}, NEW i \in Invitation, invitationLock[i] = v
        PROVE  invitation'[i].status = invitation[i].status
    BY <1>1, <1>3 DEF Free, Settles, IndInv, TypeOK
  <1>. QED
    BY <1>1, <1>2, <1>3, Written DEF Settles

LEMMA RevokeStep ==
    ASSUME IndInv, NEW w \in Worker, RevokeInvitation(w)
    PROVE  IndInv'
  <1>1. /\ tx[w].i \in Invitation /\ invitationLock[tx[w].i] = w /\ End(w)
        /\ UNCHANGED <<account, owner, mode, able, requests, moves>>
    BY Own DEF RevokeInvitation, At, HeldOK
  <1>2. CASE Row(w).status = "PENDING"
    <2>1. Settles(tx[w].i, "REVOKED") /\ invitation[tx[w].i].status = "PENDING"
      BY <1>1, <1>2 DEF RevokeInvitation, MarkRevoked, Settles, Row
    <2>2. TablesTyped' /\ OneAccountPerInvitation' /\ RowsOK' /\ RowsKept
      BY <1>1, <2>1, SettledTables
    <2>3. ASSUME NEW v \in Worker \ {w}, NEW i \in Invitation, invitationLock[i] = v
          PROVE  invitation'[i].status = invitation[i].status
      BY <1>1, <2>1, <2>3 DEF Settles, IndInv, TypeOK
    <2>. QED
      BY <1>1, <2>2, <2>3, Written
  <1>3. CASE Row(w).status # "PENDING"
    <2>1. UNCHANGED tables
      BY <1>1, <1>3 DEF RevokeInvitation, MarkRevoked, tables
    <2>. QED
      BY <1>1, <2>1, Failed DEF Fail
  <1>. QED
    BY <1>2, <1>3

LEMMA AcceptStep ==
    ASSUME IndInv, NEW w \in Worker, AcceptInvitation(w)
    PROVE  IndInv'
  <1> PICK i \in Invitation : i = tx[w].i
    BY Own
  <1>1. /\ i \in Invitation /\ invitation[i].status = "PENDING"
        /\ invitation[i].email \in Email /\ invitationLock[i] = w
        /\ ~Taken(invitation[i].email) /\ Fresh # {} /\ End(w)
        /\ InsertUser("ACTIVE", invitation[i].email, i)
        /\ invitation' = [invitation EXCEPT ![i].status = "ACCEPTED", ![i].account = NewAccount]
        /\ UNCHANGED <<owner, mode, able, requests, moves>>
    BY Own DEF AcceptInvitation, At, Row, AcceptOK, Accepting, IndInv, TypeOK, InvitationRow
  <1>2. "ACTIVE" \in Status \ {"none"} /\ i \in Invitation \cup {NoInvitation}
    BY <1>1 DEF Status
  <1>0. NewAccount \in Account
    BY <1>1, <1>2, Inserted
  <1>3. /\ invitation' \in [Invitation -> InvitationRow]
        /\ \A j \in Invitation : /\ j # i => invitation'[j] = invitation[j]
                                 /\ invitation'[j].by = invitation[j].by
                                 /\ invitation'[j].email = invitation[j].email
        /\ invitation'[i].status = "ACCEPTED" /\ invitation'[i].account = NewAccount
    BY <1>0, <1>1 DEF IndInv, TypeOK, InvitationRow
  <1>4. TablesTyped'
    BY <1>1, <1>2, <1>3, Inserted DEF TablesTyped, IndInv, TypeOK
  <1>5. OneAccountPerInvitation'
    <2>1. \A j \in Invitation \ {i} : From(j)' = From(j)
      BY <1>1, <1>2, InsertedFrom
    <2>2. From(i)' = From(i) \cup {NewAccount}
      BY <1>1, <1>2, InsertedFrom
    <2>3. From(i) = {}
      BY <1>1 DEF From, IndInv, OneAccountPerInvitation
    <2>4. \A j \in Invitation :
             From(j) = IF invitation[j].status = "ACCEPTED" THEN {invitation[j].account} ELSE {}
      BY DEF IndInv, OneAccountPerInvitation, From
    <2>5. ASSUME NEW j \in Invitation
          PROVE  From(j)' = IF invitation'[j].status = "ACCEPTED"
                            THEN {invitation'[j].account} ELSE {}
      <3>1. CASE j = i
        BY <1>3, <2>2, <2>3, <3>1
      <3>2. CASE j # i
        <4>1. From(j)' = From(j) /\ invitation'[j] = invitation[j]
          BY <1>3, <2>1, <3>2
        <4>. QED
          BY <2>4, <4>1
      <3>. QED
        BY <3>1, <3>2
    <2>. QED
      BY <2>5 DEF OneAccountPerInvitation, From
  <1>6. \A a \in Account : Exists(a) => account'[a] = account[a] /\ Exists(a)'
    BY <1>1, <1>2, InsertedKeeps
  <1>6a. \A a \in Account : Exists(a) => account'[a].status # "none"
    BY <1>6 DEF Exists
  <1>7. RowsOK'
    <2>1. \A j \in Invitation : invitation[j].by \in Account
      BY DEF IndInv, TypeOK, InvitationRow
    <2>2. owner # NoAccount => owner \in Account /\ Exists(owner)
      BY DEF IndInv, TypeOK, RowsOK, Exists
    <2>3. \A j, k \in Invitation :
             invitation'[j].status = "PENDING" /\ invitation'[k].status = "PENDING"
             /\ invitation'[j].email = invitation'[k].email => j = k
      <3>1. \A j \in Invitation : invitation'[j].status = "PENDING" =>
               invitation[j].status = "PENDING" /\ invitation'[j].email = invitation[j].email
        BY <1>3
      <3>. QED
        BY <3>1 DEF IndInv, RowsOK
    <2>4. \A j \in Invitation : invitation'[j].status # "none" =>
                                    account'[invitation'[j].by].status # "none"
      <3>1. \A j \in Invitation : invitation[j].status # "none" => Exists(invitation[j].by)
        BY DEF IndInv, RowsOK
      <3>2. \A j \in Invitation : invitation'[j].status # "none" => invitation[j].status # "none"
        BY <1>1, <1>3
      <3>3. \A j \in Invitation : invitation'[j].by = invitation[j].by
        BY <1>3
      <3>. QED
        BY <1>6a, <2>1, <3>1, <3>2, <3>3
    <2>. QED
      BY <1>1, <1>2, <1>6, <2>2, <2>3, <2>4, Inserted DEF RowsOK, IndInv, Exists
  <1>8. RowsKept
    <2>1. \A a \in Account : Exists(a) =>
             /\ account'[a] = account[a] /\ Exists(a)'
             /\ account'[a].version \in Nat /\ account'[a].version >= account[a].version
      BY <1>1, <1>2, InsertedKeeps
    <2>2. \A j \in Invitation : invitation[j].status # "none" =>
             invitation'[j].status # "none" /\ invitation'[j].by = invitation[j].by
      BY <1>3
    <2>. QED
      BY <1>1, <2>1, <2>2 DEF RowsKept, Exists
  <1>9. ASSUME NEW v \in Worker \ {w}, tx[v].op = "accept"
        PROVE  account'[Inviter(v)].status = account[Inviter(v)].status
    BY <1>1, <1>2, <1>9, InsertedKeeps
  <1>10. ASSUME NEW v \in Worker \ {w}, NEW j \in Invitation, invitationLock[j] = v
         PROVE  invitation'[j].status = invitation[j].status
    BY <1>1, <1>3, <1>10
  <1>. QED
    BY <1>1, <1>4, <1>5, <1>7, <1>8, <1>9, <1>10, Written

\* A new invitation, in a row that was none.
LEMMA CreateInvitationStep ==
    ASSUME IndInv, NEW w \in Worker, CreateInvitation(w)
    PROVE  IndInv'
  <1>1. /\ Unsent # {} /\ End(w) /\ UNCHANGED <<account, owner, mode, able, requests, moves>>
        /\ tx[w].a \in Account /\ Exists(tx[w].a) /\ tx[w].email \in Email
    BY Own DEF CreateInvitation, At, HeldOK
  <1>2. CASE invitation' = invitation
    BY <1>1, <1>2, Failed DEF Fail, tables
  <1>3. CASE invitation' # invitation
    <2> DEFINE r == [status |-> "PENDING", email |-> tx[w].email, by |-> tx[w].a,
                     late |-> FALSE, account |-> NoAccount]
    <2>1. PICK n \in Invitation : n = NewInvitation /\ invitation[n].status = "none"
      BY <1>1 DEF NewInvitation, Unsent
    <2>2. ~Invited(tx[w].email) /\ invitation' = [invitation EXCEPT ![n] = r]
      BY <1>3, <2>1 DEF CreateInvitation
    <2>3. /\ r \in InvitationRow /\ r.status = "PENDING" /\ r.email = tx[w].email
          /\ r.by = tx[w].a
      BY <1>1 DEF InvitationRow
    <2> HIDE DEF r
    <2>4. /\ invitation' \in [Invitation -> InvitationRow]
          /\ invitation'[n] = r
          /\ \A j \in Invitation \ {n} : invitation'[j] = invitation[j]
      BY <2>2, <2>3 DEF IndInv, TypeOK
    <2>5. TablesTyped'
      BY <1>1, <2>4 DEF TablesTyped, IndInv, TypeOK
    <2>6. OneAccountPerInvitation'
      BY <1>1, <2>1, <2>3, <2>4 DEF OneAccountPerInvitation, IndInv
    <2>7. RowsOK'
      <3>1. \A i, j \in Invitation :
               invitation'[i].status = "PENDING" /\ invitation'[j].status = "PENDING"
               /\ invitation'[i].email = invitation'[j].email => i = j
        BY <2>2, <2>3, <2>4 DEF Invited, IndInv, RowsOK
      <3>2. \A i \in Invitation : invitation'[i].status # "none" => Exists(invitation'[i].by)
        BY <1>1, <2>3, <2>4 DEF IndInv, RowsOK
      <3>. QED
        BY <1>1, <3>1, <3>2 DEF IndInv, RowsOK, Exists
    <2>8. RowsKept
      BY <1>1, <2>1, <2>4 DEF RowsKept, Exists, IndInv, TypeOK, AccountRow
    <2>. QED
      BY <1>1, <2>1, <2>4, <2>5, <2>6, <2>7, <2>8, Written
  <1>. QED
    BY <1>2, <1>3

-----------------------------------------------------------------------------
(* Changes of an account.                                                    *)

LEMMA RowOfNextVersion ==
    ASSUME NEW row \in AccountRow
    PROVE  /\ \A e \in Email :
                LET r == [row EXCEPT !.email = e, !.version = @ + 1] IN
                /\ r \in AccountRow /\ r.status = row.status
                /\ r.origin = row.origin /\ r.email = e /\ r.version = row.version + 1
           /\ \A s \in Status :
                LET r == [row EXCEPT !.status = s, !.version = @ + 1] IN
                /\ r \in AccountRow /\ r.status = s
                /\ r.origin = row.origin /\ r.email = row.email
                /\ r.version = row.version + 1
  <1>1. row.version + 1 \in Nat
    BY DEF AccountRow
  <1>. QED
    BY <1>1 DEF AccountRow

\* A row that goes on to its next version, its status free to change unless it
\* is the owner's, its address its own.
Edits(a, r) ==
    /\ r \in AccountRow /\ r.status # "none" /\ r.origin = account[a].origin
    /\ r.version = account[a].version + 1
    /\ r.email = account[a].email \/ ~Taken(r.email)
    /\ account' = [account EXCEPT ![a] = r]
    /\ UNCHANGED <<invitation, owner, mode, able>>

LEMMA EditedTables ==
    ASSUME IndInv, NEW a \in Account, NEW r, Exists(a), a # owner, Edits(a, r)
    PROVE  TablesTyped' /\ OneAccountPerInvitation' /\ RowsOK' /\ RowsKept
  <1>1. /\ account' \in [Account -> AccountRow] /\ account'[a] = r
        /\ r.status # "none" /\ r.origin = account[a].origin
        /\ \A b \in Account \ {a} : account'[b] = account[b]
        /\ UNCHANGED <<invitation, owner, mode, able>>
    BY DEF Edits, IndInv, TypeOK
  <1>2. TablesTyped'
    BY <1>1 DEF TablesTyped, IndInv, TypeOK
  <1>3. OneAccountPerInvitation'
    <2>1. \A b \in Account : account'[b].origin = account[b].origin
      BY <1>1
    <2>. QED
      BY <1>1, <2>1 DEF OneAccountPerInvitation, IndInv
  <1>4. RowsOK'
    <2>1. \A b \in Account : Exists(b)' <=> Exists(b)
      BY <1>1 DEF Exists
    <2>2. \A b, c \in Account : Exists(b)' /\ Exists(c)'
                                /\ account'[b].email = account'[c].email => b = c
      <3>1. r.email = account[a].email \/ ~Taken(r.email)
        BY DEF Edits
      <3>. QED
        BY <1>1, <2>1, <3>1 DEF Taken, IndInv, RowsOK
    <2>3. \A i \in Invitation : invitation[i].status # "none" =>
                                  account'[invitation[i].by].status # "none"
      <3>1. \A i \in Invitation : invitation[i].by \in Account
        BY DEF IndInv, TypeOK, InvitationRow
      <3>2. \A b \in Account : Exists(b) => account'[b].status # "none"
        BY <1>1 DEF Exists
      <3>. QED
        BY <3>1, <3>2 DEF IndInv, RowsOK
    <2>4. \A b \in Account : ~Exists(b)' => account'[b].origin = NoInvitation
      BY <1>1, <2>1 DEF IndInv, RowsOK
    <2>5. owner # NoAccount => account'[owner].status = "ACTIVE"
      BY <1>1 DEF IndInv, RowsOK, TypeOK
    <2>. QED
      BY <1>1, <2>2, <2>3, <2>4, <2>5 DEF RowsOK, IndInv, Exists
  <1>5. RowsKept
    <2>1. \A b \in Account : account[b].version \in Nat
      BY DEF IndInv, TypeOK, AccountRow
    <2>2. r.version = account[a].version + 1
      BY DEF Edits
    <2>. QED
      BY <1>1, <2>1, <2>2 DEF RowsKept, Exists
  <1>. QED
    BY <1>2, <1>3, <1>4, <1>5

LEMMA UpdateProfileStep ==
    ASSUME IndInv, NEW w \in Worker, UpdateProfile(w)
    PROVE  IndInv'
  <1>1. /\ End(w) /\ UNCHANGED <<invitation, owner, mode, able, requests, moves>>
        /\ tx[w].a \in Account /\ Exists(tx[w].a) /\ tx[w].email \in Email
        /\ tx[w].a # owner
    BY Own DEF UpdateProfile, At, HeldOK, OnUser
  <1>2. CASE UNCHANGED account
    BY <1>1, <1>2, Failed DEF Fail, tables
  <1>3. CASE account' # account
    <2> DEFINE r == [account[tx[w].a] EXCEPT !.email = tx[w].email, !.version = @ + 1]
    <2>1. /\ account[tx[w].a].email = tx[w].email \/ ~Taken(tx[w].email)
          /\ account' = [account EXCEPT ![tx[w].a] = r]
      BY <1>3 DEF UpdateProfile, WriteProfile
    <2>2. account[tx[w].a] \in AccountRow /\ account[tx[w].a].status # "none"
      BY <1>1 DEF IndInv, TypeOK, Exists
    <2>3. /\ r \in AccountRow /\ r.status = account[tx[w].a].status
          /\ r.origin = account[tx[w].a].origin /\ r.email = tx[w].email
          /\ r.version = account[tx[w].a].version + 1
      BY <1>1, <2>2, RowOfNextVersion
    <2> HIDE DEF r
    <2>4. Edits(tx[w].a, r)
      BY <1>1, <2>1, <2>2, <2>3 DEF Edits
    <2>5. TablesTyped' /\ OneAccountPerInvitation' /\ RowsOK' /\ RowsKept
      BY <1>1, <2>4, EditedTables
    <2>6. \A b \in Account : account'[b].status = account[b].status
      BY <2>1, <2>3 DEF IndInv, TypeOK
    <2>7. ASSUME NEW v \in Worker \ {w}, tx[v].op = "accept"
          PROVE  account'[Inviter(v)].status = account[Inviter(v)].status
      BY <2>6, Own DEF Inviter, Row, IndInv, TypeOK, InvitationRow
    <2>. QED
      BY <1>1, <2>5, <2>7, Written
  <1>. QED
    BY <1>2, <1>3

LEMMA ChangeStatusStep ==
    ASSUME IndInv, NEW w \in Worker, ChangeStatus(w)
    PROVE  IndInv'
  <1> PICK a \in Account : a = tx[w].a
    BY Own
  <1>1. /\ Release(w) /\ UNCHANGED <<invitation, owner, mode, able, requests, moves>>
        /\ Exists(a) /\ a # owner
        /\ tx[w].op \in OnUser /\ SetStatus(w, a, Becomes(tx[w].op))
    BY Own DEF ChangeStatus, At, HeldOK, OnUser
  <1>2. /\ tx' = [(IF account'[a].status = "ACTIVE" THEN Since(w, a) ELSE tx) EXCEPT ![w] = Idle]
    BY DEF ChangeStatus
  <1>3. /\ tx' \in [Worker -> Transaction] /\ tx'[w] = Idle
        /\ \A v \in Worker \ {w} :
              \/ tx'[v] = tx[v]
              \/ Inviter(v) = a /\ tx'[v] = [tx[v] EXCEPT !.active = {a}]
        /\ \A v \in Worker \ {w} :
              account'[a].status = "ACTIVE" /\ Accepting(v) /\ Inviter(v) = a =>
                 tx'[v].active = {a}
    <2>1. \A v \in Worker : [tx[v] EXCEPT !.active = {a}] \in Transaction
                             /\ [tx[v] EXCEPT !.active = {a}].active = {a}
      BY Own DEF Transaction
    <2>2. Idle \in Transaction
      BY IdleTyped
    <2>3. CASE account'[a].status = "ACTIVE"
      BY <1>2, <2>1, <2>2, <2>3 DEF Since, Accepting, IndInv, TypeOK
    <2>4. CASE account'[a].status # "ACTIVE"
      BY <1>2, <2>2, <2>4 DEF IndInv, TypeOK
    <2>. QED
      BY <2>3, <2>4
  <1>4. TablesTyped' /\ OneAccountPerInvitation' /\ RowsOK' /\ RowsKept
        /\ \A b \in Account \ {a} : account'[b] = account[b]
    <2>1. CASE UNCHANGED account
      BY <1>1, <2>1 DEF TablesTyped, OneAccountPerInvitation, RowsOK, RowsKept, Exists,
                        IndInv, TypeOK, AccountRow
    <2>2. CASE account' # account
      <3> PICK s \in Status \ {"none"} : s = Becomes(tx[w].op)
        BY DEF Becomes, Status
      <3> DEFINE r == [account[a] EXCEPT !.status = s, !.version = @ + 1]
      <3>1. account' = [account EXCEPT ![a] = r]
        BY <1>1, <2>2 DEF SetStatus
      <3>3. account[a] \in AccountRow
        BY DEF IndInv, TypeOK
      <3>4. /\ r \in AccountRow /\ r.status # "none" /\ r.origin = account[a].origin
            /\ r.email = account[a].email /\ r.version = account[a].version + 1
        <4>1. s \in Status /\ s # "none"
          OBVIOUS
        <4>2. /\ r \in AccountRow /\ r.status = s /\ r.origin = account[a].origin
              /\ r.email = account[a].email /\ r.version = account[a].version + 1
          BY ONLY <3>3, <4>1, RowOfNextVersion
        <4>. QED
          BY <4>1, <4>2
      <3> HIDE DEF r
      <3>5. Edits(a, r)
        BY <1>1, <3>1, <3>4 DEF Edits
      <3>6. \A b \in Account \ {a} : account'[b] = account[b]
        BY <3>1 DEF IndInv, TypeOK
      <3>. QED
        BY <1>1, <3>5, <3>6, EditedTables
    <2>. QED
      BY <2>1, <2>2
  <1>5. LocksTyped' /\ \A v \in Worker \ {w} : LocksKept(v)
    BY <1>1, Released
  <1>6. TypeOK'
    BY <1>1, <1>3, <1>4, <1>5 DEF IndInv, TypeOK, TablesTyped, LocksTyped
  <1>7. ASSUME NEW v \in Worker \ {w}
        PROVE  AcceptOK(v)' /\ HeldOK(v)'
    <2>1. Accepting(v) /\ account'[Inviter(v)].status = "ACTIVE" =>
             account[Inviter(v)].status = "ACTIVE" \/ Inviter(v) \in tx'[v].active
      <3>1. Inviter(v) \in Account
        BY Own DEF Inviter, Row, IndInv, TypeOK, InvitationRow
      <3>. QED
        BY <1>3, <1>4, <3>1
    <2>2. Keeps(v)
      BY <1>1, <1>3, <1>4, <1>5, <2>1 DEF Keeps
    <2>. QED
      BY <2>2, KeptForV
  <1>8. AcceptOK(w)' /\ HeldOK(w)'
    BY <1>3, IdleOK
  <1>. QED
    BY <1>4, <1>6, <1>7, <1>8 DEF IndInv

-----------------------------------------------------------------------------
(* What happens beside the handlers.                                         *)

LEMMA UpdateSettingStep ==
    ASSUME IndInv, NEW m \in Mode, UpdateSetting(m)
    PROVE  IndInv'
  <1>1. /\ mode' = m /\ moves' = moves + 1
        /\ UNCHANGED <<account, invitation, owner, able, locks, tx, requests>>
    BY DEF UpdateSetting
  <1>2. TypeOK'
    BY <1>1 DEF IndInv, TypeOK, locks
  <1>3. OneAccountPerInvitation' /\ RowsOK' /\ RowsKept
    BY <1>1 DEF IndInv, TypeOK, AccountRow, OneAccountPerInvitation, RowsOK, RowsKept, Exists
  <1>4. ASSUME NEW v \in Worker
        PROVE  AcceptOK(v)' /\ HeldOK(v)'
    <2>1. Keeps(v)
      BY <1>1, <1>3 DEF Keeps, LocksKept, locks
    <2>. QED
      BY <2>1, KeptForV
  <1>. QED
    BY <1>2, <1>3, <1>4 DEF IndInv

LEMMA MoveAuthorityStep ==
    ASSUME IndInv, NEW a \in Account, MoveAuthority(a)
    PROVE  IndInv'
  <1>1. /\ moves' = moves + 1 /\ UNCHANGED <<account, invitation, owner, mode, locks, requests>>
        /\ able' = IF a \in able THEN able \ {a} ELSE able \cup {a}
        /\ tx' = [v \in Worker |->
                    IF tx[v].op = "accept" /\ Inviter(v) = a /\ a \notin able
                    THEN [tx[v] EXCEPT !.could = {a}] ELSE tx[v]]
    BY DEF MoveAuthority
  <1>2. \A v \in Worker : [tx[v] EXCEPT !.could = {a}] \in Transaction
                           /\ [tx[v] EXCEPT !.could = {a}].could = {a}
    BY Own DEF Transaction
  <1>3. TypeOK'
    BY <1>1, <1>2 DEF IndInv, TypeOK, locks
  <1>4. OneAccountPerInvitation' /\ RowsOK' /\ RowsKept
    BY <1>1 DEF IndInv, TypeOK, AccountRow, OneAccountPerInvitation, RowsOK, RowsKept, Exists
  <1>5. ASSUME NEW v \in Worker
        PROVE  AcceptOK(v)' /\ HeldOK(v)'
    <2>1. \/ tx'[v] = tx[v] \/ tx'[v] = [tx[v] EXCEPT !.could = {Inviter(v)}]
      BY <1>1
    <2>2. tx[v].op = "accept" /\ Inviter(v) \in able' => Inviter(v) \in able \cup tx'[v].could
      BY <1>1, <1>2
    <2>3. Keeps(v)
      BY <1>1, <1>4, <2>1, <2>2 DEF Keeps, LocksKept, locks
    <2>. QED
      BY <2>3, KeptForV
  <1>. QED
    BY <1>3, <1>4, <1>5 DEF IndInv

LEMMA LapseStep ==
    ASSUME IndInv, NEW i \in Invitation, Lapse(i)
    PROVE  IndInv'
  <1>1. /\ invitation' = [invitation EXCEPT ![i].late = TRUE]
        /\ UNCHANGED <<account, owner, mode, able, locks, tx, requests, moves>>
    BY DEF Lapse
  <1>2. /\ invitation' \in [Invitation -> InvitationRow]
        /\ \A j \in Invitation : /\ invitation'[j].status = invitation[j].status
                                 /\ invitation'[j].by = invitation[j].by
                                 /\ invitation'[j].email = invitation[j].email
                                 /\ invitation'[j].account = invitation[j].account
    <2> DEFINE r == [invitation[i] EXCEPT !.late = TRUE]
    <2>1. invitation[i] \in InvitationRow
      BY DEF IndInv, TypeOK
    <2>2. /\ r \in InvitationRow /\ r.status = invitation[i].status /\ r.by = invitation[i].by
          /\ r.email = invitation[i].email /\ r.account = invitation[i].account
      BY <2>1 DEF InvitationRow
    <2>3. invitation' = [invitation EXCEPT ![i] = r]
      BY <1>1
    <2> HIDE DEF r
    <2>. QED
      BY <2>2, <2>3 DEF IndInv, TypeOK
  <1>3. TypeOK'
    BY <1>1, <1>2 DEF IndInv, TypeOK, locks
  <1>4. OneAccountPerInvitation'
    BY <1>1, <1>2 DEF IndInv, OneAccountPerInvitation
  <1>5. RowsOK' /\ RowsKept
    BY <1>1, <1>2 DEF IndInv, TypeOK, AccountRow, RowsOK, RowsKept, Exists
  <1>6. ASSUME NEW v \in Worker
        PROVE  AcceptOK(v)' /\ HeldOK(v)'
    <2>1. Keeps(v)
      BY <1>1, <1>2, <1>5 DEF Keeps, LocksKept, locks
    <2>. QED
      BY <2>1, KeptForV
  <1>. QED
    BY <1>3, <1>4, <1>5, <1>6 DEF IndInv

-----------------------------------------------------------------------------
(* The invariant.                                                            *)

LEMMA InitOK ==
    ASSUME Init
    PROVE  IndInv
  <1>1. AnyEmail \in Email /\ AnyAccount \in Account
    BY DEF AnyEmail, AnyAccount
  <1>2. /\ NoRow \in AccountRow /\ NoRow.status = "none" /\ NoRow.origin = NoInvitation
        /\ NoRow.email = AnyEmail
    BY <1>1 DEF NoRow, AccountRow, Status
  <1>3. \A a \in Staff :
           LET r == [NoRow EXCEPT !.status = "ACTIVE", !.email = MailOf[a]] IN
           /\ r \in AccountRow /\ r.status = "ACTIVE" /\ r.email = MailOf[a]
           /\ r.origin = NoInvitation
    BY <1>2 DEF AccountRow, Status
  <1>4. /\ account \in [Account -> AccountRow]
        /\ \A a \in Account : account[a].origin = NoInvitation
        /\ \A a, b \in Account : Exists(a) /\ Exists(b) /\ account[a].email = account[b].email
                                 => a = b
        /\ owner \in Account \cup {NoAccount}
        /\ owner # NoAccount => account[owner].status = "ACTIVE"
    <2>1. CASE account = [a \in Account |-> NoRow] /\ owner = NoAccount
      BY <1>2, <2>1 DEF Exists
    <2>2. CASE account # [a \in Account |-> NoRow] \/ owner # NoAccount
      <3>1. /\ account = [a \in Account |->
                  IF a \in Staff THEN [NoRow EXCEPT !.status = "ACTIVE", !.email = MailOf[a]]
                                 ELSE NoRow]
            /\ owner \in Staff
        BY <2>2 DEF Init
      <3>2. \A a \in Staff : /\ account[a] \in AccountRow /\ account[a].status = "ACTIVE"
                             /\ account[a].email = MailOf[a]
                             /\ account[a].origin = NoInvitation
        BY <1>3, <3>1
      <3>3. \A a \in Account \ Staff : account[a] = NoRow
        BY <3>1
      <3>4. account \in [Account -> AccountRow]
        BY <1>2, <3>1, <3>2, <3>3
      <3>. QED
        <4>1. owner \in Account /\ account[owner].status = "ACTIVE"
          BY <3>1, <3>2
        <4>2. \A a \in Account : account[a].origin = NoInvitation
          BY <1>2, <3>2, <3>3
        <4>3. \A a \in Account : Exists(a) => a \in Staff /\ account[a].email = MailOf[a]
          BY <1>2, <3>2, <3>3 DEF Exists
        <4>4. \A a, b \in Account : Exists(a) /\ Exists(b) /\ account[a].email = account[b].email
                                    => a = b
          BY <4>3
        <4>. QED
          BY <3>4, <4>1, <4>2, <4>4
    <2>. QED
      BY <2>1, <2>2
  <1>5. /\ invitation \in [Invitation -> InvitationRow]
        /\ \A i \in Invitation : invitation[i].status = "none"
    BY <1>1 DEF Init, InvitationRow
  <1>6. TypeOK
    BY <1>4, <1>5, IdleTyped DEF Init, TypeOK
  <1>7. OneAccountPerInvitation /\ RowsOK
    BY <1>4, <1>5 DEF OneAccountPerInvitation, RowsOK
  <1>8. ASSUME NEW w \in Worker
        PROVE  AcceptOK(w) /\ HeldOK(w)
    BY IdleTyped DEF Init, AcceptOK, HeldOK, Accepting, OnUser
  <1>. QED
    BY <1>6, <1>7, <1>8 DEF IndInv

LEMMA HandlerStep ==
    ASSUME IndInv, NEW w \in Worker, Handler(w)
    PROVE  IndInv'
  <1>1. CASE LockBootstrap(w) \/ FindEmail(w) \/ ReadMode(w)
    BY <1>1, OpenSteps
  <1>2. CASE RefuseRoot(w) \/ RefuseToken(w) \/ RefuseAcceptance(w) \/ RefuseRegistration(w)
    BY <1>2, Refusals
  <1>3. CASE CreateRoot(w) \/ Register(w)
    BY <1>3, CreateRootStep, RegisterStep
  <1>4. CASE CreateInvitation(w) \/ LockInvitation(w) \/ RevokeInvitation(w)
    BY <1>4, CreateInvitationStep, LockInvitationStep, RevokeStep
  <1>5. CASE ReadAuthority(w) \/ LockForAcceptance(w) \/ CheckInviter(w)
    BY <1>5, ReadAuthorityStep, LockForAcceptanceStep, CheckInviterStep
  <1>6. CASE RetireInvitation(w) \/ AcceptInvitation(w)
    BY <1>6, RetireStep, AcceptStep
  <1>7. CASE LockUser(w) \/ UpdateProfile(w) \/ ChangeStatus(w)
    BY <1>7, LockUserStep, UpdateProfileStep, ChangeStatusStep
  <1>. QED
    BY <1>1, <1>2, <1>3, <1>4, <1>5, <1>6, <1>7 DEF Handler

LEMMA StepOK ==
    ASSUME IndInv, [Next]_vars
    PROVE  IndInv'
  <1>1. CASE Next
    <2>1. ASSUME NEW w \in Worker, Handler(w) \/ \E op \in Operation : Arrive(w, op)
          PROVE  IndInv'
      BY <2>1, HandlerStep, ArriveStep
    <2>. QED
      BY <1>1, <2>1, UpdateSettingStep, MoveAuthorityStep, LapseStep DEF Next
  <1>2. CASE UNCHANGED vars
    BY <1>2 DEF vars, tables, locks, IndInv, TypeOK, OneAccountPerInvitation, RowsOK, Exists,
                AcceptOK, HeldOK, Accepting, Row, Inviter, SameVersion
  <1>. QED
    BY <1>1, <1>2

\* What holds of the tables and of every handler under way, whatever the
\* handlers interleave.
THEOREM AccountsInvariant == Spec => []IndInv
  <1>. QED
    BY InitOK, StepOK, PTL DEF Spec

\* Every row and every record keeps its type.
THEOREM AccountsTypes == Spec => []TypeOK
  <1>1. IndInv => TypeOK
    BY DEF IndInv
  <1>. QED
    BY <1>1, AccountsInvariant, PTL

\* An accepted invitation has its one account, any other none, however
\* acceptances, revocations and expiry cross.
THEOREM OneAccount == Spec => []OneAccountPerInvitation
  <1>1. IndInv => OneAccountPerInvitation
    BY DEF IndInv
  <1>. QED
    BY <1>1, AccountsInvariant, PTL

-----------------------------------------------------------------------------
(* What a step may never do.                                                 *)

\* The steps that write no invitation, and those that write no account.
LEMMA InvitationsUntouched ==
    ASSUME NEW w \in Worker, Handler(w)
    PROVE  \/ UNCHANGED invitation
           \/ CreateInvitation(w) \/ RevokeInvitation(w) \/ RetireInvitation(w)
           \/ AcceptInvitation(w)
  BY DEF Handler, LockBootstrap, CreateRoot, RefuseRoot, FindEmail, LockInvitation,
         ReadAuthority, LockForAcceptance, RefuseToken, CheckInviter, RefuseAcceptance,
         ReadMode, Register, RefuseRegistration, LockUser, UpdateProfile, ChangeStatus,
         Fail, tables

LEMMA AccountsUntouched ==
    ASSUME NEW w \in Worker, Handler(w)
    PROVE  \/ UNCHANGED account
           \/ CreateRoot(w) \/ Register(w) \/ AcceptInvitation(w)
           \/ UpdateProfile(w) \/ ChangeStatus(w)
  BY DEF Handler, LockBootstrap, RefuseRoot, FindEmail, LockInvitation,
         ReadAuthority, LockForAcceptance, RefuseToken, CheckInviter, RefuseAcceptance,
         ReadMode, RefuseRegistration, LockUser, CreateInvitation, RevokeInvitation,
         RetireInvitation, Fail, tables

\* Only an acceptance makes an invitation ACCEPTED.
LEMMA OnlyAcceptance ==
    ASSUME IndInv, NEW w \in Worker, Handler(w), NEW i \in Invitation,
           invitation[i].status # "ACCEPTED", invitation'[i].status = "ACCEPTED"
    PROVE  AcceptInvitation(w) /\ tx[w].i = i
  <1>1. tx[w].i \in Invitation /\ tx[w].email \in Email
    BY Own
  <1>2. ~CreateInvitation(w)
    <2> SUFFICES ASSUME CreateInvitation(w) PROVE FALSE
      OBVIOUS
    <2>1. NewInvitation \in Invitation
      BY DEF CreateInvitation, NewInvitation, Unsent
    <2>. QED
      BY <2>1 DEF CreateInvitation, IndInv, TypeOK
  <1>3. ~RevokeInvitation(w)
    BY <1>1 DEF RevokeInvitation, MarkRevoked, IndInv, TypeOK, InvitationRow
  <1>4. ~RetireInvitation(w)
    BY <1>1 DEF RetireInvitation, IndInv, TypeOK, InvitationRow
  <1>5. AcceptInvitation(w)
    BY <1>2, <1>3, <1>4, InvitationsUntouched
  <1>6. tx[w].i = i
    BY <1>1, <1>5 DEF AcceptInvitation, IndInv, TypeOK
  <1>. QED
    BY <1>5, <1>6

\* What AcceptedOnRecentAuthority says of a step.
RecentlyFit ==
    \A i \in Invitation :
       invitation[i].status # "ACCEPTED" /\ invitation'[i].status = "ACCEPTED" =>
          \E w \in Worker : /\ tx[w].op = "accept" /\ tx[w].i = i /\ tx'[w].op = "idle"
                            /\ invitation[i].by \in tx[w].active \cap tx[w].could

LEMMA RecentlyFitStep ==
    ASSUME IndInv, [Next]_vars
    PROVE  RecentlyFit
  <1> SUFFICES ASSUME NEW i \in Invitation, invitation[i].status # "ACCEPTED",
                      invitation'[i].status = "ACCEPTED"
               PROVE  \E w \in Worker :
                         /\ tx[w].op = "accept" /\ tx[w].i = i /\ tx'[w].op = "idle"
                         /\ invitation[i].by \in tx[w].active \cap tx[w].could
    BY DEF RecentlyFit
  <1>1. invitation' # invitation
    OBVIOUS
  <1>2. ASSUME NEW j \in Invitation
        PROVE  ~Lapse(j)
    BY <1>2 DEF Lapse, IndInv, TypeOK, InvitationRow
  <1>3. PICK w \in Worker : Handler(w)
    BY <1>1, <1>2 DEF Next, vars, tables, Arrive, UpdateSetting, MoveAuthority
  <1>4. AcceptInvitation(w) /\ tx[w].i = i
    BY <1>3, OnlyAcceptance
  <1>5. /\ tx[w].op = "accept" /\ tx[w].pc = "write" /\ End(w)
        /\ AcceptOK(w)
    BY <1>4, Own DEF AcceptInvitation, At
  <1>6. tx'[w].op = "idle"
    BY <1>5, Ended, IdleTyped
  <1>7. Inviter(w) = invitation[i].by
    BY <1>4 DEF Inviter, Row
  <1>8. invitation[i].by \in tx[w].active \cap tx[w].could
    BY <1>5, <1>7 DEF AcceptOK
  <1>. QED
    BY <1>4, <1>5, <1>6, <1>8

\* The inviter of an account was ACTIVE while the invitation was locked, and
\* able to confer it since the acceptance was asked for.
THEOREM RecentAuthority == Spec => AcceptedOnRecentAuthority
  <1>1. IndInv /\ [Next]_vars => [RecentlyFit]_vars
    BY RecentlyFitStep
  <1>2. Spec => [][RecentlyFit]_vars
    BY <1>1, AccountsInvariant, PTL DEF Spec
  <1>. QED
    BY <1>2 DEF AcceptedOnRecentAuthority, RecentlyFit

\* What StatusOfWhatWasSeen says of a step.
Seen ==
    \A a \in Account :
       Exists(a) /\ account'[a].status # account[a].status =>
          \E w \in Worker : /\ tx[w].op \in OnUser /\ tx[w].a = a /\ tx'[w].op = "idle"
                            /\ tx[w].seen = account[a].status

LEMMA SeenStep ==
    ASSUME IndInv, [Next]_vars
    PROVE  Seen
  <1> SUFFICES ASSUME NEW a \in Account, Exists(a), account'[a].status # account[a].status
               PROVE  \E w \in Worker :
                         /\ tx[w].op \in OnUser /\ tx[w].a = a /\ tx'[w].op = "idle"
                         /\ tx[w].seen = account[a].status
    BY DEF Seen
  <1>1. account' # account
    OBVIOUS
  <1>2. PICK w \in Worker : Handler(w)
    BY <1>1 DEF Next, vars, tables, Arrive, UpdateSetting, MoveAuthority, Lapse
  <1>3. ASSUME CreateRoot(w) \/ Register(w) \/ AcceptInvitation(w)
        PROVE  FALSE
    <2>1. NewAccount \in Account /\ ~Exists(NewAccount)
      BY <1>3 DEF CreateRoot, Register, AcceptInvitation, NewAccount, Fresh
    <2>2. \A b \in Account \ {NewAccount} : account'[b] = account[b]
      BY <1>3, <2>1 DEF CreateRoot, Register, AcceptInvitation, InsertUser, IndInv, TypeOK
    <2>. QED
      BY <2>1, <2>2
  <1>4. tx[w].a \in Account /\ HeldOK(w)
    BY Own
  <1>5. ~UpdateProfile(w)
    BY <1>4 DEF UpdateProfile, WriteProfile, IndInv, TypeOK, AccountRow
  <1>6. ChangeStatus(w)
    BY <1>1, <1>2, <1>3, <1>5, AccountsUntouched
  <1>7. tx[w].op \in OnUser /\ SetStatus(w, tx[w].a, Becomes(tx[w].op))
    BY <1>6 DEF ChangeStatus, At
  <1>8. SameVersion(w) /\ tx[w].a = a
    BY <1>4, <1>7 DEF SetStatus, IndInv, TypeOK
  <1>9. tx'[w].op = "idle"
    <2>1. tx'[w] = Idle
      BY <1>6 DEF ChangeStatus, Since, IndInv, TypeOK
    <2>. QED
      BY <2>1, IdleTyped
  <1>. QED
    BY <1>4, <1>7, <1>8, <1>9 DEF HeldOK

\* A status is changed on the strength of the one the administrator saw.
THEOREM WhatWasSeen == Spec => StatusOfWhatWasSeen
  <1>1. IndInv /\ [Next]_vars => [Seen]_vars
    BY SeenStep
  <1>2. Spec => [][Seen]_vars
    BY <1>1, AccountsInvariant, PTL DEF Spec
  <1>. QED
    BY <1>2 DEF StatusOfWhatWasSeen, Seen
=============================================================================
