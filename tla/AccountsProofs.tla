--------------------------- MODULE AccountsProofs ---------------------------
(***************************************************************************)
(* What survives in the accounts although handlers write back old copies,  *)
(* saves fail and the process restarts: for any number of accounts and of  *)
(* requests at the same time, and any table of ranks.                      *)
(*                                                                         *)
(* The argument is about records, not about the order of writes: whatever  *)
(* is written is a record that agrees with itself and that the audit log   *)
(* bears out, in memory, in the file and in the hands of every handler.    *)
(***************************************************************************)
EXTENDS Accounts, FiniteSetTheorems, SequenceTheorems, WellFoundedInduction, TLAPS

-----------------------------------------------------------------------------
(* Records.                                                                *)

Secrets == 1 .. MaxSecret

RanksMet == {RankForWins(w) : w \in Nat}
LevelsMet == {LevelForWins(w) : w \in Nat}
RatesMet == UNION {{WinRate(w, p) : w \in Nat} : p \in Nat}

AnyRecord == [name : Names \cup {NoName}, secret : Secrets, deleted : BOOLEAN,
              wins : Nat, losses : Nat, played : Nat,
              rank : RanksMet, level : LevelsMet, rate : RatesMet]

Agrees(u) == /\ u.played = u.wins + u.losses
             /\ u.rank = RankForWins(u.wins)
             /\ u.level = LevelForWins(u.wins)
             /\ u.rate = WinRate(u.wins, u.played)

Record == {u \in AnyRecord : Agrees(u)}

LEMMA Met ==
  \A w, p \in Nat :
    RankForWins(w) \in RanksMet /\ LevelForWins(w) \in LevelsMet /\ WinRate(w, p) \in RatesMet
BY DEF RanksMet, LevelsMet, RatesMet

LEMMA NewIsRecord ==
  ASSUME NEW n \in Names, NEW s \in Secrets
  PROVE  /\ NewUser(n, s) \in Record /\ NewUser(n, s).name = n
         /\ NewUser(n, s).wins = 0 /\ NewUser(n, s).losses = 0
<1>1. WinRate(0, 0) = 0
  BY DEF WinRate
<1>2. RankForWins(0) \in RanksMet /\ LevelForWins(0) \in LevelsMet /\ 0 \in RatesMet
  BY <1>1, Met
<1>3. NewUser(n, s) \in AnyRecord
  BY <1>2 DEF NewUser, AnyRecord
<1>4. Agrees(NewUser(n, s))
  BY <1>1 DEF Agrees, NewUser
<1> QED BY <1>3, <1>4 DEF Record, NewUser

LEMMA WinIsRecord ==
  ASSUME NEW u \in Record
  PROVE  WithWin(u) \in Record /\ WithWin(u).wins = u.wins + 1 /\ WithWin(u).losses = u.losses
<1> DEFINE w == u.wins + 1
           p == u.played + 1
<1>1. /\ u \in AnyRecord /\ u.wins \in Nat /\ u.losses \in Nat /\ u.played = u.wins + u.losses
  BY DEF Record, Agrees, AnyRecord
<1>2. w \in Nat /\ p \in Nat /\ p = w + u.losses
  BY <1>1
<1>3. WithWin(u) = [u EXCEPT !.wins = w, !.played = p, !.rank = RankForWins(w),
                             !.level = LevelForWins(w), !.rate = WinRate(w, p)]
  BY DEF WithWin
<1>4. RankForWins(w) \in RanksMet /\ LevelForWins(w) \in LevelsMet /\ WinRate(w, p) \in RatesMet
  BY <1>2, Met
<1> HIDE DEF w, p
<1>5. WithWin(u) \in AnyRecord
  BY <1>1, <1>2, <1>3, <1>4 DEF AnyRecord
<1>6. /\ WithWin(u).wins = w /\ WithWin(u).losses = u.losses /\ WithWin(u).played = p
      /\ WithWin(u).rank = RankForWins(w) /\ WithWin(u).level = LevelForWins(w)
      /\ WithWin(u).rate = WinRate(w, p)
  BY <1>1, <1>3 DEF AnyRecord
<1> QED BY <1>2, <1>5, <1>6 DEF Record, Agrees, w

LEMMA LossIsRecord ==
  ASSUME NEW u \in Record
  PROVE  WithLoss(u) \in Record /\ WithLoss(u).wins = u.wins /\ WithLoss(u).losses = u.losses + 1
<1> DEFINE l == u.losses + 1
           p == u.played + 1
<1>1. /\ u \in AnyRecord /\ u.wins \in Nat /\ u.losses \in Nat /\ u.played = u.wins + u.losses
      /\ u.rank = RankForWins(u.wins) /\ u.level = LevelForWins(u.wins)
  BY DEF Record, Agrees, AnyRecord
<1>2. l \in Nat /\ p \in Nat /\ p = u.wins + l
  BY <1>1
<1>3. WithLoss(u) = [u EXCEPT !.losses = l, !.played = p, !.rate = WinRate(u.wins, p)]
  BY DEF WithLoss
<1>4. WinRate(u.wins, p) \in RatesMet
  BY <1>1, <1>2, Met
<1> HIDE DEF l, p
<1>5. WithLoss(u) \in AnyRecord
  BY <1>1, <1>2, <1>3, <1>4 DEF AnyRecord
<1>6. /\ WithLoss(u).wins = u.wins /\ WithLoss(u).losses = l /\ WithLoss(u).played = p
      /\ WithLoss(u).rank = u.rank /\ WithLoss(u).level = u.level
      /\ WithLoss(u).rate = WinRate(u.wins, p)
  BY <1>1, <1>3 DEF AnyRecord
<1> QED BY <1>1, <1>2, <1>5, <1>6 DEF Record, Agrees, l

LEMMA EditIsRecord ==
  ASSUME NEW u \in Record, NEW s
  PROVE  LET a == [u EXCEPT !.secret = s]
             b == [u EXCEPT !.deleted = TRUE, !.name = NoName]
         IN  /\ s \in Secrets => a \in Record /\ a.wins = u.wins /\ a.losses = u.losses
             /\ b \in Record /\ b.wins = u.wins /\ b.losses = u.losses
<1> DEFINE a == [u EXCEPT !.secret = s]
           b == [u EXCEPT !.deleted = TRUE, !.name = NoName]
<1>1. u \in AnyRecord /\ Agrees(u)
  BY DEF Record
<1>2. (s \in Secrets => a \in AnyRecord) /\ b \in AnyRecord
  BY <1>1 DEF AnyRecord
<1>3. /\ a.wins = u.wins /\ a.losses = u.losses /\ a.played = u.played
      /\ a.rank = u.rank /\ a.level = u.level /\ a.rate = u.rate
      /\ b.wins = u.wins /\ b.losses = u.losses /\ b.played = u.played
      /\ b.rank = u.rank /\ b.level = u.level /\ b.rate = u.rate
  BY <1>1 DEF AnyRecord
<1> HIDE DEF a, b
<1>4. Agrees(a) /\ Agrees(b)
  BY <1>1, <1>3 DEF Agrees
<1>5. (s \in Secrets => a \in Record) /\ b \in Record
  BY <1>2, <1>4 DEF Record
<1> QED BY <1>3, <1>5 DEF a, b

-----------------------------------------------------------------------------
(* Who holds what.                                                         *)

Tables == UNION {[S -> Record] : S \in SUBSET Users}
Disks == [users : Tables, matches : Seq(Rows)]
Jobs == [op : Ops, user : Users \cup {Nobody}, rival : Users \cup {Nobody},
         name : Names \cup {NoName}, copy : Record \cup {NoCopy}, rivalCopy : Record \cup {NoCopy}]

StoreTypes == users \in Tables /\ matches \in Seq(Rows) /\ disk \in Disks
OtherTypes == /\ work \in [Goroutines -> Jobs] /\ saved \in BOOLEAN
              /\ lastSecret \in 0 .. MaxSecret
              /\ \A c \in cookies : c.user \in Users /\ c.secret \in Secrets

(* The copies that are about to be written, and who they are copies of.    *)
HoldsCopy(w) == w.op \in {"update", "logout", "delete", "read_loser", "report"}
JobsUnderstood ==
  \A g \in Goroutines :
    LET w == work[g]
    IN  /\ w.op = "register" => w.user \in Users /\ w.name \in Names
        /\ HoldsCopy(w) => w.user \in Registered /\ w.copy \in Record
        /\ w.op \in {"read_loser", "report"} => w.rival \in Registered /\ w.rival # w.user
        /\ w.op = "report" => w.rivalCopy \in Record

(* Accounts are only ever added to memory, and the file follows it.        *)
FileFollows == DOMAIN disk.users \subseteq Registered

Held == StoreTypes /\ OtherTypes /\ JobsUnderstood /\ FileFollows

LEMMA Tabled ==
  ASSUME NEW t \in Tables
  PROVE  DOMAIN t \subseteq Users /\ t \in [DOMAIN t -> Record] /\ \A u \in DOMAIN t : t[u] \in Record
BY DEF Tables

LEMMA IdleJob ==
  /\ Idle \in Jobs /\ Idle.op = "idle" /\ Idle.user = Nobody
  /\ ~HoldsCopy(Idle)
BY DEF Idle, Jobs, Ops, HoldsCopy

(* A step that changes nothing of the store.                               *)
LEMMA StoreUntouched ==
  ASSUME Held, UNCHANGED <<users, matches, disk>>, OtherTypes', JobsUnderstood'
  PROVE  Held'
BY DEF Held, StoreTypes, FileFollows, Registered

(* One goroutine takes up job w.                                           *)
LEMMA TakesUp ==
  ASSUME Held, NEW g \in Goroutines, NEW w \in Jobs, work' = [work EXCEPT ![g] = w],
         UNCHANGED <<users, matches, disk, saved, cookies, lastSecret>>,
         w.op = "register" => w.user \in Users /\ w.name \in Names,
         HoldsCopy(w) => w.user \in Registered /\ w.copy \in Record,
         w.op \in {"read_loser", "report"} => w.rival \in Registered /\ w.rival # w.user,
         w.op = "report" => w.rivalCopy \in Record
  PROVE  Held'
<1>1. work \in [Goroutines -> Jobs] /\ \A h \in Goroutines : work'[h] = IF h = g THEN w ELSE work[h]
  BY DEF Held, OtherTypes
<1>2. OtherTypes'
  BY DEF Held, OtherTypes
<1>3. Registered' = Registered
  BY DEF Registered
<1>4. ASSUME NEW h \in Goroutines
      PROVE  /\ work'[h].op = "register" => work'[h].user \in Users /\ work'[h].name \in Names
             /\ HoldsCopy(work'[h]) => work'[h].user \in Registered' /\ work'[h].copy \in Record
             /\ work'[h].op \in {"read_loser", "report"} =>
                  work'[h].rival \in Registered' /\ work'[h].rival # work'[h].user
             /\ work'[h].op = "report" => work'[h].rivalCopy \in Record
  BY <1>1, <1>3 DEF Held, JobsUnderstood, HoldsCopy
<1>5. JobsUnderstood'
  BY <1>4 DEF JobsUnderstood, HoldsCopy
<1> QED BY <1>2, <1>5, StoreUntouched

(* A goroutine that has written is idle again.                             *)
LEMMA Written ==
  ASSUME Held, NEW g \in Goroutines, work' = [work EXCEPT ![g] = Idle],
         users' \in Tables, Registered \subseteq Registered', matches' \in Seq(Rows), Save,
         lastSecret' \in 0 .. MaxSecret, \A c \in cookies' : c.user \in Users /\ c.secret \in Secrets
  PROVE  Held'
<1>1. work \in [Goroutines -> Jobs] /\ \A h \in Goroutines : work'[h] = IF h = g THEN Idle ELSE work[h]
  BY DEF Held, OtherTypes
<1>2. OtherTypes'
  BY IdleJob, RunAssumption DEF Held, OtherTypes, Save
<1>3. disk' = disk \/ disk' = [users |-> users', matches |-> matches']
  BY DEF Save, Memory
<1>4. StoreTypes' /\ FileFollows'
  BY <1>3 DEF Held, StoreTypes, FileFollows, Disks, Registered
<1>5. ASSUME NEW h \in Goroutines
      PROVE  /\ work'[h].op = "register" => work'[h].user \in Users /\ work'[h].name \in Names
             /\ HoldsCopy(work'[h]) => work'[h].user \in Registered' /\ work'[h].copy \in Record
             /\ work'[h].op \in {"read_loser", "report"} =>
                  work'[h].rival \in Registered' /\ work'[h].rival # work'[h].user
             /\ work'[h].op = "report" => work'[h].rivalCopy \in Record
  BY <1>1, IdleJob DEF Held, JobsUnderstood, HoldsCopy
<1>6. JobsUnderstood'
  BY <1>5 DEF JobsUnderstood, HoldsCopy
<1> QED BY <1>2, <1>4, <1>6 DEF Held

-----------------------------------------------------------------------------
(* What is written.                                                        *)

(* UpdateUser, of a record in hand.                                        *)
LEMMA UpdateKeeps ==
  ASSUME Held, NEW g \in Goroutines, HoldsCopy(work[g]), NEW c \in Record,
         UpdateUser(work[g].user, c), work' = [work EXCEPT ![g] = Idle],
         lastSecret' \in 0 .. MaxSecret, UNCHANGED cookies
  PROVE  Held' /\ Registered' = Registered /\ users' = [users EXCEPT ![work[g].user] = c]
<1>1. users \in Tables /\ DOMAIN users \subseteq Users /\ users \in [DOMAIN users -> Record]
  BY Tabled DEF Held, StoreTypes
<1>2. users' = [users EXCEPT ![work[g].user] = c] /\ UNCHANGED matches /\ Save
  BY DEF UpdateUser
<1>3. users' \in [DOMAIN users -> Record]
  BY <1>1, <1>2
<1>4. users' \in Tables /\ Registered' = Registered
  BY <1>1, <1>3 DEF Tables, Registered
<1>5. matches' \in Seq(Rows)
  BY <1>2 DEF Held, StoreTypes
<1>6. \A k \in cookies' : k.user \in Users /\ k.secret \in Secrets
  BY DEF Held, OtherTypes
<1>7. Registered \subseteq Registered'
  BY <1>4
<1>8. Held'
  BY <1>2, <1>4, <1>5, <1>6, <1>7, Written
<1> QED BY <1>2, <1>4, <1>8

(* Register, the store call and the cookie.                                *)
LEMMA RegisterKeeps ==
  ASSUME Held, NEW g \in Goroutines, Register(g)
  PROVE  /\ Held'
         /\ \E c \in Record :
              /\ c = NewUser(work[g].name, lastSecret')
              /\ users' = [v \in Registered \cup {work[g].user} |-> IF v = work[g].user THEN c ELSE users[v]]
              /\ c.name = work[g].name /\ ~NameTaken(c.name)
              /\ c.wins = 0 /\ c.losses = 0
<1> DEFINE u == work[g].user
           c == NewUser(work[g].name, lastSecret')
<1>1. u \in Users /\ work[g].name \in Names /\ lastSecret' \in Secrets
      /\ lastSecret' \in 0 .. MaxSecret
  BY RunAssumption DEF Register, FreshSecret, Held, JobsUnderstood, OtherTypes, Secrets
<1>2. /\ ~NameTaken(c.name) /\ UNCHANGED matches /\ Save
      /\ users' = [v \in Registered \cup {u} |-> IF v = u THEN c ELSE users[v]]
      /\ work' = [work EXCEPT ![g] = Idle]
      /\ cookies' \subseteq cookies \cup {Cookie(u, lastSecret')}
  BY DEF Register, CreateUser
<1>3. c \in Record /\ c.name = work[g].name /\ c.wins = 0 /\ c.losses = 0
  BY <1>1, NewIsRecord
<1> HIDE DEF c
<1>4. users \in Tables /\ DOMAIN users \subseteq Users /\ users \in [DOMAIN users -> Record]
  BY Tabled DEF Held, StoreTypes
<1>5. users' \in [Registered \cup {u} -> Record] /\ Registered \cup {u} \subseteq Users
  BY <1>1, <1>2, <1>3, <1>4 DEF Registered
<1>6. users' \in Tables /\ Registered \subseteq Registered'
  BY <1>5 DEF Tables, Registered
<1>7. matches' \in Seq(Rows)
  BY <1>2 DEF Held, StoreTypes
<1>8. \A k \in cookies' : k.user \in Users /\ k.secret \in Secrets
  BY <1>1, <1>2 DEF Held, OtherTypes, Cookie
<1>9. Held'
  BY <1>1, <1>2, <1>6, <1>7, <1>8, Written
<1> QED BY <1>2, <1>3, <1>9 DEF c

(* ReportMatchResult, both users and the row.                              *)
LEMMA ReportKeeps ==
  ASSUME Held, NEW g \in Goroutines, ReportMatchResult(g)
  PROVE  /\ Held' /\ Registered' = Registered
         /\ work[g].user \in Registered /\ work[g].rival \in Registered /\ work[g].user # work[g].rival
         /\ work[g].copy \in Record /\ work[g].rivalCopy \in Record
         /\ \A u \in Registered :
              users'[u] = IF u = work[g].user THEN WithWin(work[g].copy)
                          ELSE IF u = work[g].rival THEN WithLoss(work[g].rivalCopy) ELSE users[u]
<1> DEFINE w == work[g].user
           l == work[g].rival
<1>1. w \in Registered /\ l \in Registered /\ w # l /\ work[g].copy \in Record /\ work[g].rivalCopy \in Record
  BY DEF ReportMatchResult, Held, JobsUnderstood, HoldsCopy
<1>2. WithWin(work[g].copy) \in Record /\ WithLoss(work[g].rivalCopy) \in Record
  BY <1>1, WinIsRecord, LossIsRecord
<1>3. /\ users' = [users EXCEPT ![w] = WithWin(work[g].copy), ![l] = WithLoss(work[g].rivalCopy)]
      /\ matches' = Append(matches, [winner |-> w, loser |-> l])
      /\ Save /\ work' = [work EXCEPT ![g] = Idle] /\ UNCHANGED <<cookies, lastSecret>>
  BY DEF ReportMatchResult
<1>4. users \in Tables /\ DOMAIN users \subseteq Users /\ users \in [DOMAIN users -> Record]
  BY Tabled DEF Held, StoreTypes
<1>5. /\ users' \in [DOMAIN users -> Record]
      /\ \A u \in DOMAIN users : users'[u] = IF u = w THEN WithWin(work[g].copy)
                                  ELSE IF u = l THEN WithLoss(work[g].rivalCopy) ELSE users[u]
  BY <1>1, <1>2, <1>3, <1>4
<1>6. users' \in Tables /\ Registered' = Registered
  BY <1>4, <1>5 DEF Tables, Registered
<1>7. matches' \in Seq(Rows)
  <2>1. [winner |-> w, loser |-> l] \in Rows
    BY <1>1, <1>4 DEF Rows, Registered
  <2> QED BY <1>3, <2>1 DEF Held, StoreTypes
<1>8. lastSecret' \in 0 .. MaxSecret /\ \A k \in cookies' : k.user \in Users /\ k.secret \in Secrets
  BY <1>3 DEF Held, OtherTypes
<1>9. Registered \subseteq Registered'
  BY <1>6
<1>10. Held'
  BY <1>3, <1>6, <1>7, <1>8, <1>9, Written
<1> QED BY <1>1, <1>5, <1>6, <1>10 DEF Registered

LEMMA RestartKeeps ==
  ASSUME Held, Restart
  PROVE  Held'
<1>1. disk \in Disks /\ disk.users \in Tables /\ disk.matches \in Seq(Rows)
  BY DEF Held, StoreTypes, Disks
<1>2. StoreTypes' /\ FileFollows'
  BY <1>1 DEF Restart, StoreTypes, FileFollows, Registered
<1>3. OtherTypes' /\ JobsUnderstood'
  BY IdleJob DEF Restart, Held, OtherTypes, JobsUnderstood, HoldsCopy
<1> QED BY <1>2, <1>3 DEF Held

-----------------------------------------------------------------------------
(* What is only taken in hand.                                             *)

(* The handlers and rooms that take something in hand for a write to come. *)
JobStep ==
  \/ \E g \in Goroutines :
       \/ \E u \in Users, n \in Names : CheckName(g, u, n)
       \/ RegisterRefused(g)
       \/ \E c \in cookies, edit \in Edits : Authenticate(g, c, edit)
       \/ \E winner, loser \in Users : ReadWinner(g, winner, loser)
       \/ ReadLoser(g)
  \/ \E u \in Users : Recover(u)

(* Whatever copy is in hand was there before or is one of the store's now. *)
CopiesFromStore ==
  \A g \in Goroutines :
    /\ HoldsCopy(work'[g]) =>
         \/ work'[g].copy = users[work'[g].user]
         \/ /\ HoldsCopy(work[g])
            /\ work'[g].user = work[g].user /\ work'[g].copy = work[g].copy
    /\ work'[g].op = "report" => work'[g].rivalCopy = users[work'[g].rival] \/ work'[g] = work[g]

LEMMA TakesFromStore ==
  ASSUME Held, NEW g \in Goroutines, NEW w \in Jobs, work' = [work EXCEPT ![g] = w],
         UNCHANGED <<users, matches, disk, saved, cookies, lastSecret>>,
         w.op = "register" => w.user \in Users /\ w.name \in Names,
         HoldsCopy(w) =>
           /\ w.user \in Registered
           /\ \/ w.copy = users[w.user]
              \/ HoldsCopy(work[g]) /\ w.user = work[g].user /\ w.copy = work[g].copy,
         w.op \in {"read_loser", "report"} => w.rival \in Registered /\ w.rival # w.user,
         w.op = "report" => w.rivalCopy = users[w.rival]
  PROVE  Held' /\ UNCHANGED <<users, matches, disk, saved>> /\ CopiesFromStore
<1>1. work \in [Goroutines -> Jobs] /\ \A h \in Goroutines : work'[h] = IF h = g THEN w ELSE work[h]
  BY DEF Held, OtherTypes
<1>2. \A u \in Registered : users[u] \in Record
  BY Tabled DEF Registered, Held, StoreTypes
<1>3. HoldsCopy(w) => w.copy \in Record
  BY <1>2 DEF Held, JobsUnderstood
<1>4. w.op = "report" => w.rivalCopy \in Record
  BY <1>2
<1>5. Held'
  BY <1>3, <1>4, TakesUp
<1>6. CopiesFromStore
  BY <1>1 DEF CopiesFromStore
<1> QED BY <1>5, <1>6

LEMMA JobStepKeeps ==
  ASSUME Held, JobStep
  PROVE  Held' /\ UNCHANGED <<users, matches, disk, saved>> /\ CopiesFromStore
<1>1. work \in [Goroutines -> Jobs]
  BY DEF Held, OtherTypes
<1>2. \A u \in Registered : u \in Users /\ users[u] \in Record
  BY Tabled DEF Registered, Held, StoreTypes
<1> DEFINE Claim == Held' /\ UNCHANGED <<users, matches, disk, saved>> /\ CopiesFromStore
<1>3. ASSUME NEW g \in Goroutines, NEW u \in Users, NEW n \in Names, CheckName(g, u, n)
      PROVE  Claim
  <2> DEFINE w == [Idle EXCEPT !.op = "register", !.user = u, !.name = n]
  <2>1. w \in Jobs /\ w.op = "register" /\ w.user = u /\ w.name = n /\ ~HoldsCopy(w)
    BY DEF Idle, Jobs, Ops, HoldsCopy
  <2>2. work' = [work EXCEPT ![g] = w] /\ UNCHANGED <<users, matches, disk, saved, cookies, lastSecret>>
    BY <1>3 DEF CheckName
  <2> HIDE DEF w
  <2> QED BY <2>1, <2>2, TakesFromStore
<1>4. ASSUME NEW g \in Goroutines, RegisterRefused(g)
      PROVE  Claim
  <2>1. /\ work' = [work EXCEPT ![g] = Idle]
        /\ UNCHANGED <<users, matches, disk, saved, cookies, lastSecret>>
    BY <1>4 DEF RegisterRefused
  <2> QED BY <2>1, IdleJob, TakesFromStore
<1>5. ASSUME NEW g \in Goroutines, NEW c \in cookies, NEW edit \in Edits, Authenticate(g, c, edit)
      PROVE  Claim
  <2> DEFINE w == [Idle EXCEPT !.op = edit, !.user = c.user, !.copy = users[c.user]]
  <2>1. c.user \in Registered
    BY <1>5 DEF Authenticate, Valid
  <2>2. edit \in {"update", "logout", "delete"}
    BY RunAssumption
  <2>3. w \in Jobs /\ w.op = edit /\ w.user = c.user /\ w.copy = users[c.user]
    BY <1>2, <2>1, <2>2 DEF Idle, Jobs, Ops
  <2>4. work' = [work EXCEPT ![g] = w] /\ UNCHANGED <<users, matches, disk, saved, cookies, lastSecret>>
    BY <1>5 DEF Authenticate
  <2> HIDE DEF w
  <2> QED BY <2>1, <2>2, <2>3, <2>4, TakesFromStore
<1>6. ASSUME NEW g \in Goroutines, NEW winner \in Users, NEW loser \in Users, ReadWinner(g, winner, loser)
      PROVE  Claim
  <2> DEFINE w == [Idle EXCEPT !.op = "read_loser", !.user = winner, !.rival = loser, !.copy = users[winner]]
  <2>1. winner \in Registered /\ loser \in Registered /\ winner # loser
    BY <1>6 DEF ReadWinner
  <2>2. w \in Jobs /\ w.op = "read_loser" /\ w.user = winner /\ w.rival = loser /\ w.copy = users[winner]
    BY <1>2, <2>1 DEF Idle, Jobs, Ops
  <2>3. work' = [work EXCEPT ![g] = w] /\ UNCHANGED <<users, matches, disk, saved, cookies, lastSecret>>
    BY <1>6 DEF ReadWinner
  <2> HIDE DEF w
  <2> QED BY <2>1, <2>2, <2>3, TakesFromStore
<1>7. ASSUME NEW g \in Goroutines, ReadLoser(g)
      PROVE  Claim
  <2> DEFINE w == [work[g] EXCEPT !.op = "report", !.rivalCopy = users[work[g].rival]]
  <2>1. /\ work[g].op = "read_loser" /\ HoldsCopy(work[g])
        /\ work[g].user \in Registered /\ work[g].rival \in Registered /\ work[g].rival # work[g].user
    BY <1>7 DEF ReadLoser, Held, JobsUnderstood, HoldsCopy
  <2>2. /\ w \in Jobs /\ w.op = "report" /\ w.user = work[g].user /\ w.rival = work[g].rival
        /\ w.copy = work[g].copy /\ w.rivalCopy = users[work[g].rival]
    BY <1>1, <1>2, <2>1 DEF Jobs, Ops
  <2>3. work' = [work EXCEPT ![g] = w] /\ UNCHANGED <<users, matches, disk, saved, cookies, lastSecret>>
    BY <1>1, <1>7 DEF ReadLoser
  <2> HIDE DEF w
  <2> QED BY <2>1, <2>2, <2>3, TakesFromStore
<1>8. ASSUME NEW u \in Users, Recover(u)
      PROVE  Claim
  <2>1. UNCHANGED <<users, matches, disk, saved, work, lastSecret>> /\ cookies' = cookies \cup {Cookie(u, users[u].secret)}
    BY <1>8 DEF Recover
  <2>2. OtherTypes' /\ JobsUnderstood'
    <3>1. u \in Users /\ users[u].secret \in Secrets
      BY <1>2, <1>8 DEF Recover, Record, AnyRecord
    <3> QED BY <2>1, <3>1 DEF Held, OtherTypes, JobsUnderstood, HoldsCopy, Registered, Cookie
  <2>3. CopiesFromStore
    BY <2>1 DEF CopiesFromStore
  <2> QED BY <2>1, <2>2, <2>3, StoreUntouched
<1> QED BY <1>3, <1>4, <1>5, <1>6, <1>7, <1>8 DEF JobStep

-----------------------------------------------------------------------------
(* The invariant on who holds what.                                        *)

(* The requests that write back one user.                                  *)
LEMMA EditKeeps ==
  ASSUME Held, NEW g \in Goroutines, UpdateMe(g) \/ Logout(g) \/ DeleteMe(g)
  PROVE  /\ Held' /\ Registered' = Registered /\ HoldsCopy(work[g])
         /\ UNCHANGED matches /\ Save /\ work' = [work EXCEPT ![g] = Idle]
         /\ \E c \in Record :
              /\ users' = [users EXCEPT ![work[g].user] = c]
              /\ c.wins = work[g].copy.wins /\ c.losses = work[g].copy.losses
<1> DEFINE o == work[g].copy
           a == [o EXCEPT !.secret = lastSecret']
           b == [o EXCEPT !.deleted = TRUE, !.name = NoName]
<1>1. HoldsCopy(work[g]) /\ o \in Record
  BY DEF UpdateMe, Logout, DeleteMe, HoldsCopy, Held, JobsUnderstood
<1>2. /\ lastSecret' \in 0 .. MaxSecret /\ UNCHANGED cookies /\ work' = [work EXCEPT ![g] = Idle]
      /\ Logout(g) => lastSecret' \in Secrets
  BY RunAssumption DEF UpdateMe, Logout, DeleteMe, FreshSecret, Held, OtherTypes, Secrets
<1>3. /\ Logout(g) => a \in Record /\ a.wins = o.wins /\ a.losses = o.losses
      /\ b \in Record /\ b.wins = o.wins /\ b.losses = o.losses
  BY <1>1, <1>2, EditIsRecord
<1>4. \/ UpdateUser(work[g].user, o)
      \/ Logout(g) /\ UpdateUser(work[g].user, a)
      \/ UpdateUser(work[g].user, b)
  BY DEF UpdateMe, Logout, DeleteMe
<1> HIDE DEF a, b, o
<1>5. PICK c \in Record : UpdateUser(work[g].user, c) /\ c.wins = o.wins /\ c.losses = o.losses
  BY <1>1, <1>3, <1>4 DEF o
<1>6. Held' /\ Registered' = Registered /\ users' = [users EXCEPT ![work[g].user] = c]
  BY <1>1, <1>2, <1>5, UpdateKeeps
<1>7. UNCHANGED matches /\ Save
  BY <1>5 DEF UpdateUser
<1> QED BY <1>1, <1>2, <1>5, <1>6, <1>7 DEF o

(* Every step is one of these.                                             *)
LEMMA StepKinds ==
  ASSUME Next
  PROVE  \/ JobStep
         \/ \E g \in Goroutines :
              Register(g) \/ UpdateMe(g) \/ Logout(g) \/ DeleteMe(g) \/ ReportMatchResult(g)
         \/ Restart
BY DEF Next, JobStep

LEMMA InitHeld ==
  ASSUME Init
  PROVE  Held
<1>1. users \in [{} -> Record] /\ DOMAIN users = {} /\ matches = <<>>
  BY DEF Init
<1>a. users \in Tables /\ matches \in Seq(Rows)
  <2>1. users \in Tables
    BY <1>1 DEF Tables
  <2>2. matches \in Seq(Rows)
    BY <1>1, EmptySeq
  <2> QED BY <2>1, <2>2
<1>2. users \in Tables /\ disk \in Disks /\ disk.users = users
  BY <1>a DEF Init, Memory, Disks
<1>3. StoreTypes /\ FileFollows
  BY <1>1, <1>2 DEF StoreTypes, FileFollows, Registered
<1>4. OtherTypes /\ JobsUnderstood
  BY IdleJob, RunAssumption DEF Init, OtherTypes, JobsUnderstood, HoldsCopy
<1> QED BY <1>3, <1>4 DEF Held

LEMMA StepHeld ==
  ASSUME Held, [Next]_vars
  PROVE  Held'
<1>1. CASE UNCHANGED vars
  BY <1>1 DEF vars, Held, StoreTypes, OtherTypes, JobsUnderstood, HoldsCopy, FileFollows, Registered
<1>2. CASE JobStep
  BY <1>2, JobStepKeeps
<1>3. ASSUME NEW g \in Goroutines,
             Register(g) \/ UpdateMe(g) \/ Logout(g) \/ DeleteMe(g) \/ ReportMatchResult(g)
      PROVE  Held'
  BY <1>3, RegisterKeeps, EditKeeps, ReportKeeps
<1>4. CASE Restart
  BY <1>4, RestartKeeps
<1> QED BY <1>1, <1>2, <1>3, <1>4, StepKinds

LEMMA HeldAlways == Spec => []Held
<1>1. Init => Held
  BY InitHeld
<1>2. Held /\ [Next]_vars => Held'
  BY StepHeld
<1> QED BY <1>1, <1>2, PTL DEF Spec

(* Every record, in memory and in the file, agrees with itself, however    *)
(* handlers overwrite each other's work (UpdateUser and ReportMatchResult  *)
(* of store.go write back whole records, computed from one another).       *)
THEOREM RecordsAlwaysAgree == Spec => []RecordsAgree
<1>1. Held => RecordsAgree
  <2>1. ASSUME Held, NEW all \in {users, disk.users}, NEW u \in DOMAIN all
        PROVE  Agrees(all[u])
    <3>1. all \in Tables
      BY <2>1 DEF Held, StoreTypes, Disks
    <3> QED BY <3>1, Tabled DEF Record
  <2> QED BY <2>1 DEF RecordsAgree, Agrees
<1> QED BY <1>1, HeldAlways, PTL

-----------------------------------------------------------------------------
(* The file.                                                               *)

LEMMA StepDurable ==
  ASSUME Held, SavedIsDurable, [Next]_vars
  PROVE  SavedIsDurable'
<1>1. CASE UNCHANGED <<users, matches, disk, saved>>
  BY <1>1 DEF SavedIsDurable, Memory
<1>2. CASE Save
  BY <1>2 DEF Save, SavedIsDurable, Memory
<1>3. CASE Restart
  <2>1. disk = [users |-> disk.users, matches |-> disk.matches]
    BY DEF Held, StoreTypes, Disks
  <2> QED BY <1>3, <2>1 DEF Restart, SavedIsDurable, Memory
<1>4. UNCHANGED vars => UNCHANGED <<users, matches, disk, saved>>
  BY DEF vars
<1>5. JobStep => UNCHANGED <<users, matches, disk, saved>>
  BY JobStepKeeps
<1>6. ASSUME NEW g \in Goroutines,
             Register(g) \/ UpdateMe(g) \/ Logout(g) \/ DeleteMe(g) \/ ReportMatchResult(g)
      PROVE  Save
  BY <1>6 DEF Register, CreateUser, UpdateMe, Logout, DeleteMe, UpdateUser, ReportMatchResult
<1> QED BY <1>1, <1>2, <1>3, <1>4, <1>5, <1>6, StepKinds

(* After a store call that returned nil the file holds all of memory, so   *)
(* that a restart brings back everything (save of store.go).               *)
THEOREM SavedSurvives == Spec => []SavedIsDurable
<1>1. Init => SavedIsDurable
  BY DEF Init, SavedIsDurable
<1>2. Held /\ SavedIsDurable /\ [Next]_vars => SavedIsDurable'
  BY StepDurable
<1> QED BY <1>1, <1>2, HeldAlways, PTL DEF Spec

-----------------------------------------------------------------------------
(* Names.                                                                  *)

(* No account is created with a name that is another's by then: CreateUser *)
(* looks once more under the lock, and a restart brings back no account    *)
(* that memory had not.                                                    *)
THEOREM NamesAreFree == Spec => NamesFreeWhenTaken
<1>1. ASSUME Held, [Next]_vars, NEW u \in Registered' \ Registered, NEW v \in Registered
      PROVE  users[v].name # users'[u].name
  <2>1. CASE UNCHANGED vars \/ JobStep
    <3>1. UNCHANGED users
      BY <1>1, <2>1, JobStepKeeps DEF vars
    <3> QED BY <3>1 DEF Registered
  <2>2. ASSUME NEW g \in Goroutines, UpdateMe(g) \/ Logout(g) \/ DeleteMe(g) \/ ReportMatchResult(g)
        PROVE  FALSE
    BY <1>1, <2>2, EditKeeps, ReportKeeps
  <2>3. ASSUME NEW g \in Goroutines, Register(g)
        PROVE  users[v].name # users'[u].name
    <3>1. PICK c \in Record :
            /\ users' = [x \in Registered \cup {work[g].user} |-> IF x = work[g].user THEN c ELSE users[x]]
            /\ ~NameTaken(c.name)
      BY <1>1, <2>3, RegisterKeeps
    <3>2. users'[u] = c
      BY <3>1 DEF Registered
    <3> QED BY <3>1, <3>2 DEF NameTaken
  <2>4. CASE Restart
    BY <1>1, <2>4 DEF Restart, Held, FileFollows, Registered
  <2> QED BY <1>1, <2>1, <2>2, <2>3, <2>4, StepKinds
<1>2. Held /\ [Next]_vars =>
        [\A u \in Registered' \ Registered : \A v \in Registered :
           users[v].name # users'[u].name]_vars
  BY <1>1
<1> QED BY <1>2, HeldAlways, PTL DEF Spec, NamesFreeWhenTaken

-----------------------------------------------------------------------------
(* The audit log.                                                          *)

(* The rows of the log that u won, and those that u lost.                 *)
RowsOf(u, rows) == {i \in DOMAIN rows : rows[i].winner = u}
LossesOf(u, rows) == {i \in DOMAIN rows : rows[i].loser = u}

LEMMA RowsFinite ==
  ASSUME NEW rows \in Seq(Rows), NEW u
  PROVE  /\ IsFiniteSet(RowsOf(u, rows)) /\ WonBy(u, rows) \in Nat
         /\ IsFiniteSet(LossesOf(u, rows)) /\ LostBy(u, rows) \in Nat
         /\ WonBy(u, rows) = Cardinality(RowsOf(u, rows))
         /\ LostBy(u, rows) = Cardinality(LossesOf(u, rows))
<1>1. DOMAIN rows = 1 .. Len(rows) /\ Len(rows) \in Nat
  OBVIOUS
<1>2. IsFiniteSet(1 .. Len(rows))
  BY <1>1, FS_Interval
<1>3. IsFiniteSet(RowsOf(u, rows)) /\ IsFiniteSet(LossesOf(u, rows))
  BY <1>1, <1>2, FS_Subset DEF RowsOf, LossesOf
<1> QED BY <1>3, FS_CardinalityType DEF RowsOf, LossesOf, WonBy, LostBy

(* One more row is one more win and one more loss.                         *)
LEMMA OneMoreRow ==
  ASSUME NEW rows \in Seq(Rows), NEW row \in Rows, NEW u
  PROVE  /\ WonBy(u, Append(rows, row)) = WonBy(u, rows) + (IF row.winner = u THEN 1 ELSE 0)
         /\ LostBy(u, Append(rows, row)) = LostBy(u, rows) + (IF row.loser = u THEN 1 ELSE 0)
<1> DEFINE more == Append(rows, row)
<1>1. /\ Len(rows) \in Nat /\ DOMAIN rows = 1 .. Len(rows) /\ DOMAIN more = 1 .. Len(rows) + 1
      /\ \A i \in 1 .. Len(rows) : more[i] = rows[i]
      /\ more[Len(rows) + 1] = row /\ more \in Seq(Rows)
  OBVIOUS
<1> HIDE DEF more
<1>2. WonBy(u, more) = WonBy(u, rows) + (IF row.winner = u THEN 1 ELSE 0)
  <2>1. CASE row.winner = u
    <3>1. RowsOf(u, more) = RowsOf(u, rows) \cup {Len(rows) + 1} /\ Len(rows) + 1 \notin RowsOf(u, rows)
      BY <1>1, <2>1 DEF RowsOf
    <3> QED BY <1>1, <2>1, <3>1, RowsFinite, FS_AddElement
  <2>2. CASE row.winner # u
    <3>1. RowsOf(u, more) = RowsOf(u, rows)
      BY <1>1, <2>2 DEF RowsOf
    <3> QED BY <1>1, <2>2, <3>1, RowsFinite
  <2> QED BY <2>1, <2>2
<1>3. LostBy(u, more) = LostBy(u, rows) + (IF row.loser = u THEN 1 ELSE 0)
  <2>1. CASE row.loser = u
    <3>1. LossesOf(u, more) = LossesOf(u, rows) \cup {Len(rows) + 1} /\ Len(rows) + 1 \notin LossesOf(u, rows)
      BY <1>1, <2>1 DEF LossesOf
    <3> QED BY <1>1, <2>1, <3>1, RowsFinite, FS_AddElement
  <2>2. CASE row.loser # u
    <3>1. LossesOf(u, more) = LossesOf(u, rows)
      BY <1>1, <2>2 DEF LossesOf
    <3> QED BY <1>1, <2>2, <3>1, RowsFinite
  <2> QED BY <2>1, <2>2
<1> QED BY <1>2, <1>3 DEF more

BorneOut(u, r, rows) == r.wins <= WonBy(u, rows) /\ r.losses <= LostBy(u, rows)

(* The log bears out the records of memory and file, and the copies that   *)
(* goroutines hold, against the log as it is by now.                       *)
CopiesBorneOut ==
  \A g \in Goroutines :
    /\ HoldsCopy(work[g]) => BorneOut(work[g].user, work[g].copy, matches)
    /\ work[g].op = "report" => BorneOut(work[g].rival, work[g].rivalCopy, matches)
MemoryBorneOut == \A u \in Registered : BorneOut(u, users[u], matches)
FileBorneOut == \A u \in DOMAIN disk.users : BorneOut(u, disk.users[u], disk.matches)

Backed == CopiesBorneOut /\ MemoryBorneOut /\ FileBorneOut

LEMMA BackedIs == MemoryBorneOut /\ FileBorneOut => StatsBackedByMatches
BY DEF MemoryBorneOut, FileBorneOut, StatsBackedByMatches, BorneOut, Memory, Registered

LEMMA StillBorneOut ==
  ASSUME NEW rows \in Seq(Rows), NEW row \in Rows, NEW u, NEW r \in Record, BorneOut(u, r, rows)
  PROVE  BorneOut(u, r, Append(rows, row))
<1>1. r.wins \in Nat /\ r.losses \in Nat
  BY DEF Record, AnyRecord
<1> QED BY <1>1, RowsFinite, OneMoreRow DEF BorneOut

(* A goroutine writes what the log bears out by then.                      *)
LEMMA WriteBacked ==
  ASSUME Held, Held', Backed, NEW g \in Goroutines, work' = [work EXCEPT ![g] = Idle], Save,
         matches' = matches \/ \E row \in Rows : matches' = Append(matches, row),
         MemoryBorneOut'
  PROVE  Backed'
<1>1. \A h \in Goroutines : work'[h] = IF h = g THEN Idle ELSE work[h]
  BY DEF Held, OtherTypes
<1>2. ASSUME NEW u, NEW r \in Record, BorneOut(u, r, matches)
      PROVE  BorneOut(u, r, matches')
  BY <1>2, StillBorneOut DEF Held, StoreTypes
<1>3. ASSUME NEW h \in Goroutines
      PROVE  /\ HoldsCopy(work'[h]) => BorneOut(work'[h].user, work'[h].copy, matches')
             /\ work'[h].op = "report" => BorneOut(work'[h].rival, work'[h].rivalCopy, matches')
  <2>1. CASE h = g
    BY <1>1, <2>1, IdleJob
  <2>2. CASE h # g
    BY <1>1, <1>2, <2>2 DEF Backed, CopiesBorneOut, Held, JobsUnderstood
  <2> QED BY <2>1, <2>2
<1>4. CopiesBorneOut'
  BY <1>3 DEF CopiesBorneOut, HoldsCopy
<1>5. FileBorneOut'
  <2>1. CASE UNCHANGED disk
    BY <2>1 DEF Backed, FileBorneOut
  <2>2. CASE disk' = Memory'
    <3>1. disk'.users = users' /\ disk'.matches = matches'
      BY <2>2 DEF Memory
    <3> QED BY <3>1 DEF MemoryBorneOut, FileBorneOut, Registered
  <2> QED BY <2>1, <2>2 DEF Save
<1> QED BY <1>4, <1>5 DEF Backed

LEMMA EditBacked ==
  ASSUME Held, Held', Backed, NEW g \in Goroutines, UpdateMe(g) \/ Logout(g) \/ DeleteMe(g)
  PROVE  Backed'
<1>1. /\ Registered' = Registered /\ HoldsCopy(work[g]) /\ UNCHANGED matches /\ Save
      /\ work' = [work EXCEPT ![g] = Idle]
  BY EditKeeps
<1>2. PICK c \in Record : /\ users' = [users EXCEPT ![work[g].user] = c]
                          /\ c.wins = work[g].copy.wins /\ c.losses = work[g].copy.losses
  BY EditKeeps
<1>3. BorneOut(work[g].user, c, matches)
  BY <1>1, <1>2 DEF Backed, CopiesBorneOut, BorneOut
<1>4. MemoryBorneOut'
  <2>1. ASSUME NEW u \in Registered
        PROVE  BorneOut(u, users'[u], matches)
    BY <1>2, <1>3, <2>1 DEF Backed, MemoryBorneOut, Registered
  <2> QED BY <1>1, <2>1 DEF MemoryBorneOut, BorneOut
<1> QED BY <1>1, <1>4, WriteBacked

LEMMA RegisterBacked ==
  ASSUME Held, Held', Backed, NEW g \in Goroutines, Register(g)
  PROVE  Backed'
<1>1. PICK c \in Record :
        /\ users' = [v \in Registered \cup {work[g].user} |-> IF v = work[g].user THEN c ELSE users[v]]
        /\ c.wins = 0 /\ c.losses = 0
  BY RegisterKeeps
<1>2. UNCHANGED matches /\ Save /\ work' = [work EXCEPT ![g] = Idle]
  BY DEF Register, CreateUser
<1>3. BorneOut(work[g].user, c, matches)
  BY <1>1, RowsFinite DEF Held, StoreTypes, BorneOut
<1>4. MemoryBorneOut'
  <2>1. ASSUME NEW u \in Registered'
        PROVE  BorneOut(u, users'[u], matches)
    BY <1>1, <1>3, <2>1 DEF Backed, MemoryBorneOut, Registered
  <2> QED BY <1>2, <2>1 DEF MemoryBorneOut, BorneOut
<1> QED BY <1>2, <1>4, WriteBacked

LEMMA ReportBacked ==
  ASSUME Held, Held', Backed, NEW g \in Goroutines, ReportMatchResult(g)
  PROVE  Backed'
<1> DEFINE w == work[g].user
           l == work[g].rival
           row == [winner |-> w, loser |-> l]
<1>1. /\ Registered' = Registered
      /\ w \in Registered /\ l \in Registered /\ w # l
      /\ work[g].copy \in Record /\ work[g].rivalCopy \in Record
      /\ \A u \in Registered :
           users'[u] = IF u = w THEN WithWin(work[g].copy)
                       ELSE IF u = l THEN WithLoss(work[g].rivalCopy) ELSE users[u]
  BY ReportKeeps
<1>2. /\ matches' = Append(matches, row) /\ Save /\ work' = [work EXCEPT ![g] = Idle]
      /\ work[g].op = "report"
  BY DEF ReportMatchResult
<1>3. /\ matches \in Seq(Rows) /\ users \in Tables
      /\ row \in Rows /\ row.winner = w /\ row.loser = l
  <2>1. Registered \subseteq Users
    BY Tabled DEF Held, StoreTypes, Registered
  <2> QED BY <1>1, <2>1 DEF Held, StoreTypes, Rows
<1> HIDE DEF row
<1>4. BorneOut(w, work[g].copy, matches) /\ BorneOut(l, work[g].rivalCopy, matches)
  BY <1>2 DEF Backed, CopiesBorneOut, HoldsCopy
<1>5. BorneOut(w, WithWin(work[g].copy), matches')
  <2>1. WithWin(work[g].copy).wins = work[g].copy.wins + 1
        /\ WithWin(work[g].copy).losses = work[g].copy.losses
    BY <1>1, WinIsRecord
  <2>2. work[g].copy.wins \in Nat /\ work[g].copy.losses \in Nat
    BY <1>1 DEF Record, AnyRecord
  <2>3. /\ WonBy(w, matches') = WonBy(w, matches) + 1 /\ LostBy(w, matches') = LostBy(w, matches)
        /\ WonBy(w, matches) \in Nat /\ LostBy(w, matches) \in Nat
    BY <1>1, <1>2, <1>3, OneMoreRow, RowsFinite
  <2> QED BY <1>4, <2>1, <2>2, <2>3 DEF BorneOut
<1>6. BorneOut(l, WithLoss(work[g].rivalCopy), matches')
  <2>1. WithLoss(work[g].rivalCopy).wins = work[g].rivalCopy.wins
        /\ WithLoss(work[g].rivalCopy).losses = work[g].rivalCopy.losses + 1
    BY <1>1, LossIsRecord
  <2>2. work[g].rivalCopy.wins \in Nat /\ work[g].rivalCopy.losses \in Nat
    BY <1>1 DEF Record, AnyRecord
  <2>3. /\ WonBy(l, matches') = WonBy(l, matches) /\ LostBy(l, matches') = LostBy(l, matches) + 1
        /\ WonBy(l, matches) \in Nat /\ LostBy(l, matches) \in Nat
    BY <1>1, <1>2, <1>3, OneMoreRow, RowsFinite
  <2> QED BY <1>4, <2>1, <2>2, <2>3 DEF BorneOut
<1>7. MemoryBorneOut'
  <2>1. ASSUME NEW u \in Registered, u # w, u # l
        PROVE  BorneOut(u, users'[u], matches')
    <3>1. users'[u] = users[u] /\ users[u] \in Record /\ BorneOut(u, users[u], matches)
      BY <1>1, <1>3, <2>1, Tabled DEF Backed, MemoryBorneOut, Registered
    <3> QED BY <1>2, <1>3, <3>1, StillBorneOut
  <2>2. \A u \in Registered : BorneOut(u, users'[u], matches')
    BY <1>1, <1>5, <1>6, <2>1
  <2> QED BY <1>1, <2>2 DEF MemoryBorneOut, BorneOut
<1> QED BY <1>2, <1>3, <1>7, WriteBacked

LEMMA StepBacked ==
  ASSUME Held, Held', Backed, [Next]_vars
  PROVE  Backed'
<1>1. CASE UNCHANGED vars
  BY <1>1 DEF vars, Backed, CopiesBorneOut, HoldsCopy, MemoryBorneOut, FileBorneOut, Registered, BorneOut
<1>2. CASE JobStep
  <2>1. UNCHANGED <<users, matches, disk>> /\ CopiesFromStore
    BY <1>2, JobStepKeeps
  <2>2. MemoryBorneOut' /\ FileBorneOut'
    BY <2>1 DEF Backed, MemoryBorneOut, FileBorneOut, Registered, BorneOut
  <2>3. ASSUME NEW g \in Goroutines
        PROVE  /\ HoldsCopy(work'[g]) => BorneOut(work'[g].user, work'[g].copy, matches)
               /\ work'[g].op = "report" => BorneOut(work'[g].rival, work'[g].rivalCopy, matches)
    <3>1. /\ HoldsCopy(work'[g]) => work'[g].user \in Registered
          /\ work'[g].op = "report" => work'[g].rival \in Registered
      BY <2>1 DEF Held, JobsUnderstood, HoldsCopy, Registered
    <3> QED BY <2>1, <3>1 DEF CopiesFromStore, Backed, CopiesBorneOut, MemoryBorneOut
  <2>4. CopiesBorneOut'
    BY <2>1, <2>3 DEF CopiesBorneOut, HoldsCopy, BorneOut
  <2> QED BY <2>2, <2>4 DEF Backed
<1>3. ASSUME NEW g \in Goroutines,
             Register(g) \/ UpdateMe(g) \/ Logout(g) \/ DeleteMe(g) \/ ReportMatchResult(g)
      PROVE  Backed'
  BY <1>3, RegisterBacked, EditBacked, ReportBacked
<1>4. CASE Restart
  <2>1. users' = disk.users /\ matches' = disk.matches /\ UNCHANGED disk /\ work' = [g \in Goroutines |-> Idle]
    BY <1>4 DEF Restart
  <2> QED BY <2>1, IdleJob DEF Backed, CopiesBorneOut, HoldsCopy, MemoryBorneOut, FileBorneOut, Registered, BorneOut
<1> QED BY <1>1, <1>2, <1>3, <1>4, StepKinds

(* No win and no loss is invented: each one in the statistics, of memory   *)
(* and of the file, has its own row in the log of matches, in spite of     *)
(* stale copies, failed saves and restarts (ReportMatchResult of store.go).*)
THEOREM NoResultInvented == Spec => []StatsBackedByMatches
<1>1. Init => Backed
  <2>1. ASSUME Init
        PROVE  DOMAIN users = {} /\ DOMAIN disk.users = {} /\ \A g \in Goroutines : work[g] = Idle
    BY <2>1 DEF Init, Memory
  <2> QED BY <2>1, IdleJob DEF Backed, CopiesBorneOut, HoldsCopy, MemoryBorneOut, FileBorneOut, Registered
<1>2. Held /\ Held' /\ Backed /\ [Next]_vars => Backed'
  BY StepBacked
<1>3. Backed => StatsBackedByMatches
  BY BackedIs DEF Backed
<1> QED BY <1>1, <1>2, <1>3, HeldAlways, PTL DEF Spec

-----------------------------------------------------------------------------
(* Types.                                                                  *)

(* A set of places in a table has a last one.                              *)
LEMMA LastPlace ==
  ASSUME NEW n \in Nat, NEW S, S \subseteq 1 .. n, S # {}
  PROVE  \E i \in S : \A j \in S : j <= i
<1> DEFINE Left == {n - i : i \in S}
<1>1. Left \subseteq Nat /\ Left # {}
  <2>1. \A i \in S : i \in 1 .. n /\ n - i \in Nat
    OBVIOUS
  <2>2. PICK i \in S : TRUE
    OBVIOUS
  <2>3. n - i \in Left
    BY <2>2
  <2> QED BY <2>1, <2>3
<1>2. PICK x \in Left : \A y \in Left : ~ (<<y, x>> \in OpToRel(<, Nat))
  BY <1>1, NatLessThanWellFounded, WFMin
<1>3. \A y \in Left : ~ (y < x)
  BY <1>1, <1>2 DEF OpToRel
<1>4. PICK i \in S : x = n - i
  OBVIOUS
<1>5. ASSUME NEW j \in S PROVE j <= i
  <2>1. n - j \in Left
    OBVIOUS
  <2> QED BY <1>3, <1>4, <2>1
<1> QED BY <1>5

(* Every number of wins has a rank of the table: the first one, at least.  *)
LEMMA RankIsInTheTable ==
  ASSUME NEW w \in Nat
  PROVE  /\ RankForWins(w) \in DOMAIN Thresholds
         /\ Thresholds[RankForWins(w)] <= w
         /\ \A j \in DOMAIN Thresholds : Thresholds[j] <= w => j <= RankForWins(w)
<1> DEFINE Last(i) == /\ Thresholds[i] <= w
                     /\ \A j \in DOMAIN Thresholds : Thresholds[j] <= w => j <= i
           S == {i \in DOMAIN Thresholds : Thresholds[i] <= w}
<1>1. Len(Thresholds) \in Nat /\ DOMAIN Thresholds = 1 .. Len(Thresholds) /\ Len(Thresholds) > 0
  BY RanksAssumption
<1>2. S \subseteq 1 .. Len(Thresholds) /\ 1 \in S
  BY <1>1, RanksAssumption
<1>3. \E i \in S : \A j \in S : j <= i
  BY <1>1, <1>2, LastPlace
<1>4. \E i \in DOMAIN Thresholds : Last(i)
  BY <1>3
<1>5. RankForWins(w) = CHOOSE i \in DOMAIN Thresholds : Last(i)
  BY DEF RankForWins
<1> HIDE DEF Last
<1>6. RankForWins(w) \in DOMAIN Thresholds /\ Last(RankForWins(w))
  BY <1>4, <1>5
<1> QED BY <1>6 DEF Last

LEMMA LevelIsNat ==
  ASSUME NEW w \in Nat
  PROVE  LevelForWins(w) \in Nat
<1>1. \A b \in Nat \ {0} : w \div b \in Nat
  OBVIOUS
<1> QED BY <1>1, RanksAssumption DEF LevelForWins

LEMMA RateIsNat ==
  ASSUME NEW w \in Nat, NEW p \in Nat
  PROVE  WinRate(w, p) \in Nat
<1>1. \A a \in Nat, b \in Nat \ {0} : a \div b \in Nat
  OBVIOUS
<1>2. CASE p # 0
  <2>1. 2000 * w + p \in Nat /\ 2 * p \in Nat \ {0}
    BY <1>2
  <2> QED BY <1>1, <1>2, <2>1 DEF WinRate
<1> QED BY <1>2 DEF WinRate

LEMMA RecordsAreTyped == Record \subseteq UserRecords
<1>1. RanksMet \subseteq DOMAIN Thresholds
  BY RankIsInTheTable DEF RanksMet
<1>2. LevelsMet \subseteq Nat
  BY LevelIsNat DEF LevelsMet
<1>3. RatesMet \subseteq Nat
  BY RateIsNat DEF RatesMet
<1>4. Secrets \subseteq 0 .. MaxSecret
  BY RunAssumption DEF Secrets
<1> QED BY <1>1, <1>2, <1>3, <1>4 DEF Record, AnyRecord, UserRecords

(* Every variable has a value of its type, whoever overwrites whom; a rank *)
(* is one of the table's.                                                  *)
THEOREM TypeCorrect == Spec => []TypeOK
<1>1. ASSUME Held PROVE TypeOK
  <2>1. Registered \subseteq Users /\ \A u \in Registered : users[u] \in UserRecords
    BY <1>1, Tabled, RecordsAreTyped DEF Held, StoreTypes, Registered
  <2>2. DOMAIN disk.users \subseteq Users
    BY <1>1, Tabled DEF Held, StoreTypes, Disks
  <2>3. ASSUME NEW g \in Goroutines
        PROVE  /\ work[g].op \in Ops
               /\ work[g].user \in Users \cup {Nobody} /\ work[g].rival \in Users \cup {Nobody}
               /\ work[g].copy \in UserRecords \cup {NoCopy}
               /\ work[g].rivalCopy \in UserRecords \cup {NoCopy}
    <3>1. work[g] \in Jobs
      BY <1>1 DEF Held, OtherTypes
    <3> QED BY <3>1, RecordsAreTyped DEF Jobs
  <2> QED BY <1>1, <2>1, <2>2, <2>3 DEF TypeOK, Held, StoreTypes, OtherTypes, Secrets
<1> QED BY <1>1, HeldAlways, PTL

-----------------------------------------------------------------------------
(* What is in the file for good.                                           *)

Begins(s, t) == Len(s) <= Len(t) /\ \A i \in 1 .. Len(s) : t[i] = s[i]

(* Nothing that has been saved goes again: whatever happens next, a failed *)
(* save and a restart included, every account and every row of the log the *)
(* file holds is still in memory and in the file, the rows in their places.*)
(* And rows go missing from memory by nothing but a restart.               *)
SavedStays ==
  [][/\ DOMAIN disk.users \subseteq Registered' /\ DOMAIN disk.users \subseteq DOMAIN disk'.users
     /\ Begins(disk.matches, matches') /\ Begins(disk.matches, disk'.matches)
     /\ Begins(matches, matches') \/ Restart]_vars

(* The rows that a restart would lose are the last ones of memory's log.   *)
LogFollows == Begins(disk.matches, matches)

LEMMA BeginsRules ==
  /\ \A s \in Seq(Rows) : Begins(s, s)
  /\ \A s \in Seq(Rows), row \in Rows : Begins(s, Append(s, row))
  /\ \A s, t, u \in Seq(Rows) : Begins(s, t) /\ Begins(t, u) => Begins(s, u)
<1>1. \A s \in Seq(Rows) : Begins(s, s)
  BY DEF Begins
<1>2. ASSUME NEW s \in Seq(Rows), NEW row \in Rows
      PROVE  Begins(s, Append(s, row))
  <2>1. Len(s) \in Nat /\ Len(Append(s, row)) = Len(s) + 1 /\ \A i \in 1 .. Len(s) : Append(s, row)[i] = s[i]
    OBVIOUS
  <2> QED BY <2>1 DEF Begins
<1>3. ASSUME NEW s \in Seq(Rows), NEW t \in Seq(Rows), NEW u \in Seq(Rows), Begins(s, t), Begins(t, u)
      PROVE  Begins(s, u)
  <2>1. Len(s) \in Nat /\ Len(t) \in Nat /\ Len(u) \in Nat
    OBVIOUS
  <2> QED BY <1>3, <2>1 DEF Begins
<1> QED BY <1>1, <1>2, <1>3

(* Every step but a restart adds to the store, and saves the lot or not.   *)
LEMMA StoreGrows ==
  ASSUME Held, [Next]_vars
  PROVE  \/ Restart
         \/ /\ Registered \subseteq Registered' /\ Begins(matches, matches')
            /\ disk' = disk \/ disk' = [users |-> users', matches |-> matches']
<1>0. matches \in Seq(Rows)
  BY DEF Held, StoreTypes
<1>1. CASE UNCHANGED vars \/ JobStep
  <2>1. UNCHANGED <<users, matches, disk>>
    BY <1>1, JobStepKeeps DEF vars
  <2> QED BY <1>0, <2>1, BeginsRules DEF Registered
<1>2. ASSUME NEW g \in Goroutines,
             Register(g) \/ UpdateMe(g) \/ Logout(g) \/ DeleteMe(g) \/ ReportMatchResult(g)
      PROVE  /\ Registered \subseteq Registered' /\ Begins(matches, matches')
             /\ disk' = disk \/ disk' = [users |-> users', matches |-> matches']
  <2>1. Save
    BY <1>2 DEF Register, CreateUser, UpdateMe, Logout, DeleteMe, UpdateUser, ReportMatchResult
  <2>2. disk' = disk \/ disk' = [users |-> users', matches |-> matches']
    BY <2>1 DEF Save, Memory
  <2>3. Registered \subseteq Registered'
    BY <1>2 DEF Register, CreateUser, UpdateMe, Logout, DeleteMe, UpdateUser, ReportMatchResult, Registered
  <2>4. CASE Register(g) \/ UpdateMe(g) \/ Logout(g) \/ DeleteMe(g)
    <3>1. matches' = matches
      BY <2>4 DEF Register, CreateUser, UpdateMe, Logout, DeleteMe, UpdateUser
    <3> QED BY <1>0, <2>2, <2>3, <3>1, BeginsRules
  <2>5. CASE ReportMatchResult(g)
    <3> DEFINE row == [winner |-> work[g].user, loser |-> work[g].rival]
    <3>1. matches' = Append(matches, row)
      BY <2>5 DEF ReportMatchResult
    <3>2. work[g].user \in Users /\ work[g].rival \in Users
      BY <2>5, ReportKeeps, Tabled DEF Held, StoreTypes, Registered
    <3>3. row \in Rows
      BY <3>2 DEF Rows
    <3> HIDE DEF row
    <3> QED BY <3>3, <1>0, <2>2, <2>3, <3>1, BeginsRules
  <2> QED BY <1>2, <2>4, <2>5
<1> QED BY <1>1, <1>2, StepKinds

LEMMA StepStays ==
  ASSUME Held, Held', LogFollows, [Next]_vars
  PROVE  /\ LogFollows'
         /\ DOMAIN disk.users \subseteq Registered' /\ DOMAIN disk.users \subseteq DOMAIN disk'.users
         /\ Begins(disk.matches, matches') /\ Begins(disk.matches, disk'.matches)
         /\ Begins(matches, matches') \/ Restart
<1>1. /\ matches \in Seq(Rows) /\ matches' \in Seq(Rows)
      /\ disk.matches \in Seq(Rows) /\ disk'.matches \in Seq(Rows)
      /\ DOMAIN disk.users \subseteq Registered
  BY DEF Held, StoreTypes, Disks, FileFollows
<1>2. CASE Restart
  <2>1. Registered' = DOMAIN disk.users /\ matches' = disk.matches /\ disk' = disk
    BY <1>2 DEF Restart, Registered
  <2> QED BY <1>1, <1>2, <2>1, BeginsRules DEF LogFollows
<1>3. CASE /\ Registered \subseteq Registered' /\ Begins(matches, matches')
           /\ disk' = disk \/ disk' = [users |-> users', matches |-> matches']
  <2>1. Begins(disk.matches, matches')
    BY <1>1, <1>3, BeginsRules DEF LogFollows
  <2>2. CASE disk' = disk
    BY <1>1, <1>3, <2>1, <2>2, BeginsRules DEF LogFollows
  <2>3. CASE disk' = [users |-> users', matches |-> matches']
    <3>1. disk'.matches = matches' /\ DOMAIN disk'.users = Registered'
      BY <2>3 DEF Registered
    <3> QED BY <1>1, <1>3, <2>1, <3>1, BeginsRules DEF LogFollows
  <2> QED BY <1>3, <2>2, <2>3
<1> QED BY <1>2, <1>3, StoreGrows

(* A saved account or result is there for good, and what a crash loses is  *)
(* the end of the log, results whose save had failed, never one in between *)
(* (save of store.go writes all of memory to a new file or leaves the old  *)
(* one; Open starts from the file).                                        *)
THEOREM NothingSavedIsLost == Spec => []LogFollows /\ SavedStays
<1>1. Init => LogFollows
  <2>1. ASSUME Init PROVE matches \in Seq(Rows) /\ disk.matches = matches
    BY <2>1, InitHeld DEF Held, StoreTypes, Init, Memory
  <2> QED BY <2>1, BeginsRules DEF LogFollows
<1>2. Held /\ Held' /\ LogFollows /\ [Next]_vars =>
        /\ LogFollows'
        /\ [/\ DOMAIN disk.users \subseteq Registered' /\ DOMAIN disk.users \subseteq DOMAIN disk'.users
            /\ Begins(disk.matches, matches') /\ Begins(disk.matches, disk'.matches)
            /\ Begins(matches, matches') \/ Restart]_vars
  BY StepStays
<1> QED BY <1>1, <1>2, HeldAlways, PTL DEF Spec, SavedStays

-----------------------------------------------------------------------------
(* What a profile and the leaderboard show of a record.                    *)

(* The rank is the highest one that the wins reach, and the rate is a rate,*)
(* in tenths of a percent: 0 without a win, 100 percent without a loss.    *)
Shown(u) ==
  /\ u.rank \in DOMAIN Thresholds /\ Thresholds[u.rank] <= u.wins
  /\ \A i \in DOMAIN Thresholds : Thresholds[i] <= u.wins => i <= u.rank
  /\ u.rate \in 0 .. 1000
  /\ u.wins = 0 => u.rate = 0
  /\ u.losses = 0 /\ u.wins > 0 => u.rate = 1000

LEMMA QuotientAtMost ==
  ASSUME NEW a \in Nat, NEW b \in Nat \ {0}, NEW c \in Nat, a < (c + 1) * b
  PROVE  a \div b <= c
<1> DEFINE q == a \div b
<1>1. a \div b \in Nat /\ a = b * (a \div b) + (a % b) /\ a % b \in 0 .. b - 1
  OBVIOUS
<1>2. q \in Nat /\ b * q <= a
  BY <1>1
<1> HIDE DEF q
<1>3. CASE q >= c + 1
  <2>1. PICK d \in Nat : q = c + 1 + d
    <3>1. q - c - 1 \in Nat
      BY <1>2, <1>3
    <3> QED BY <1>2, <3>1
  <2>2. b * q = b * (c + 1) + b * d
    BY <1>2, <2>1
  <2>3. b * (c + 1) \in Nat /\ b * d \in Nat /\ b * (c + 1) = (c + 1) * b
    BY <2>1
  <2> QED BY <1>2, <2>2, <2>3
<1> QED BY <1>2, <1>3 DEF q

LEMMA QuotientAtLeast ==
  ASSUME NEW a \in Nat, NEW b \in Nat \ {0}, NEW c \in Nat, a >= c * b
  PROVE  a \div b >= c
OBVIOUS

LEMMA RateIsRate ==
  ASSUME NEW w \in Nat, NEW l \in Nat
  PROVE  /\ WinRate(w, w + l) \in 0 .. 1000
         /\ w = 0 => WinRate(w, w + l) = 0
         /\ l = 0 /\ w > 0 => WinRate(w, w + l) = 1000
<1>1. CASE w + l = 0
  BY <1>1 DEF WinRate
<1>2. CASE w + l # 0
  <2> DEFINE p == w + l
             a == 2000 * w + p
  <2>1. p \in Nat \ {0} /\ a \in Nat /\ 2 * p \in Nat \ {0}
    BY <1>2
  <2>2. WinRate(w, p) = a \div (2 * p) /\ WinRate(w, p) \in Nat
    BY <2>1, RateIsNat DEF WinRate
  <2>3. a < (1000 + 1) * (2 * p)
    BY <2>1
  <2>4. w = 0 => a < (0 + 1) * (2 * p)
    BY <2>1
  <2>5. l = 0 => a >= 1000 * (2 * p)
    BY <2>1
  <2> HIDE DEF a, p
  <2>6. a \div (2 * p) <= 1000
    BY <2>1, <2>3, QuotientAtMost
  <2>7. w = 0 => a \div (2 * p) <= 0
    BY <2>1, <2>4, QuotientAtMost
  <2>8. l = 0 => a \div (2 * p) >= 1000
    BY <2>1, <2>5, QuotientAtLeast
  <2> QED BY <2>2, <2>6, <2>7, <2>8 DEF p
<1> QED BY <1>1, <1>2

(* Whoever overwrites whose result, and whatever a crash takes back: every *)
(* account's rank is the highest that its own wins reach, and its win rate *)
(* lies between 0 and 100 percent and is exact at both ends (RankForWins   *)
(* and WinRate of config.go).                                              *)
THEOREM ProfilesAddUp == Spec => [](\A all \in {users, disk.users} : \A u \in DOMAIN all : Shown(all[u]))
<1>1. ASSUME NEW r \in Record
      PROVE  Shown(r)
  <2>1. r.wins \in Nat /\ r.losses \in Nat /\ r.played = r.wins + r.losses
    BY DEF Record, AnyRecord, Agrees
  <2>2. r.rank = RankForWins(r.wins) /\ r.rate = WinRate(r.wins, r.wins + r.losses)
    BY DEF Record, Agrees
  <2> QED BY <2>1, <2>2, RankIsInTheTable, RateIsRate DEF Shown
<1>2. ASSUME Held, NEW all \in {users, disk.users}, NEW u \in DOMAIN all
      PROVE  Shown(all[u])
  <2>1. all \in Tables
    BY <1>2 DEF Held, StoreTypes, Disks
  <2>2. all[u] \in Record
    BY <1>2, <2>1, Tabled
  <2> QED BY <1>1, <2>2
<1>3. Held => \A all \in {users, disk.users} : \A u \in DOMAIN all : Shown(all[u])
  BY <1>2
<1> QED BY <1>3, HeldAlways, PTL
=============================================================================
