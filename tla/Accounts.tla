------------------------------ MODULE Accounts ------------------------------
(***************************************************************************)
(* The accounts of internal/store/store.go and the goroutines that change  *)
(* them: HTTP handlers (internal/auth/handlers.go, internal/api/routes.go) *)
(* and rooms that report a ranked result (finishMatch in room.go).         *)
(*                                                                         *)
(* A definition headed "Mutant" is a plausible mistake in the definition it*)
(* names, for a property to catch; it is no part of the specification.     *)
(*                                                                         *)
(* Each store call holds the store's lock and is one step.  A handler is   *)
(* several calls: it takes a copy of a user, changes the copy and writes   *)
(* it back whole, and other goroutines run in between.                     *)
(*                                                                         *)
(* Abstractions: of a user the statistics, the name, the session secret    *)
(* and the deleted mark are kept; names that differ only in case are one   *)
(* name; a cookie is the pair of values it signs.                          *)
(***************************************************************************)
EXTENDS Integers, Sequences, FiniteSets

CONSTANTS Users,         \* account ids
          Names,         \* game names, case folded
          NoName,        \* for a deleted account's "deleted_" + id, which is nobody else's
          Goroutines,    \* handlers and rooms that may run at the same time
          Nobody,        \* no account
          NoCopy,        \* no working copy
          Edits,         \* the account requests made: of "update", "logout", "delete"
          SaveOutcomes,  \* whether save() may succeed, may fail
          Thresholds,    \* the MinWins column of Ranks
          LevelBand,     \* wins per level, 5 in the code
          MaxMatches,    \* bound: ranked matches reported
          MaxSecret      \* bound: session secrets drawn

ASSUME IdsAssumption == Nobody \notin Users /\ NoName \notin Names
ASSUME RanksAssumption == /\ Thresholds \in Seq(Nat) \ {<<>>}
                          /\ Thresholds[1] = 0
                          /\ LevelBand \in Nat \ {0}
ASSUME RunAssumption == /\ Edits \subseteq {"update", "logout", "delete"}
                        /\ SaveOutcomes \subseteq BOOLEAN
                        /\ MaxMatches \in Nat /\ MaxSecret \in Nat

VARIABLES users,       \* fs.Users: a function on the registered accounts
          matches,     \* fs.Matches
          disk,        \* the JSON file: users and matches as last saved
          saved,       \* whether the latest save() returned nil
          cookies,     \* session cookies handed out under this server key
          work,        \* what each goroutine is in the middle of
          lastSecret   \* the latest session secret drawn

vars == <<users, matches, disk, saved, cookies, work, lastSecret>>

Idle == [op |-> "idle", user |-> Nobody, rival |-> Nobody, name |-> NoName,
         copy |-> NoCopy, rivalCopy |-> NoCopy]
-----------------------------------------------------------------------------
(* internal/game/config.go.                                                *)

(* Mutant of RankForWins: the rank after the last one reached.             *)
RankAhead(wins) == Cardinality({i \in DOMAIN Thresholds : Thresholds[i] <= wins}) + 1

(* The last rank whose threshold the wins reach, as its place in Ranks.    *)
RankForWins(wins) ==
  CHOOSE i \in DOMAIN Thresholds :
    /\ Thresholds[i] <= wins
    /\ \A j \in DOMAIN Thresholds : Thresholds[j] <= wins => j <= i

LevelForWins(wins) == wins \div LevelBand + 1

(* In tenths of a percent, rounded half up; 0 before the first match.      *)
WinRate(wins, played) ==
  IF played = 0 THEN 0 ELSE (2000 * wins + played) \div (2 * played)

-----------------------------------------------------------------------------
(* Users.                                                                  *)

NewUser(n, s) ==
  [name |-> n, secret |-> s, deleted |-> FALSE, wins |-> 0, losses |-> 0, played |-> 0,
   rank |-> RankForWins(0), level |-> LevelForWins(0), rate |-> 0]

WithWin(u) ==
  LET wins == u.wins + 1
      played == u.played + 1
  IN  [u EXCEPT !.wins = wins, !.played = played, !.rank = RankForWins(wins),
                !.level = LevelForWins(wins), !.rate = WinRate(wins, played)]

(* Mutant of WithLoss: the loss is not counted as a match played.          *)
LossNotPlayed(u) == [u EXCEPT !.losses = @ + 1, !.rate = WinRate(u.wins, u.played)]

WithLoss(u) ==
  [u EXCEPT !.losses = @ + 1, !.played = @ + 1, !.rate = WinRate(u.wins, u.played + 1)]

Registered == DOMAIN users

(* GetUserByGameName and the loop of CreateUser.                           *)
NameTaken(n) == \E u \in Registered : users[u].name = n

-----------------------------------------------------------------------------
(* The file.                                                               *)

Memory == [users |-> users, matches |-> matches]

(* Mutant of Save: the matches of this very call miss the file.            *)
SaveUsersFirst ==
  \E ok \in SaveOutcomes :
    /\ disk' = IF ok THEN [users |-> users', matches |-> matches] ELSE disk
    /\ saved' = ok

(* Mutant of Save: the error of the rename is dropped.                     *)
SaveUnchecked ==
  /\ \E ok \in SaveOutcomes : disk' = IF ok THEN Memory' ELSE disk
  /\ saved' = TRUE

(* save: everything goes to a temporary file that replaces the old one, or *)
(* an error does and the old file stays; memory is not rolled back.        *)
Save ==
  \E ok \in SaveOutcomes :
    /\ disk' = IF ok THEN Memory' ELSE disk
    /\ saved' = ok

(* UpdateUser: the copy replaces whatever the store holds by now.          *)
UpdateUser(u, copy) ==
  /\ users' = [users EXCEPT ![u] = copy]
  /\ UNCHANGED matches
  /\ Save

-----------------------------------------------------------------------------
(* Sessions.                                                               *)

Cookie(u, s) == [user |-> u, secret |-> s]

(* UserFromRequest for a cookie of this server key.                        *)
Valid(c) == /\ c.user \in Registered
            /\ ~users[c.user].deleted
            /\ users[c.user].secret = c.secret

FreshSecret == lastSecret < MaxSecret /\ lastSecret' = lastSecret + 1

-----------------------------------------------------------------------------
(* Handlers.                                                               *)

(* Register, up to the store call: the friendly check of the name.         *)
CheckName(g, u, n) ==
  /\ work[g] = Idle
  /\ u \notin Registered
  /\ \A h \in Goroutines : work[h].user # u
  /\ ~NameTaken(n)
  /\ work' = [work EXCEPT ![g] = [Idle EXCEPT !.op = "register", !.user = u, !.name = n]]
  /\ UNCHANGED <<users, matches, disk, saved, cookies, lastSecret>>

(* Mutant of CreateUser: it trusts the handler's check.                    *)
CreateUnchecked(u, copy) ==
  /\ users' = [v \in Registered \cup {u} |-> IF v = u THEN copy ELSE users[v]]
  /\ UNCHANGED matches
  /\ Save

(* CreateUser looks at the names once more, now under the lock.            *)
CreateUser(u, copy) ==
  /\ ~NameTaken(copy.name)
  /\ users' = [v \in Registered \cup {u} |-> IF v = u THEN copy ELSE users[v]]
  /\ UNCHANGED matches
  /\ Save

(* The rest of Register; a cookie only for a saved account.                *)
Register(g) ==
  /\ work[g].op = "register"
  /\ FreshSecret
  /\ CreateUser(work[g].user, NewUser(work[g].name, lastSecret'))
  /\ cookies' = IF saved' THEN cookies \cup {Cookie(work[g].user, lastSecret')} ELSE cookies
  /\ work' = [work EXCEPT ![g] = Idle]

(* CreateUser returns ErrNameTaken.                                        *)
RegisterRefused(g) ==
  /\ work[g].op = "register"
  /\ NameTaken(work[g].name)
  /\ work' = [work EXCEPT ![g] = Idle]
  /\ UNCHANGED <<users, matches, disk, saved, cookies, lastSecret>>

(* Recover by the right secret number: a cookie for the user it read; a    *)
(* deleted account is not told apart, its cookie just does not verify.     *)
Recover(u) ==
  /\ u \in Registered
  /\ cookies' = cookies \cup {Cookie(u, users[u].secret)}
  /\ UNCHANGED <<users, matches, disk, saved, work, lastSecret>>

(* RequireAuthAPI, or UserFromRequest in Logout: the request has its copy. *)
Authenticate(g, c, edit) ==
  /\ work[g] = Idle
  /\ Valid(c)
  /\ work' = [work EXCEPT ![g] = [Idle EXCEPT !.op = edit, !.user = c.user, !.copy = users[c.user]]]
  /\ UNCHANGED <<users, matches, disk, saved, cookies, lastSecret>>

(* Fields this module keeps are the ones UpdateMe leaves alone.            *)
UpdateMe(g) ==
  /\ work[g].op = "update"
  /\ UpdateUser(work[g].user, work[g].copy)
  /\ work' = [work EXCEPT ![g] = Idle]
  /\ UNCHANGED <<cookies, lastSecret>>

(* A failed save is not looked at.                                         *)
Logout(g) ==
  /\ work[g].op = "logout"
  /\ FreshSecret
  /\ UpdateUser(work[g].user, [work[g].copy EXCEPT !.secret = lastSecret'])
  /\ work' = [work EXCEPT ![g] = Idle]
  /\ UNCHANGED cookies

DeleteMe(g) ==
  /\ work[g].op = "delete"
  /\ UpdateUser(work[g].user, [work[g].copy EXCEPT !.deleted = TRUE, !.name = NoName])
  /\ work' = [work EXCEPT ![g] = Idle]
  /\ UNCHANGED <<cookies, lastSecret>>

-----------------------------------------------------------------------------
(* A room that reports a ranked result, in three store calls.              *)

ReadWinner(g, winner, loser) ==
  /\ work[g] = Idle
  /\ {winner, loser} \subseteq Registered
  /\ winner # loser
  /\ work' = [work EXCEPT ![g] = [Idle EXCEPT !.op = "read_loser", !.user = winner,
                                               !.rival = loser, !.copy = users[winner]]]
  /\ UNCHANGED <<users, matches, disk, saved, cookies, lastSecret>>

ReadLoser(g) ==
  /\ work[g].op = "read_loser"
  /\ work' = [work EXCEPT ![g].op = "report", ![g].rivalCopy = users[work[g].rival]]
  /\ UNCHANGED <<users, matches, disk, saved, cookies, lastSecret>>

(* ReportMatchResult: both copies and the row, one lock, one save.         *)
ReportMatchResult(g) ==
  /\ work[g].op = "report"
  /\ Len(matches) < MaxMatches
  /\ users' = [users EXCEPT ![work[g].user] = WithWin(work[g].copy),
                            ![work[g].rival] = WithLoss(work[g].rivalCopy)]
  /\ matches' = Append(matches, [winner |-> work[g].user, loser |-> work[g].rival])
  /\ Save
  /\ work' = [work EXCEPT ![g] = Idle]
  /\ UNCHANGED <<cookies, lastSecret>>

-----------------------------------------------------------------------------
(* The process dies and comes back with the file and a new server key,     *)
(* which no cookie is signed with.                                         *)
Restart ==
  /\ users' = disk.users
  /\ matches' = disk.matches
  /\ saved' = TRUE
  /\ cookies' = {}
  /\ work' = [g \in Goroutines |-> Idle]
  /\ UNCHANGED <<disk, lastSecret>>

Init ==
  /\ users = [u \in {} |-> NewUser(NoName, 0)]
  /\ matches = <<>>
  /\ disk = Memory
  /\ saved = TRUE
  /\ cookies = {}
  /\ work = [g \in Goroutines |-> Idle]
  /\ lastSecret = 0

Next ==
  \/ \E g \in Goroutines :
       \/ \E u \in Users, n \in Names : CheckName(g, u, n)
       \/ Register(g) \/ RegisterRefused(g)
       \/ \E c \in cookies, edit \in Edits : Authenticate(g, c, edit)
       \/ UpdateMe(g) \/ Logout(g) \/ DeleteMe(g)
       \/ \E winner, loser \in Users : ReadWinner(g, winner, loser)
       \/ ReadLoser(g) \/ ReportMatchResult(g)
  \/ \E u \in Users : Recover(u)
  \/ Restart

Spec == Init /\ [][Next]_vars

-----------------------------------------------------------------------------
(* Properties.                                                             *)

UserRecords == [name : Names \cup {NoName}, secret : 0 .. MaxSecret, deleted : BOOLEAN,
                wins : Nat, losses : Nat, played : Nat,
                rank : DOMAIN Thresholds, level : Nat, rate : Nat]
Ops == {"idle", "register", "update", "logout", "delete", "read_loser", "report"}
Rows == [winner : Users, loser : Users]

(* The values of every variable.                                           *)
TypeOK ==
  /\ Registered \subseteq Users /\ \A u \in Registered : users[u] \in UserRecords
  /\ matches \in Seq(Rows)
  /\ DOMAIN disk.users \subseteq Users
  /\ saved \in BOOLEAN
  /\ \A c \in cookies : c.user \in Users /\ c.secret \in 1 .. MaxSecret
  /\ \A g \in Goroutines :
       /\ work[g].op \in Ops
       /\ work[g].user \in Users \cup {Nobody} /\ work[g].rival \in Users \cup {Nobody}
       /\ work[g].copy \in UserRecords \cup {NoCopy}
       /\ work[g].rivalCopy \in UserRecords \cup {NoCopy}
  /\ lastSecret \in 0 .. MaxSecret

WonBy(u, rows) == Cardinality({i \in DOMAIN rows : rows[i].winner = u})
LostBy(u, rows) == Cardinality({i \in DOMAIN rows : rows[i].loser = u})

(* However writes overwrite each other, every record, in memory and in the *)
(* file, agrees with itself: the matches are the wins and losses, and the  *)
(* rank, level and rate are those of config.go for them.                   *)
RecordsAgree ==
  \A all \in {users, disk.users} : \A u \in DOMAIN all :
    /\ all[u].played = all[u].wins + all[u].losses
    /\ all[u].rank = RankForWins(all[u].wins)
    /\ all[u].level = LevelForWins(all[u].wins)
    /\ all[u].rate = WinRate(all[u].wins, all[u].played)

(* No account has a win or a loss without a row of the audit log for it,   *)
(* also after a failed save and a restart: results may be overwritten, but *)
(* none is invented (ReportMatchResult saves users and row at once).       *)
StatsBackedByMatches ==
  \A m \in {Memory, disk} : \A u \in DOMAIN m.users :
    /\ m.users[u].wins <= WonBy(u, m.matches)
    /\ m.users[u].losses <= LostBy(u, m.matches)

(* What a call that returned nil has changed is in the file, and a restart *)
(* brings it back.                                                         *)
SavedIsDurable == saved => disk = Memory

(* No account is created with a name that another has by then, though the  *)
(* handler's own look at the names is long ago when the store creates it   *)
(* (Unique game-name constraint enforced at store layer, progress.md).     *)
NamesFreeWhenTaken ==
  [][\A u \in Registered' \ Registered : \A v \in Registered :
       users[v].name # users'[u].name]_vars

(* Every row of the audit log is in the statistics of both its players     *)
(* (store.go: ReportMatchResult atomically updates both users' stats).     *)
EveryMatchCounted ==
  \A u \in Registered :
    users[u].wins = WonBy(u, matches) /\ users[u].losses = LostBy(u, matches)
=============================================================================
