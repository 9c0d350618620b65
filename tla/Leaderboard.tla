----------------------------- MODULE Leaderboard -----------------------------
(***************************************************************************)
(* The leaderboard's page, which is loaded piece by piece: ListLeaderboard *)
(* in internal/store/store.go, Leaderboard in internal/api/routes.go and   *)
(* loadMore in web/templates/leaderboard.html, while the accounts change.  *)
(*                                                                         *)
(* Abstractions: an account is a number, and the order of the numbers is   *)
(* the order of the names; of a row its account and position are kept.     *)
(*                                                                         *)
(* A definition headed "Mutant" is a plausible mistake in the definition it*)
(* names, for a property to catch; it is no part of the specification.     *)
(***************************************************************************)
EXTENDS Naturals, SequencesExt

CONSTANTS Accounts,  \* a set of numbers
          Limit,     \* limit=25
          MaxWins,   \* bound: wins of an account
          MaxRows,   \* bound: no more is asked for when so many rows are shown
          Loads      \* bound: calls of loadMore that wait at the same time

ASSUME BoardAssumption ==
  /\ Accounts \subseteq Nat /\ IsFiniteSet(Accounts)
  /\ {Limit, MaxWins, MaxRows, Loads} \subseteq Nat

VARIABLES wins, status,  \* of the accounts: "absent", "live" or "deleted"
          rows, cursor,  \* what is shown, and let cursor
          more,          \* the button is shown
          load,          \* the calls of loadMore that wait
          rose,          \* history: who won or came since the page was opened
          sank,          \* history: somebody left, or lost wins, since then
          overlapped     \* history: two calls have waited at the same time

accountVars == <<wins, status, rose, sank>>
boardVars == <<accountVars, rows, cursor, more, load, overlapped>>

Live == {u \in Accounts : status[u] = "live"}
NoLoad == [stage |-> "none", cursor |-> 0, rows |-> <<>>, more |-> FALSE]

-----------------------------------------------------------------------------
(* The server.                                                             *)

(* The comparison of the sort: more wins, then the name.                   *)
Above(u, v) == wins[u] > wins[v] \/ (wins[u] = wins[v] /\ u < v)

(* The place the sort gives an account: behind those that come before it.  *)
Place(u) == Cardinality({v \in Live : Above(v, u)}) + 1

Ranking == [i \in 1 .. Cardinality(Live) |-> CHOOSE u \in Live : Place(u) = i]

(* "if offset > total", "if end > total".                                  *)
Bounded(i) == Min({i, Len(Ranking)})

(* Mutant of Page: it begins with the last row of the page before.         *)
PageFromLastRow(c) == SubSeq(Ranking, Max({Bounded(c), 1}), Bounded(c + Limit))

(* ListLeaderboard: the slice.                                             *)
Page(c) == SubSeq(Ranking, Bounded(c) + 1, Bounded(c + Limit))

Rows(c, list) == [i \in DOMAIN list |-> [user |-> list[i], position |-> c + i]]

(* The handler of GET /api/leaderboard.                                    *)
Leaderboard(l) ==
  /\ load[l].stage = "asked"
  /\ LET c == load[l].cursor
         list == Page(c)
     IN  load' = [load EXCEPT ![l] = [stage |-> "answered", cursor |-> c + Len(list),
                                      rows |-> Rows(c, list), more |-> c + Len(list) < Len(Ranking)]]
  /\ UNCHANGED <<accountVars, rows, cursor, more, overlapped>>

-----------------------------------------------------------------------------
(* The page.                                                               *)

(* loadMore, as far as its await; the first call is made by the page.      *)
LoadMore(l) ==
  /\ more
  /\ load[l] = NoLoad
  /\ Len(rows) < MaxRows
  /\ load' = [load EXCEPT ![l] = [stage |-> "asked", cursor |-> cursor, rows |-> <<>>, more |-> FALSE]]
  /\ overlapped' = (overlapped \/ \E m \in 1 .. Loads : load[m] # NoLoad)
  /\ UNCHANGED <<accountVars, rows, cursor, more>>

(* Mutant of Show: the cursor counts the rows that are shown.              *)
ShowAndCount(l) ==
  /\ load[l].stage = "answered"
  /\ rows' = rows \o load[l].rows
  /\ cursor' = Len(rows')
  /\ more' = load[l].more
  /\ load' = [load EXCEPT ![l] = NoLoad]
  /\ UNCHANGED <<accountVars, overlapped>>

(* The rest of loadMore; answers arrive in any order.                      *)
Show(l) ==
  /\ load[l].stage = "answered"
  /\ rows' = rows \o load[l].rows
  /\ cursor' = load[l].cursor
  /\ more' = load[l].more
  /\ load' = [load EXCEPT ![l] = NoLoad]
  /\ UNCHANGED <<accountVars, overlapped>>

(* apiFetch throws, or no answer comes: the rest does not run.             *)
Fail(l) ==
  /\ load[l] # NoLoad
  /\ load' = [load EXCEPT ![l] = NoLoad]
  /\ UNCHANGED <<accountVars, rows, cursor, more, overlapped>>

-----------------------------------------------------------------------------
(* The accounts change (see Accounts).                                     *)

PageOnly == UNCHANGED <<rows, cursor, more, load, overlapped>>

Register(u) ==
  /\ status[u] = "absent"
  /\ status' = [status EXCEPT ![u] = "live"]
  /\ rose' = rose \cup {u}
  /\ UNCHANGED <<wins, sank>> /\ PageOnly

Win(u) ==
  /\ u \in Live /\ wins[u] < MaxWins
  /\ wins' = [wins EXCEPT ![u] = @ + 1]
  /\ rose' = rose \cup {u}
  /\ UNCHANGED <<status, sank>> /\ PageOnly

(* Bound: places are lost once.                                            *)
MaySink == ~sank

(* An outdated copy is written back.                                       *)
LoseWin(u) ==
  /\ MaySink
  /\ u \in Live /\ wins[u] > 0
  /\ wins' = [wins EXCEPT ![u] = @ - 1]
  /\ sank' = TRUE
  /\ UNCHANGED <<status, rose>> /\ PageOnly

DeleteMe(u) ==
  /\ MaySink
  /\ u \in Live
  /\ status' = [status EXCEPT ![u] = "deleted"]
  /\ sank' = TRUE
  /\ UNCHANGED <<wins, rose>> /\ PageOnly

-----------------------------------------------------------------------------

(* The page is opened; nobody who is absent has won.                       *)
BoardInit ==
  /\ status \in [Accounts -> {"absent", "live"}]
  /\ wins \in [Accounts -> 0 .. MaxWins]
  /\ \A u \in Accounts : status[u] = "absent" => wins[u] = 0
  /\ rows = <<>> /\ cursor = 0 /\ more = TRUE
  /\ load = [l \in 1 .. Loads |-> NoLoad]
  /\ rose = {} /\ sank = FALSE /\ overlapped = FALSE

BoardNext ==
  \/ \E l \in 1 .. Loads : LoadMore(l) \/ Leaderboard(l) \/ Show(l) \/ Fail(l)
  \/ \E u \in Accounts : Register(u) \/ Win(u) \/ LoseWin(u) \/ DeleteMe(u)

BoardSpec == BoardInit /\ [][BoardNext]_boardVars

-----------------------------------------------------------------------------
(* Properties.                                                             *)

(* If nobody's place changed while the page was being loaded, it shows the *)
(* ranking from the top, under positions that count on from one piece to   *)
(* the next, and all of it once the button is gone.                        *)
ShowsTheRanking ==
  ~overlapped /\ rose = {} /\ ~sank =>
    LET ranked == [i \in DOMAIN Ranking |-> [user |-> Ranking[i], position |-> i]]
    IN  IF more THEN IsPrefix(rows, ranked) ELSE rows = ranked

(* Who was there from the beginning, and has not won meanwhile, is not     *)
(* skipped between two pages: nobody else's win or registration brings a   *)
(* place before the cursor, also when calls of loadMore overlap and their  *)
(* answers come in any order.  (A deletion does, and so does a lost win.)  *)
NobodyIsSkipped ==
  ~sank /\ ~more => \A u \in Live \ rose : \E i \in DOMAIN rows : rows[i].user = u
=============================================================================
