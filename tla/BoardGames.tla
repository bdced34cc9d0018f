----------------------------- MODULE BoardGames -----------------------------
(***************************************************************************)
(* The three board games whose hooks keep a board on each side: Gomoku,    *)
(* Connect Four and Reversi.  The guest has the black stones and begins;   *)
(* the host judges its move, makes its own and answers with that.  A       *)
(* player, be it heuristic, strategy or human, makes any legal move.       *)
(***************************************************************************)
EXTENDS Integers, FiniteSets, FiniteSetsExt

CONSTANTS
    Games,     \* which are played
    Rows, Cols,   \* per game
    Line,      \* the stones in a row that win: five, four
    Nothing    \* no message, no verdict, no stone

VARIABLES
    game,
    board,     \* per side: the stones that its hooks have
    message,   \* the move or the answer on the way
    verdict    \* the guest's idea of the outcome, "aborted" and "broken" too

match == <<game, board, message, verdict>>

Black == "guest"
White == "host"
Other(s) == IF s = Black THEN White ELSE Black
Cells(g) == (1..Rows[g]) \X (1..Cols[g])
Centre(g) == <<Rows[g] \div 2 + 1, Cols[g] \div 2 + 1>>
Dirs == {-1, 0, 1} \X {-1, 0, 1} \ {<<0, 0>>}
Step(c, d, k) == <<c[1] + k * d[1], c[2] + k * d[2]>>

(* The stones of s that follow on c in a direction; line_length             *)
Follow(b, c, d, s) ==
    Max({k \in 0..(Max({Rows[game], Cols[game]})) :
           \A i \in 1..k : Step(c, d, i) \in DOMAIN b /\ b[Step(c, d, i)] = s})
MutantWins(b, c, s) ==   \* only one way is looked at
    \E d \in {<<0, 1>>, <<1, 0>>, <<1, 1>>, <<1, -1>>} : 1 + Follow(b, c, d, s) >= Line
Wins(b, c, s) ==
    \E d \in {<<0, 1>>, <<1, 0>>, <<1, 1>>, <<1, -1>>} :
        1 + Follow(b, c, d, s) + Follow(b, c, <<-d[1], -d[2]>>, s) >= Line

(* flips_in_dir: a run of the other's stones with an own stone behind it    *)
Flips(b, c, s) ==
    UNION {LET k == Follow(b, c, d, Other(s)) IN
           IF Step(c, d, k + 1) \in DOMAIN b /\ b[Step(c, d, k + 1)] = s
           THEN {Step(c, d, i) : i \in 1..k} ELSE {} : d \in Dirs}

Empty(b) == {c \in DOMAIN b : b[c] = Nothing}
Dropped(b) == {c \in Empty(b) : \A e \in Empty(b) : e[2] = c[2] => e[1] <= c[1]}
Legal(b, s) ==
    CASE game = "gomoku" -> Empty(b)
      [] game = "connect4" -> Dropped(b)
      [] game = "reversi" -> {c \in Empty(b) : Flips(b, c, s) # {}}
Placed(b, c, s) ==
    LET turned == IF game = "reversi" THEN Flips(b, c, s) ELSE {} IN
    [x \in DOMAIN b |-> IF x = c \/ x \in turned THEN s ELSE b[x]]

Start(g) ==
    [c \in Cells(g) |->
        IF g # "reversi" THEN Nothing
        ELSE LET m == Rows[g] \div 2 IN
             IF c \in {<<m, m>>, <<m + 1, m + 1>>} THEN White
             ELSE IF c \in {<<m, m + 1>>, <<m + 1, m>>} THEN Black ELSE Nothing]
Init ==
    /\ game \in Games /\ board = [s \in {Black, White} |-> Start(game)]
    /\ message = Nothing /\ verdict = Nothing
-----------------------------------------------------------------------------
(* _is_terminal, _winner                                                    *)
Count(b, s) == Cardinality({c \in DOMAIN b : b[c] = s})
Outcome(b) ==
    IF Legal(b, Black) \union Legal(b, White) # {} THEN Nothing
    ELSE IF Count(b, Black) > Count(b, White) THEN Black
    ELSE IF Count(b, White) > Count(b, Black) THEN White ELSE "none"

(* What strategy, heuristic or decision may give: any legal move.  On a     *)
(* full board the heuristic of Gomoku falls back to the centre.             *)
Pick(b, s) == IF game = "gomoku" /\ Empty(b) = {} THEN {Centre(game)} ELSE Legal(b, s)

(* _guest_move, _guest_action                                               *)
GuestMoves ==
    /\ message = Nothing /\ verdict = Nothing
    /\ LET moves == Pick(board[Black], Black) IN
       \/ \E c \in moves :
            /\ board' = [board EXCEPT ![Black] = Placed(@, c, Black)]
            /\ message' = [from |-> Black, cell |-> c]
       \/ /\ moves = {}
          /\ message' = [from |-> Black, cell |-> Nothing] /\ UNCHANGED board
    /\ UNCHANGED <<game, verdict>>

Answer(b, c, over) ==
    /\ board' = [board EXCEPT ![White] = b]
    /\ message' = [from |-> White, cell |-> c, over |-> over]
    /\ UNCHANGED verdict
(* An illegal move: the answer is an error, and both sides end              *)
Aborts ==
    /\ message' = Nothing /\ verdict' = "aborted" /\ UNCHANGED board

(* proto_host_handle of the line games.  With no cell left for the host the *)
(* centre of Gomoku is taken again, and Connect Four finds no column        *)
HostAnswers ==
    /\ game # "reversi" /\ message # Nothing /\ message.from = Black
    /\ IF message.cell \notin Legal(board[White], Black) THEN Aborts
       ELSE LET b == Placed(board[White], message.cell, Black) IN
            IF Wins(b, message.cell, Black) THEN Answer(b, message.cell, Black)
            ELSE IF Pick(b, White) = {}
            THEN message' = Nothing /\ verdict' = "broken" /\ UNCHANGED board
            ELSE \E c \in Pick(b, White) :
                   LET after == Placed(b, c, White) IN
                   Answer(after, c, IF Wins(after, c, White) THEN White
                                    ELSE IF Empty(after) = {} THEN "none" ELSE Nothing)
    /\ UNCHANGED game

(* proto_host_handle of Reversi, with _host_reply                           *)
HostReplies ==
    /\ game = "reversi" /\ message # Nothing /\ message.from = Black
    /\ IF message.cell # Nothing /\ message.cell \notin Legal(board[White], Black) THEN Aborts
       ELSE LET b == IF message.cell = Nothing THEN board[White]
                     ELSE Placed(board[White], message.cell, Black) IN
            \/ \E c \in Legal(b, White) :
                 LET after == Placed(b, c, White) IN Answer(after, c, Outcome(after))
            \/ Legal(b, White) = {} /\ Answer(b, Nothing, Outcome(b))
    /\ UNCHANGED game

(* proto_guest_handle: the stone of the answer is a white one               *)
Shown(b) == IF message.cell = Nothing THEN b ELSE Placed(b, message.cell, White)
GuestHandles ==
    /\ message # Nothing /\ message.from = White
    /\ board' = [board EXCEPT ![Black] = Shown(@)]
    /\ verdict' = message.over /\ message' = Nothing
    /\ UNCHANGED game

Next == GuestMoves \/ HostAnswers \/ HostReplies \/ GuestHandles
Spec == Init /\ [][Next]_match
-----------------------------------------------------------------------------
(* Every variable keeps its type.                                           *)
TypeOK ==
    /\ game \in Games /\ verdict \in {Nothing, Black, White, "none", "aborted", "broken"}
    /\ \A s \in {Black, White} : \A c \in Cells(game) : board[s][c] \in {Black, White, Nothing}

(* A line of the board, wherever it is.                                     *)
HasLine(b, s) ==
    \E c \in DOMAIN b, d \in Dirs : \A i \in 0..(Line - 1) : Step(c, d, i) \in DOMAIN b /\ b[Step(c, d, i)] = s

(* The two sides see the same game: their boards are the same whenever the   *)
(* guest is to move, no honest move is turned down, and the outcome is the   *)
(* one that the whole board of the host shows.                               *)
OneGame ==
    message = Nothing =>
        /\ verdict # "aborted"
        /\ verdict \notin {"broken", Black} => board[Black] = board[White]
        /\ LET b == board[White] IN
           IF game = "reversi"
           THEN verdict = Nothing \/ (Legal(b, Black) \union Legal(b, White) = {} /\ verdict = Outcome(b))
           ELSE /\ verdict \in {Black, White} <=> \E s \in {Black, White} : HasLine(b, s)
                /\ verdict \in {Black, White} => HasLine(b, verdict)

(* The guest's board is the host's when the game is over, too.              *)
BoardsAgreeAtTheEnd == message = Nothing /\ verdict \notin {"broken", Nothing} => board[Black] = board[White]
=============================================================================
