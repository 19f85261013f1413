---------------------------- MODULE SerialLinkProofs ----------------------------
(***************************************************************************)
(* What frames that are lost, passed on and sent again cannot disturb, for *)
(* a chain of any number of keyboards: whose matrix the master shows, who  *)
(* is connected, and that the keys shown never go back.  And, below that,  *)
(* what bytes that are lost or changed cannot: a frame that is sent as a   *)
(* whole is received as it was, however long blocks and buffer are.        *)
(***************************************************************************)
EXTENDS SerialLink, ByteStuffer, SequenceTheorems, WellFoundedInduction, TLAPS

(* Matrix frames on the line from board b: frame f has passed all boards   *)
(* from its own to b, and frames of b itself are in the order they were    *)
(* sent.                                                                   *)
Counted(b, f) == f.hops >= 1 /\ f.of = b + f.hops - 1

Line(b) ==
  {l \in Seq(MatrixFrame) :
     /\ \A i \in 1 .. Len(l) : Counted(b, l[i])
     /\ \A i, j \in 1 .. Len(l) :
          i < j /\ l[i].hops = 1 /\ l[j].hops = 1 => l[i].version <= l[j].version}

(* A version board c - 1 has is not newer than any on the way from c.      *)
(* m is its matrix, l its mailbox.                                         *)
WasSent(m, l, v) == v <= m /\ (l # NOTHING => v <= l)

OnTheWay(m, l, line, v) ==
  /\ WasSent(m, l, v)
  /\ \A i \in 1 .. Len(line) : line[i].hops = 1 => v <= line[i].version

LinesAreCounted == \A b \in Board : up_line[b] \in Line(b)

SentInOrder ==
  \A c \in Board :
    /\ local_matrix[c] # NOTHING => local_matrix[c] <= matrix[c]
    /\ \A i \in 1 .. Len(up_line[c]) :
         up_line[c][i].hops = 1 => WasSent(matrix[c], local_matrix[c], up_line[c][i].version)

ReceivedInOrder ==
  \A c \in Board \ {0} :
    /\ remote_matrix[c - 1][1] # NOTHING =>
         OnTheWay(matrix[c], local_matrix[c], up_line[c], remote_matrix[c - 1][1].version)
    /\ shown[c - 1] # NOTHING =>
         OnTheWay(matrix[c], local_matrix[c], up_line[c], shown[c - 1].version)
    /\ shown[c - 1] # NOTHING /\ remote_matrix[c - 1][1] # NOTHING
         => shown[c - 1].version <= remote_matrix[c - 1][1].version

(* What comes down a line comes from a master above it.                    *)
MasterAbove ==
  /\ \A b \in Board : down_line[b] # <<>> => \E m \in Board : m <= b /\ is_master[m]
  /\ \A b \in Board : remote_connected[b] # NOTHING =>
       \E m \in Board : m < b /\ is_master[m]

LinkInv ==
  /\ LinkTypeOK /\ LinesAreCounted /\ HopsTellTheSlave /\ SentInOrder
  /\ ReceivedInOrder /\ MasterAbove /\ ConnectedToMaster

-----------------------------------------------------------------------------
(* Lines                                                                   *)

(* The boards are 0 .. LAST, and the first slave has a mailbox.            *)
LEMMA BoardsAreIntegers ==
  /\ Board \subseteq Nat /\ 0 \in Board /\ LAST \in Nat
  /\ \A b \in Board : /\ b > 0 => b - 1 \in Board
                      /\ b < LAST => b + 1 \in Board
                      /\ b <= LAST /\ b <= NUM_SLAVES
  /\ NUM_SLAVES \in Nat /\ 1 \in Slave
  BY SerialLinkAssumption DEF Board, Slave

(* Taking the first frame from a line, and what it is.                     *)
LEMMA LineTail ==
  ASSUME NEW b \in Board, NEW l \in Line(b), l # <<>>
  PROVE  /\ Tail(l) \in Line(b)
         /\ Head(l) \in MatrixFrame /\ Counted(b, Head(l))
         /\ \A i \in 1 .. Len(Tail(l)) : \E j \in 1 .. Len(l) : Tail(l)[i] = l[j]
         /\ Head(l) = l[1] /\ 1 \in 1 .. Len(l)
         /\ \A i \in 1 .. Len(Tail(l)) :
              Head(l).hops = 1 /\ Tail(l)[i].hops = 1
                => Head(l).version <= Tail(l)[i].version
<1>1. /\ l \in Seq(MatrixFrame) /\ Len(l) \in Nat /\ Len(l) > 0
      /\ Tail(l) \in Seq(MatrixFrame) /\ Len(Tail(l)) = Len(l) - 1
      /\ \A i \in 1 .. Len(Tail(l)) : i + 1 \in 1 .. Len(l) /\ Tail(l)[i] = l[i + 1]
      /\ Head(l) = l[1] /\ 1 \in 1 .. Len(l) /\ l[1] \in MatrixFrame
  BY DEF Line
<1>2. /\ \A i \in 1 .. Len(l) : Counted(b, l[i])
      /\ \A i, j \in 1 .. Len(l) :
           i < j /\ l[i].hops = 1 /\ l[j].hops = 1 => l[i].version <= l[j].version
  BY DEF Line
<1>3. \A i \in 1 .. Len(Tail(l)) : Counted(b, Tail(l)[i])
  BY <1>1, <1>2
<1>4. ASSUME NEW i \in 1 .. Len(Tail(l)), NEW j \in 1 .. Len(Tail(l)), i < j,
             Tail(l)[i].hops = 1, Tail(l)[j].hops = 1
      PROVE  Tail(l)[i].version <= Tail(l)[j].version
  <2>1. i + 1 \in 1 .. Len(l) /\ j + 1 \in 1 .. Len(l) /\ i + 1 < j + 1
    BY <1>1, <1>4
  <2> QED
    BY <1>1, <1>2, <1>4, <2>1
<1>5. Tail(l) \in Line(b)
  BY <1>1, <1>3, <1>4 DEF Line
<1>6. ASSUME NEW i \in 1 .. Len(Tail(l)), Head(l).hops = 1, Tail(l)[i].hops = 1
      PROVE  Head(l).version <= Tail(l)[i].version
  <2>1. i + 1 \in 1 .. Len(l) /\ 1 < i + 1
    BY <1>1
  <2> QED
    BY <1>1, <1>2, <1>6, <2>1
<1> QED
  BY <1>1, <1>2, <1>5, <1>6

(* Sending a frame that is counted, and not older than those it follows.   *)
LEMMA LineAppend ==
  ASSUME NEW b \in Board, NEW l \in Line(b), NEW f \in MatrixFrame, Counted(b, f),
         \A i \in 1 .. Len(l) : f.hops = 1 /\ l[i].hops = 1 => l[i].version <= f.version
  PROVE  /\ Append(l, f) \in Line(b)
         /\ \A i \in 1 .. Len(Append(l, f)) :
              Append(l, f)[i] = f \/ \E j \in 1 .. Len(l) : Append(l, f)[i] = l[j]
<1> DEFINE m == Append(l, f)
<1>1. /\ l \in Seq(MatrixFrame) /\ Len(l) \in Nat
      /\ \A i \in 1 .. Len(l) : Counted(b, l[i])
      /\ \A i, j \in 1 .. Len(l) :
           i < j /\ l[i].hops = 1 /\ l[j].hops = 1 => l[i].version <= l[j].version
  BY DEF Line
<1>2. /\ m \in Seq(MatrixFrame) /\ Len(m) = Len(l) + 1
      /\ \A i \in 1 .. Len(m) :
           IF i \in 1 .. Len(l) THEN m[i] = l[i] ELSE i = Len(l) + 1 /\ m[i] = f
  BY <1>1
<1> HIDE DEF m
<1>3. \A i \in 1 .. Len(m) : Counted(b, m[i])
  BY <1>1, <1>2
<1>4. ASSUME NEW i \in 1 .. Len(m), NEW j \in 1 .. Len(m), i < j,
             m[i].hops = 1, m[j].hops = 1
      PROVE  m[i].version <= m[j].version
  <2>1. i \in 1 .. Len(l)
    BY <1>1, <1>2, <1>4
  <2>2. CASE j \in 1 .. Len(l)
    BY <1>1, <1>2, <1>4, <2>1, <2>2
  <2>3. CASE j \notin 1 .. Len(l)
    BY <1>1, <1>2, <1>4, <2>1, <2>3
  <2> QED
    BY <2>2, <2>3
<1>5. m \in Line(b)
  BY <1>2, <1>3, <1>4 DEF Line
<1> QED
  BY <1>2, <1>5 DEF m

(* SendUp, for all the lines.                                              *)
LEMMA SendUpLines ==
  ASSUME NEW b \in Board, NEW f \in MatrixFrame, Counted(b, f),
         NEW lines \in [Board -> Seq(MatrixFrame)], \A c \in Board : lines[c] \in Line(c),
         \A i \in 1 .. Len(lines[b]) :
           f.hops = 1 /\ lines[b][i].hops = 1 => lines[b][i].version <= f.version
  PROVE  /\ SendUp(b, f, lines) \in [Board -> Seq(MatrixFrame)]
         /\ \A c \in Board : SendUp(b, f, lines)[c] \in Line(c)
         /\ \A c \in Board \ {b} : SendUp(b, f, lines)[c] = lines[c]
         /\ \A i \in 1 .. Len(SendUp(b, f, lines)[b]) :
              \/ SendUp(b, f, lines)[b][i] = f
              \/ \E j \in 1 .. Len(lines[b]) : SendUp(b, f, lines)[b][i] = lines[b][j]
<1>1. CASE b = 0 \/ Len(lines[b]) = LINE_SIZE
  BY <1>1 DEF SendUp
<1>2. CASE ~(b = 0 \/ Len(lines[b]) = LINE_SIZE)
  <2>1. SendUp(b, f, lines) = [lines EXCEPT ![b] = Append(lines[b], f)]
    BY <1>2 DEF SendUp
  <2>2. lines[b] \in Line(b)
    OBVIOUS
  <2>3. /\ Append(lines[b], f) \in Line(b)
        /\ \A i \in 1 .. Len(Append(lines[b], f)) :
             \/ Append(lines[b], f)[i] = f
             \/ \E j \in 1 .. Len(lines[b]) : Append(lines[b], f)[i] = lines[b][j]
    BY <2>2, LineAppend
  <2>4. Append(lines[b], f) \in Seq(MatrixFrame)
    BY <2>3 DEF Line
  <2> HIDE DEF Line
  <2> QED
    BY <2>1, <2>3, <2>4
<1> QED
  BY <1>1, <1>2

(* UpLinesPassedOn takes a frame and may add one that has gone further.    *)
LEMMA PassedOnLines ==
  ASSUME LinkTypeOK, LinesAreCounted, NEW b \in Board, b < LAST, up_line[b + 1] # <<>>
  PROVE  /\ UpLinesPassedOn(b) \in [Board -> Seq(MatrixFrame)]
         /\ \A c \in Board : UpLinesPassedOn(b)[c] \in Line(c)
         /\ \A c \in Board : \A i \in 1 .. Len(UpLinesPassedOn(b)[c]) :
              \/ UpLinesPassedOn(b)[c][i].hops # 1
              \/ \E j \in 1 .. Len(up_line[c]) : UpLinesPassedOn(b)[c][i] = up_line[c][j]
         /\ UpLinesPassedOn(b)[b + 1] = Tail(up_line[b + 1])
<1> DEFINE f    == Head(up_line[b + 1])
           rest == [up_line EXCEPT ![b + 1] = Tail(up_line[b + 1])]
           g    == [f EXCEPT !.hops = f.hops + 1]
<1>1. b + 1 \in Board /\ b + 1 # b /\ b \in Nat
  BY BoardsAreIntegers
<1>2. /\ Tail(up_line[b + 1]) \in Line(b + 1)
      /\ f \in MatrixFrame /\ Counted(b + 1, f)
      /\ \A i \in 1 .. Len(Tail(up_line[b + 1])) :
           \E j \in 1 .. Len(up_line[b + 1]) : Tail(up_line[b + 1])[i] = up_line[b + 1][j]
  BY <1>1, LineTail DEF LinesAreCounted
<1>3. /\ rest \in [Board -> Seq(MatrixFrame)] /\ \A c \in Board : rest[c] \in Line(c)
      /\ rest[b + 1] = Tail(up_line[b + 1])
      /\ \A c \in Board : \A i \in 1 .. Len(rest[c]) :
           \E j \in 1 .. Len(up_line[c]) : rest[c][i] = up_line[c][j]
  <2>1. Tail(up_line[b + 1]) \in Seq(MatrixFrame)
    BY <1>2 DEF Line
  <2> QED
    BY <1>1, <1>2, <2>1 DEF LinkTypeOK, LinesAreCounted
<1>4. g \in MatrixFrame /\ Counted(b, g) /\ g.hops # 1
  <2>1. f.hops \in Nat /\ f.hops >= 1 /\ f.of = b + f.hops
    BY <1>1, <1>2 DEF MatrixFrame, Counted
  <2>2. /\ g \in MatrixFrame
        /\ g.hops = f.hops + 1 /\ g.of = f.of
    BY <1>2, <2>1 DEF MatrixFrame
  <2> QED
    BY <1>1, <2>1, <2>2 DEF Counted
<1>5. UpLinesPassedOn(b) = IF MasterNow(b) THEN rest ELSE SendUp(b, g, rest)
  BY DEF UpLinesPassedOn
<1> HIDE DEF g, rest, f
<1>6. /\ SendUp(b, g, rest) \in [Board -> Seq(MatrixFrame)]
      /\ \A c \in Board : SendUp(b, g, rest)[c] \in Line(c)
      /\ \A c \in Board \ {b} : SendUp(b, g, rest)[c] = rest[c]
      /\ \A i \in 1 .. Len(SendUp(b, g, rest)[b]) :
           \/ SendUp(b, g, rest)[b][i] = g
           \/ \E j \in 1 .. Len(rest[b]) : SendUp(b, g, rest)[b][i] = rest[b][j]
  BY <1>3, <1>4, SendUpLines
<1> DEFINE sent == SendUp(b, g, rest)
<1>7. \A c \in Board : \A i \in 1 .. Len(sent[c]) :
        \/ sent[c][i].hops # 1
        \/ \E j \in 1 .. Len(up_line[c]) : sent[c][i] = up_line[c][j]
  <2> SUFFICES ASSUME NEW c \in Board, NEW i \in 1 .. Len(sent[c])
               PROVE  \/ sent[c][i].hops # 1
                      \/ \E j \in 1 .. Len(up_line[c]) : sent[c][i] = up_line[c][j]
    OBVIOUS
  <2>1. CASE c = b
    BY <1>3, <1>4, <1>6, <2>1
  <2>2. CASE c # b
    BY <1>3, <1>6, <2>2
  <2> QED
    BY <2>1, <2>2
<1>8. sent[b + 1] = Tail(up_line[b + 1])
  BY <1>1, <1>3, <1>6
<1>9. CASE MasterNow(b)
  <2>1. UpLinesPassedOn(b) = rest
    BY <1>5, <1>9
  <2> QED
    BY <1>3, <2>1
<1>10. CASE ~MasterNow(b)
  <2>1. UpLinesPassedOn(b) = sent
    BY <1>5, <1>10
  <2>2. sent \in [Board -> Seq(MatrixFrame)] /\ \A c \in Board : sent[c] \in Line(c)
    BY <1>6
  <2> HIDE DEF sent
  <2> QED
    BY <1>7, <1>8, <2>1, <2>2
<1> QED
  BY <1>9, <1>10

-----------------------------------------------------------------------------
(* A round of serialThread                                                 *)

(* Where the frames on the lines come from after a round: they were there, *)
(* have been passed on, or are the board's own.                            *)
LEMMA RoundLines ==
  ASSUME LinkInv, NEW b \in Board, NEW from_up \in BOOLEAN, NEW from_down \in BOOLEAN,
         serialThread(b, from_up, from_down)
  PROVE  /\ up_line' \in [Board -> Seq(MatrixFrame)] /\ LinesAreCounted'
         /\ \A c \in Board : \A i \in 1 .. Len(up_line'[c]) :
              \/ up_line'[c][i].hops # 1
              \/ \E j \in 1 .. Len(up_line[c]) : up_line'[c][i] = up_line[c][j]
              \/ c = b /\ local_matrix[b] # NOTHING
                   /\ up_line'[c][i].version = local_matrix[b]
         /\ from_down => up_line'[b + 1] = Tail(up_line[b + 1])
<1> DEFINE up  == IF from_down THEN UpLinesPassedOn(b) ELSE up_line
           own == [hops |-> 1, of |-> b, version |-> local_matrix[b]]
<1>1. /\ up \in [Board -> Seq(MatrixFrame)] /\ \A c \in Board : up[c] \in Line(c)
      /\ \A c \in Board : \A i \in 1 .. Len(up[c]) :
           \/ up[c][i].hops # 1
           \/ \E j \in 1 .. Len(up_line[c]) : up[c][i] = up_line[c][j]
      /\ from_down => up[b + 1] = Tail(up_line[b + 1])
  <2>1. CASE from_down
    BY <2>1, PassedOnLines DEF LinkInv, serialThread
  <2>2. CASE ~from_down
    BY <2>2 DEF LinkInv, LinkTypeOK, LinesAreCounted
  <2> QED
    BY <2>1, <2>2
<1>2. up_line' = IF ~MasterNow(b) /\ local_matrix[b] # NOTHING THEN SendUp(b, own, up) ELSE up
  BY DEF serialThread
<1> HIDE DEF up
<1>3. CASE ~MasterNow(b) /\ local_matrix[b] # NOTHING
  <2>1. own \in MatrixFrame /\ Counted(b, own) /\ own.hops = 1
    BY <1>3, BoardsAreIntegers DEF MatrixFrame, Counted, LinkInv, LinkTypeOK
  <2>2. \A i \in 1 .. Len(up[b]) :
          own.hops = 1 /\ up[b][i].hops = 1 => up[b][i].version <= own.version
    <3> SUFFICES ASSUME NEW i \in 1 .. Len(up[b]), up[b][i].hops = 1
                 PROVE  up[b][i].version <= local_matrix[b]
      OBVIOUS
    <3>1. PICK j \in 1 .. Len(up_line[b]) : up[b][i] = up_line[b][j]
      BY <1>1
    <3> QED
      BY <1>3, <3>1 DEF LinkInv, SentInOrder, WasSent
  <2>3. /\ SendUp(b, own, up) \in [Board -> Seq(MatrixFrame)]
        /\ \A c \in Board : SendUp(b, own, up)[c] \in Line(c)
        /\ \A c \in Board \ {b} : SendUp(b, own, up)[c] = up[c]
        /\ \A i \in 1 .. Len(SendUp(b, own, up)[b]) :
             \/ SendUp(b, own, up)[b][i] = own
             \/ \E j \in 1 .. Len(up[b]) : SendUp(b, own, up)[b][i] = up[b][j]
    BY <1>1, <2>1, <2>2, SendUpLines
  <2>4. up_line' = SendUp(b, own, up)
    BY <1>2, <1>3
  <2>5. from_down => b + 1 \in Board \ {b}
    BY BoardsAreIntegers DEF serialThread
  <2>6. own.version = local_matrix[b]
    OBVIOUS
  <2> HIDE DEF own
  <2>7. ASSUME NEW c \in Board, NEW i \in 1 .. Len(up_line'[c])
        PROVE  \/ up_line'[c][i].hops # 1
               \/ \E j \in 1 .. Len(up_line[c]) : up_line'[c][i] = up_line[c][j]
               \/ c = b /\ up_line'[c][i].version = local_matrix[b]
    <3>1. \A j \in 1 .. Len(up[c]) :
            \/ up[c][j].hops # 1
            \/ \E k \in 1 .. Len(up_line[c]) : up[c][j] = up_line[c][k]
      BY <1>1
    <3>2. CASE c # b
      <4>1. up_line'[c] = up[c]
        BY <2>3, <2>4, <3>2
      <4> QED
        BY <3>1, <4>1
    <3>3. CASE c = b
      <4>1. \/ up_line'[c][i] = own
            \/ \E j \in 1 .. Len(up[c]) : up_line'[c][i] = up[c][j]
        BY <2>3, <2>4, <3>3
      <4> QED
        BY <2>6, <3>1, <3>3, <4>1
    <3> QED
      BY <3>2, <3>3
  <2> QED
    BY <1>1, <1>3, <2>3, <2>4, <2>5, <2>7 DEF LinesAreCounted
<1>4. CASE ~(~MasterNow(b) /\ local_matrix[b] # NOTHING)
  BY <1>1, <1>2, <1>4 DEF LinesAreCounted
<1> QED
  BY <1>3, <1>4

(* The mailboxes of the board: its own are empty, a remote one is filed.   *)
LEMMA RoundMailboxes ==
  ASSUME LinkInv, NEW b \in Board, NEW from_up \in BOOLEAN, NEW from_down \in BOOLEAN,
         serialThread(b, from_up, from_down)
  PROVE  /\ remote_matrix' \in [Board -> [Slave -> Matrix \cup {NOTHING}]]
         /\ \A c \in Board, s \in Slave : remote_matrix'[c][s] # NOTHING =>
              remote_matrix'[c][s].of = c + s
         /\ \A c \in Board : remote_matrix'[c][1] # remote_matrix[c][1] =>
              /\ c = b /\ from_down
              /\ Head(up_line[b + 1]).hops = 1
              /\ remote_matrix'[c][1].version = Head(up_line[b + 1]).version
<1>1. CASE from_down /\ MasterNow(b)
  <2> DEFINE f == Head(up_line[b + 1])
             m == [of |-> f.of, version |-> f.version]
  <2>1. b + 1 \in Board /\ b \in Nat /\ b < LAST /\ up_line[b + 1] # <<>>
    BY <1>1, BoardsAreIntegers DEF serialThread
  <2>2. f \in MatrixFrame /\ f.hops >= 1 /\ f.of = b + f.hops
    <3>1. up_line[b + 1] \in Line(b + 1)
      BY <2>1 DEF LinkInv, LinesAreCounted
    <3>2. f \in MatrixFrame /\ Counted(b + 1, f)
      BY <2>1, <3>1, LineTail
    <3> QED
      BY <2>1, <3>2 DEF Counted, MatrixFrame
  <2>3. f.hops \in Slave /\ m \in Matrix
    BY <2>1, <2>2, BoardsAreIntegers DEF MatrixFrame, Matrix, Slave
  <2>4. remote_matrix' = [remote_matrix EXCEPT ![b][f.hops] = m]
    BY <1>1 DEF serialThread, Filed
  <2>5. m.of = b + f.hops /\ m.version = f.version
    BY <2>2
  <2> HIDE DEF f, m
  <2>6. /\ remote_matrix' \in [Board -> [Slave -> Matrix \cup {NOTHING}]]
        /\ \A c \in Board, s \in Slave :
             remote_matrix'[c][s] = IF c = b /\ s = f.hops THEN m ELSE remote_matrix[c][s]
    BY <2>3, <2>4 DEF LinkInv, LinkTypeOK
  <2>7. \A c \in Board, s \in Slave : remote_matrix'[c][s] # NOTHING =>
          remote_matrix'[c][s].of = c + s
    BY <2>5, <2>6 DEF LinkInv, HopsTellTheSlave
  <2>8. \A c \in Board : remote_matrix'[c][1] # remote_matrix[c][1] =>
          c = b /\ f.hops = 1 /\ remote_matrix'[c][1].version = f.version
    BY <2>5, <2>6, BoardsAreIntegers
  <2> QED
    BY <1>1, <2>6, <2>7, <2>8 DEF f
<1>2. CASE ~(from_down /\ MasterNow(b))
  <2>1. remote_matrix' = remote_matrix
    BY <1>2 DEF serialThread, Filed
  <2> QED
    BY <2>1 DEF LinkInv, LinkTypeOK, HopsTellTheSlave
<1> QED
  BY <1>1, <1>2

(* No version overtakes another: a board's own frame carries what was left *)
(* in its mailbox, which is newer than all on the line, and what is filed  *)
(* was the oldest on the line.                                             *)
LEMMA RoundInOrder ==
  ASSUME LinkInv, NEW b \in Board, NEW from_up \in BOOLEAN, NEW from_down \in BOOLEAN,
         serialThread(b, from_up, from_down)
  PROVE  SentInOrder' /\ ReceivedInOrder'
<1>0. /\ matrix' = matrix /\ shown' = shown
      /\ local_matrix' = [local_matrix EXCEPT ![b] = NOTHING]
      /\ local_matrix \in [Board -> Version \cup {NOTHING}]
      /\ matrix \in [Board -> Version]
      /\ shown \in [Board -> Matrix \cup {NOTHING}]
      /\ remote_matrix \in [Board -> [Slave -> Matrix \cup {NOTHING}]]
      /\ SentInOrder /\ ReceivedInOrder
  BY DEF serialThread, LinkInv, LinkTypeOK
<1>1. /\ \A c \in Board : \A i \in 1 .. Len(up_line'[c]) :
           \/ up_line'[c][i].hops # 1
           \/ \E j \in 1 .. Len(up_line[c]) : up_line'[c][i] = up_line[c][j]
           \/ c = b /\ local_matrix[b] # NOTHING /\ up_line'[c][i].version = local_matrix[b]
      /\ from_down => up_line'[b + 1] = Tail(up_line[b + 1])
  BY RoundLines
<1>2. \A c \in Board : remote_matrix'[c][1] # remote_matrix[c][1] =>
        /\ c = b /\ from_down /\ Head(up_line[b + 1]).hops = 1
        /\ remote_matrix'[c][1].version = Head(up_line[b + 1]).version
  BY RoundMailboxes
<1>3. \A c \in Board : \A v : WasSent(matrix[c], local_matrix[c], v)
        => WasSent(matrix'[c], local_matrix'[c], v)
  BY <1>0 DEF WasSent
<1>4. SentInOrder'
  <2> SUFFICES ASSUME NEW c \in Board
               PROVE  /\ local_matrix'[c] # NOTHING => local_matrix'[c] <= matrix'[c]
                      /\ \A i \in 1 .. Len(up_line'[c]) :
                           up_line'[c][i].hops = 1 =>
                             WasSent(matrix'[c], local_matrix'[c], up_line'[c][i].version)
    BY DEF SentInOrder
  <2>1. local_matrix'[c] # NOTHING => local_matrix'[c] <= matrix'[c]
    BY <1>0 DEF SentInOrder
  <2>2. ASSUME NEW i \in 1 .. Len(up_line'[c]), up_line'[c][i].hops = 1
        PROVE  WasSent(matrix'[c], local_matrix'[c], up_line'[c][i].version)
    <3>1. CASE \E j \in 1 .. Len(up_line[c]) : up_line'[c][i] = up_line[c][j]
      BY <1>0, <1>3, <2>2, <3>1 DEF SentInOrder
    <3>2. CASE c = b /\ local_matrix[b] # NOTHING /\ up_line'[c][i].version = local_matrix[b]
      BY <1>0, <3>2 DEF SentInOrder, WasSent
    <3> QED
      BY <1>1, <2>2, <3>1, <3>2
  <2> QED
    BY <2>1, <2>2
<1>5. ASSUME NEW c \in Board, NEW v, OnTheWay(matrix[c], local_matrix[c], up_line[c], v)
      PROVE  OnTheWay(matrix'[c], local_matrix'[c], up_line'[c], v)
  <2>1. ASSUME NEW i \in 1 .. Len(up_line'[c]), up_line'[c][i].hops = 1
        PROVE  v <= up_line'[c][i].version
    <3>1. CASE \E j \in 1 .. Len(up_line[c]) : up_line'[c][i] = up_line[c][j]
      BY <1>5, <2>1, <3>1 DEF OnTheWay
    <3>2. CASE c = b /\ local_matrix[b] # NOTHING /\ up_line'[c][i].version = local_matrix[b]
      BY <1>5, <3>2 DEF OnTheWay, WasSent
    <3> QED
      BY <1>1, <2>1, <3>1, <3>2
  <2> QED
    BY <1>3, <1>5, <2>1 DEF OnTheWay
<1>6. ReceivedInOrder'
  <2> SUFFICES ASSUME NEW c \in Board \ {0}
               PROVE  /\ remote_matrix'[c - 1][1] # NOTHING =>
                           OnTheWay(matrix'[c], local_matrix'[c], up_line'[c],
                                    remote_matrix'[c - 1][1].version)
                      /\ shown'[c - 1] # NOTHING =>
                           OnTheWay(matrix'[c], local_matrix'[c], up_line'[c],
                                    shown'[c - 1].version)
                      /\ shown'[c - 1] # NOTHING /\ remote_matrix'[c - 1][1] # NOTHING
                           => shown'[c - 1].version <= remote_matrix'[c - 1][1].version
    BY DEF ReceivedInOrder
  <2>0. c - 1 \in Board /\ c \in Board /\ c \in Nat
    BY BoardsAreIntegers
  <2>1. shown'[c - 1] # NOTHING =>
          OnTheWay(matrix'[c], local_matrix'[c], up_line'[c], shown'[c - 1].version)
    BY <1>0, <1>5, <2>0 DEF ReceivedInOrder
  <2>2. CASE remote_matrix'[c - 1][1] = remote_matrix[c - 1][1]
    BY <1>0, <1>5, <2>0, <2>1, <2>2 DEF ReceivedInOrder
  <2>3. CASE remote_matrix'[c - 1][1] # remote_matrix[c - 1][1]
    <3> DEFINE f == Head(up_line[c])
    <3>1. /\ c = b + 1 /\ from_down /\ f.hops = 1
          /\ remote_matrix'[c - 1][1].version = f.version
      BY <1>2, <2>0, <2>3
    <3>2. up_line[c] # <<>> /\ up_line[c] \in Line(c)
      BY <2>0, <3>1 DEF serialThread, LinkInv, LinesAreCounted
    <3>3. /\ f = up_line[c][1] /\ 1 \in 1 .. Len(up_line[c])
          /\ \A i \in 1 .. Len(Tail(up_line[c])) :
               f.hops = 1 /\ Tail(up_line[c])[i].hops = 1
                 => f.version <= Tail(up_line[c])[i].version
      BY <2>0, <3>2, LineTail
    <3>4. up_line'[c] = Tail(up_line[c])
      BY <1>1, <3>1
    <3> HIDE DEF f
    <3>5. WasSent(matrix'[c], local_matrix'[c], f.version)
      BY <1>0, <1>3, <2>0, <3>1, <3>3 DEF SentInOrder
    <3>6. OnTheWay(matrix'[c], local_matrix'[c], up_line'[c], f.version)
      BY <3>1, <3>3, <3>4, <3>5 DEF OnTheWay
    <3>7. shown[c - 1] # NOTHING => shown[c - 1].version <= f.version
      BY <1>0, <3>1, <3>3 DEF ReceivedInOrder, OnTheWay
    <3> QED
      BY <1>0, <2>1, <3>1, <3>6, <3>7
  <2> QED
    BY <2>2, <2>3
<1> QED
  BY <1>4, <1>6

(* What is sent down comes from a master, or from above.                   *)
LEMMA RoundMasters ==
  ASSUME LinkInv, NEW b \in Board, NEW from_up \in BOOLEAN, NEW from_down \in BOOLEAN,
         serialThread(b, from_up, from_down)
  PROVE  /\ down_line' \in [Board -> Seq(Nat)] /\ MasterAbove' /\ ConnectedToMaster'
<1>0. /\ is_master' = [is_master EXCEPT ![b] = MasterNow(b)]
      /\ is_master \in [Board -> BOOLEAN] /\ down_line \in [Board -> Seq(Nat)]
      /\ from_up => b - 1 \in Board /\ b \in Nat /\ down_line[b - 1] # <<>>
      /\ MasterAbove /\ ConnectedToMaster
  BY BoardsAreIntegers DEF serialThread, LinkInv, LinkTypeOK
<1>1. \A m \in Board : is_master[m] => is_master'[m]
  BY <1>0 DEF MasterNow
<1>2. MasterNow(b) => is_master'[b]
  BY <1>0
<1> DEFINE down == IF from_up THEN DownLinesPassedOn(b) ELSE down_line
<1>3. from_up => \E m \in Board : m < b /\ is_master[m]
  <2> SUFFICES ASSUME from_up PROVE \E m \in Board : m < b /\ is_master[m]
    OBVIOUS
  <2>1. PICK m \in Board : m <= b - 1 /\ is_master[m]
    BY <1>0 DEF MasterAbove
  <2> QED
    BY <1>0, <2>1, BoardsAreIntegers
<1>4. /\ down \in [Board -> Seq(Nat)]
      /\ \A c \in Board : down[c] # <<>> =>
           down_line[c] # <<>> \/ (c = b /\ from_up)
  <2>1. CASE from_up
    <3> DEFINE rest == [down_line EXCEPT ![b - 1] = Tail(@)]
               dest == Pred(Head(down_line[b - 1]))
    <3>1. /\ rest \in [Board -> Seq(Nat)] /\ dest \in Nat
          /\ \A c \in Board : rest[c] # <<>> => down_line[c] # <<>>
      BY <1>0, <2>1 DEF Pred
    <3>2. down = IF MasterNow(b) THEN rest ELSE SendDown(b, dest, rest)
      BY <2>1 DEF DownLinesPassedOn
    <3> HIDE DEF rest, dest, down
    <3>3. /\ SendDown(b, dest, rest) \in [Board -> Seq(Nat)]
          /\ \A c \in Board \ {b} : SendDown(b, dest, rest)[c] = rest[c]
      BY <3>1 DEF SendDown
    <3> QED
      BY <2>1, <3>1, <3>2, <3>3
  <2>2. CASE ~from_up
    BY <1>0, <2>2
  <2> QED
    BY <2>1, <2>2
<1>5. down_line' = IF MasterNow(b) /\ local_connected[b] # NOTHING
                   THEN SendDown(b, NUM_SLAVES, down) ELSE down
  BY DEF serialThread
<1> HIDE DEF down
<1>6. /\ down_line' \in [Board -> Seq(Nat)]
      /\ \A c \in Board : down_line'[c] # <<>> =>
           down_line[c] # <<>> \/ (c = b /\ (from_up \/ MasterNow(b)))
  <2>1. /\ SendDown(b, NUM_SLAVES, down) \in [Board -> Seq(Nat)]
        /\ \A c \in Board \ {b} : SendDown(b, NUM_SLAVES, down)[c] = down[c]
    BY <1>4, BoardsAreIntegers DEF SendDown
  <2> QED
    BY <1>4, <1>5, <2>1
<1>7. ASSUME NEW c \in Board, down_line'[c] # <<>>
      PROVE  \E m \in Board : m <= c /\ is_master'[m]
  <2>1. CASE down_line[c] # <<>>
    BY <1>0, <1>1, <2>1 DEF MasterAbove
  <2>2. CASE c = b /\ from_up
    <3>1. PICK m \in Board : m < b /\ is_master[m]
      BY <1>3, <2>2
    <3> QED
      BY <1>1, <2>2, <3>1, BoardsAreIntegers
  <2>3. CASE c = b /\ MasterNow(b)
    BY <1>2, <2>3, BoardsAreIntegers
  <2> QED
    BY <1>6, <1>7, <2>1, <2>2, <2>3
<1>8. ASSUME NEW c \in Board, remote_connected'[c] # NOTHING
      PROVE  \E m \in Board : m < c /\ is_master'[m]
  <2>1. remote_connected[c] # NOTHING \/ (c = b /\ from_up)
    BY <1>8 DEF serialThread, LinkInv, LinkTypeOK
  <2> QED
    BY <1>0, <1>1, <1>3, <2>1 DEF MasterAbove
<1>9. ConnectedToMaster'
  BY <1>0, <1>1 DEF ConnectedToMaster, serialThread
<1> QED
  BY <1>6, <1>7, <1>8, <1>9 DEF MasterAbove

(* A round keeps the invariant.                                            *)
LEMMA RoundInv ==
  ASSUME LinkInv, NEW b \in Board, NEW from_up \in BOOLEAN, NEW from_down \in BOOLEAN,
         serialThread(b, from_up, from_down)
  PROVE  LinkInv'
<1>1. /\ up_line' \in [Board -> Seq(MatrixFrame)] /\ LinesAreCounted'
      /\ remote_matrix' \in [Board -> [Slave -> Matrix \cup {NOTHING}]]
      /\ \A c \in Board, s \in Slave : remote_matrix'[c][s] # NOTHING =>
           remote_matrix'[c][s].of = c + s
      /\ down_line' \in [Board -> Seq(Nat)]
      /\ SentInOrder' /\ ReceivedInOrder' /\ MasterAbove' /\ ConnectedToMaster'
  BY RoundLines, RoundMailboxes, RoundInOrder, RoundMasters
<1>2. LinkTypeOK'
  BY <1>1 DEF serialThread, LinkInv, LinkTypeOK, MasterNow
<1>3. HopsTellTheSlave'
  <2>1. \A c \in Board : \A i \in 1 .. Len(up_line'[c]) :
          up_line'[c][i].of = c + up_line'[c][i].hops - 1
    BY <1>1 DEF LinesAreCounted, Line, Counted
  <2> QED
    BY <1>1, <2>1 DEF serialThread, LinkInv, HopsTellTheSlave
<1> QED
  BY <1>1, <1>2, <1>3 DEF LinkInv

-----------------------------------------------------------------------------
(* The main loop                                                           *)

(* An update sends the newest version and shows one that was filed.        *)
LEMMA UpdateInv ==
  ASSUME LinkInv, NEW b \in Board, NEW resend \in BOOLEAN, serial_link_update(b, resend)
  PROVE  LinkInv'
<1>0. /\ UNCHANGED <<usb_active, is_master, matrix, up_line, down_line>>
      /\ \/ /\ local_matrix' = [local_matrix EXCEPT ![b] = matrix[b]]
            /\ last_matrix' = [last_matrix EXCEPT ![b] = matrix[b]]
            /\ local_connected' = [local_connected EXCEPT ![b] = TRUE]
         \/ UNCHANGED <<last_matrix, local_matrix, local_connected>>
      /\ shown' = [shown EXCEPT ![b] =
                      IF remote_matrix[b][1] # NOTHING THEN remote_matrix[b][1] ELSE shown[b]]
      /\ remote_matrix' = [remote_matrix EXCEPT ![b][1] = NOTHING]
      /\ remote_connected' = [remote_connected EXCEPT ![b] = NOTHING]
      /\ serial_link_connected' = [serial_link_connected EXCEPT ![b] =
                                      serial_link_connected[b] \/ remote_connected[b] # NOTHING]
      /\ LinkTypeOK /\ 1 \in Slave
  BY BoardsAreIntegers DEF serial_link_update, LinkInv
<1>1. LinkTypeOK'
  <2>1. /\ last_matrix' \in [Board -> Version]
        /\ local_matrix' \in [Board -> Version \cup {NOTHING}]
        /\ local_connected' \in [Board -> {TRUE, NOTHING}]
    BY <1>0 DEF LinkTypeOK
  <2>2. /\ remote_matrix' \in [Board -> [Slave -> Matrix \cup {NOTHING}]]
        /\ remote_matrix[b][1] \in Matrix \cup {NOTHING}
    BY <1>0 DEF LinkTypeOK
  <2>3. shown' \in [Board -> Matrix \cup {NOTHING}]
    BY <1>0, <2>2 DEF LinkTypeOK
  <2>4. /\ remote_connected' \in [Board -> {TRUE, NOTHING}]
        /\ serial_link_connected' \in [Board -> BOOLEAN]
    BY <1>0 DEF LinkTypeOK
  <2> QED
    BY <1>0, <2>1, <2>2, <2>3, <2>4 DEF LinkTypeOK
<1>2. /\ LinesAreCounted' /\ MasterAbove' /\ ConnectedToMaster'
  BY <1>0 DEF LinkInv, LinesAreCounted, MasterAbove, ConnectedToMaster, LinkTypeOK
<1>3. \A c \in Board : \A s \in Slave :
        remote_matrix'[c][s] = IF c = b /\ s = 1 THEN NOTHING ELSE remote_matrix[c][s]
  BY <1>0 DEF LinkTypeOK
<1>4. \A c \in Board :
        shown'[c] = IF c = b /\ remote_matrix[c][1] # NOTHING
                    THEN remote_matrix[c][1] ELSE shown[c]
  BY <1>0 DEF LinkTypeOK
<1>5. HopsTellTheSlave'
  BY <1>0, <1>3, <1>4 DEF LinkInv, HopsTellTheSlave
<1>6. \A c \in Board : local_matrix'[c] # local_matrix[c] =>
        local_matrix'[c] = matrix[c] /\ matrix[c] \in Nat
  BY <1>0 DEF LinkTypeOK, Version
<1>7. \A c \in Board : \A v : WasSent(matrix[c], local_matrix[c], v)
        => WasSent(matrix'[c], local_matrix'[c], v)
  BY <1>0, <1>6 DEF WasSent
<1>8. SentInOrder'
  <2> SUFFICES ASSUME NEW c \in Board
               PROVE  /\ local_matrix'[c] # NOTHING => local_matrix'[c] <= matrix'[c]
                      /\ \A i \in 1 .. Len(up_line'[c]) : up_line'[c][i].hops = 1 =>
                           WasSent(matrix'[c], local_matrix'[c], up_line'[c][i].version)
    BY DEF SentInOrder
  <2>1. SentInOrder /\ matrix' = matrix /\ up_line' = up_line
    BY <1>0 DEF LinkInv
  <2>2. local_matrix'[c] # NOTHING => local_matrix'[c] <= matrix'[c]
    BY <1>6, <2>1 DEF SentInOrder
  <2> QED
    BY <1>7, <2>1, <2>2 DEF SentInOrder
<1>9. \A c \in Board : \A v : OnTheWay(matrix[c], local_matrix[c], up_line[c], v)
        => OnTheWay(matrix'[c], local_matrix'[c], up_line'[c], v)
  BY <1>0, <1>7 DEF OnTheWay
<1>10. ReceivedInOrder'
  <2> SUFFICES ASSUME NEW c \in Board \ {0}
               PROVE  /\ remote_matrix'[c - 1][1] # NOTHING =>
                           OnTheWay(matrix'[c], local_matrix'[c], up_line'[c],
                                    remote_matrix'[c - 1][1].version)
                      /\ shown'[c - 1] # NOTHING =>
                           OnTheWay(matrix'[c], local_matrix'[c], up_line'[c],
                                    shown'[c - 1].version)
                      /\ shown'[c - 1] # NOTHING /\ remote_matrix'[c - 1][1] # NOTHING
                           => shown'[c - 1].version <= remote_matrix'[c - 1][1].version
    BY DEF ReceivedInOrder
  <2>1. c - 1 \in Board /\ c \in Board
    BY BoardsAreIntegers
  <2>2. ReceivedInOrder
    BY DEF LinkInv
  <2>3. /\ remote_matrix'[c - 1][1] = IF c - 1 = b THEN NOTHING ELSE remote_matrix[c - 1][1]
        /\ shown'[c - 1] = IF c - 1 = b /\ remote_matrix[c - 1][1] # NOTHING
                           THEN remote_matrix[c - 1][1] ELSE shown[c - 1]
    BY <1>0, <1>3, <1>4, <2>1
  <2> QED
    BY <1>9, <2>1, <2>2, <2>3 DEF ReceivedInOrder
<1> QED
  BY <1>1, <1>2, <1>5, <1>8, <1>10 DEF LinkInv

-----------------------------------------------------------------------------
(* The environment                                                         *)

(* A matrix that changes is newer than all versions of it.                 *)
LEMMA MatrixChangeInv ==
  ASSUME LinkInv, NEW b \in Board, MatrixChange(b) PROVE LinkInv'
<1>0. /\ UNCHANGED <<usb_active, is_master, last_matrix, local_matrix, local_connected,
                      remote_matrix, remote_connected, up_line, down_line,
                      serial_link_connected, shown>>
      /\ matrix' = [matrix EXCEPT ![b] = matrix[b] + 1]
      /\ matrix[b] < MAX_VERSION /\ LinkTypeOK
  BY DEF MatrixChange, LinkInv
<1>1. LinkTypeOK'
  <2>1. matrix[b] + 1 \in Version
    BY <1>0, SerialLinkAssumption DEF LinkTypeOK, Version
  <2> QED
    BY <1>0, <2>1 DEF LinkTypeOK
<1>2. /\ LinesAreCounted' /\ MasterAbove' /\ ConnectedToMaster' /\ HopsTellTheSlave'
  BY <1>0 DEF LinkInv, LinesAreCounted, MasterAbove, ConnectedToMaster, HopsTellTheSlave
<1>3. \A c \in Board : matrix[c] \in Int /\ matrix'[c] \in Int /\ matrix[c] <= matrix'[c]
  BY <1>0 DEF LinkTypeOK, Version
<1>4. \A c \in Board : \A v \in Int : WasSent(matrix[c], local_matrix[c], v)
        => WasSent(matrix'[c], local_matrix'[c], v)
  BY <1>0, <1>3 DEF WasSent
<1>5. /\ \A c \in Board : /\ local_matrix[c] # NOTHING => local_matrix[c] \in Int
                          /\ \A i \in 1 .. Len(up_line[c]) : up_line[c][i].version \in Int
                          /\ shown[c] # NOTHING => shown[c].version \in Int
                          /\ remote_matrix[c][1] # NOTHING =>
                               remote_matrix[c][1].version \in Int
  <2> SUFFICES ASSUME NEW c \in Board
               PROVE  /\ local_matrix[c] # NOTHING => local_matrix[c] \in Int
                      /\ \A i \in 1 .. Len(up_line[c]) : up_line[c][i].version \in Int
                      /\ shown[c] # NOTHING => shown[c].version \in Int
                      /\ remote_matrix[c][1] # NOTHING => remote_matrix[c][1].version \in Int
    OBVIOUS
  <2>1. /\ up_line[c] \in Seq(MatrixFrame) /\ shown[c] \in Matrix \cup {NOTHING}
        /\ remote_matrix[c][1] \in Matrix \cup {NOTHING}
        /\ local_matrix[c] \in Version \cup {NOTHING}
    BY <1>0, BoardsAreIntegers DEF LinkTypeOK
  <2>2. /\ Version \subseteq Int /\ \A m \in Matrix : m.version \in Int
        /\ \A f \in MatrixFrame : f.version \in Int
    BY DEF Matrix, MatrixFrame, Version
  <2>3. \A i \in 1 .. Len(up_line[c]) : up_line[c][i] \in MatrixFrame
    BY <2>1
  <2> QED
    BY <2>1, <2>2, <2>3
<1>6. SentInOrder'
  <2> SUFFICES ASSUME NEW c \in Board
               PROVE  /\ local_matrix'[c] # NOTHING => local_matrix'[c] <= matrix'[c]
                      /\ \A i \in 1 .. Len(up_line'[c]) : up_line'[c][i].hops = 1 =>
                           WasSent(matrix'[c], local_matrix'[c], up_line'[c][i].version)
    BY DEF SentInOrder
  <2>1. SentInOrder
    BY DEF LinkInv
  <2>2. local_matrix'[c] # NOTHING => local_matrix'[c] <= matrix'[c]
    BY <1>0, <1>3, <1>5, <2>1 DEF SentInOrder
  <2> QED
    BY <1>0, <1>4, <1>5, <2>1, <2>2 DEF SentInOrder
<1>7. \A c \in Board : \A v \in Int : OnTheWay(matrix[c], local_matrix[c], up_line[c], v)
        => OnTheWay(matrix'[c], local_matrix'[c], up_line'[c], v)
  BY <1>0, <1>4 DEF OnTheWay
<1>8. ReceivedInOrder'
  <2> SUFFICES ASSUME NEW c \in Board \ {0}
               PROVE  /\ remote_matrix[c - 1][1] # NOTHING =>
                           OnTheWay(matrix'[c], local_matrix'[c], up_line'[c],
                                    remote_matrix[c - 1][1].version)
                      /\ shown[c - 1] # NOTHING =>
                           OnTheWay(matrix'[c], local_matrix'[c], up_line'[c],
                                    shown[c - 1].version)
                      /\ shown[c - 1] # NOTHING /\ remote_matrix[c - 1][1] # NOTHING
                           => shown[c - 1].version <= remote_matrix[c - 1][1].version
    BY <1>0 DEF ReceivedInOrder
  <2>1. c - 1 \in Board /\ c \in Board
    BY BoardsAreIntegers
  <2>2. ReceivedInOrder
    BY DEF LinkInv
  <2> QED
    BY <1>5, <1>7, <2>1, <2>2 DEF ReceivedInOrder
<1> QED
  BY <1>1, <1>2, <1>6, <1>8 DEF LinkInv

(* What is left of a line is still in order.                               *)
LEMMA LoseFrameInv ==
  ASSUME LinkInv, NEW b \in Board, LoseFrame(b) PROVE LinkInv'
<1>0. /\ UNCHANGED <<usb_active, is_master, matrix, last_matrix, local_matrix,
                      local_connected, remote_matrix, remote_connected,
                      serial_link_connected, shown>>
      /\ LinkTypeOK /\ LinesAreCounted /\ SentInOrder /\ ReceivedInOrder
  BY DEF LoseFrame, LinkInv
<1>1. CASE up_line[b] # <<>> /\ up_line' = [up_line EXCEPT ![b] = Tail(up_line[b])]
           /\ down_line' = down_line
  <2>1. /\ Tail(up_line[b]) \in Line(b)
        /\ \A i \in 1 .. Len(Tail(up_line[b])) :
             \E j \in 1 .. Len(up_line[b]) : Tail(up_line[b])[i] = up_line[b][j]
    BY <1>0, <1>1, LineTail DEF LinesAreCounted
  <2>2. Tail(up_line[b]) \in Seq(MatrixFrame)
    BY <2>1 DEF Line
  <2>3. LinkTypeOK' /\ LinesAreCounted'
    BY <1>0, <1>1, <2>1, <2>2 DEF LinkTypeOK, LinesAreCounted
  <2>4. \A c \in Board : \A i \in 1 .. Len(up_line'[c]) :
          \E j \in 1 .. Len(up_line[c]) : up_line'[c][i] = up_line[c][j]
    BY <1>0, <1>1, <2>1 DEF LinkTypeOK
  <2>5. SentInOrder'
    <3> SUFFICES ASSUME NEW c \in Board, NEW i \in 1 .. Len(up_line'[c]),
                        up_line'[c][i].hops = 1
                 PROVE  WasSent(matrix[c], local_matrix[c], up_line'[c][i].version)
      BY <1>0 DEF SentInOrder
    <3>1. PICK j \in 1 .. Len(up_line[c]) : up_line'[c][i] = up_line[c][j]
      BY <2>4
    <3> QED
      BY <1>0, <3>1 DEF SentInOrder
  <2>6. ASSUME NEW c \in Board, NEW v, OnTheWay(matrix[c], local_matrix[c], up_line[c], v)
        PROVE  OnTheWay(matrix[c], local_matrix[c], up_line'[c], v)
    <3> SUFFICES ASSUME NEW i \in 1 .. Len(up_line'[c]), up_line'[c][i].hops = 1
                 PROVE  v <= up_line'[c][i].version
      BY <2>6 DEF OnTheWay
    <3>1. PICK j \in 1 .. Len(up_line[c]) : up_line'[c][i] = up_line[c][j]
      BY <2>4
    <3> QED
      BY <2>6, <3>1 DEF OnTheWay
  <2>7. ReceivedInOrder'
    BY <1>0, <2>6 DEF ReceivedInOrder
  <2>8. HopsTellTheSlave'
    <3>1. \A c \in Board : \A i \in 1 .. Len(up_line'[c]) :
            up_line'[c][i].of = c + up_line'[c][i].hops - 1
      BY <2>3 DEF LinesAreCounted, Line, Counted
    <3> QED
      BY <1>0, <3>1 DEF LinkInv, HopsTellTheSlave
  <2>9. MasterAbove' /\ ConnectedToMaster'
    BY <1>0, <1>1 DEF LinkInv, MasterAbove, ConnectedToMaster
  <2> QED
    BY <2>3, <2>5, <2>7, <2>8, <2>9 DEF LinkInv
<1>2. CASE down_line[b] # <<>> /\ down_line' = [down_line EXCEPT ![b] = Tail(down_line[b])]
           /\ up_line' = up_line
  <2>1. LinkTypeOK'
    <3>1. down_line' \in [Board -> Seq(Nat)]
      BY <1>0, <1>2 DEF LinkTypeOK
    <3> QED
      BY <1>0, <1>2, <3>1 DEF LinkTypeOK
  <2>2. MasterAbove'
    BY <1>0, <1>2 DEF LinkInv, LinkTypeOK, MasterAbove
  <2> QED
    BY <1>0, <1>2, <2>1, <2>2 DEF LinkInv, LinesAreCounted, SentInOrder, ReceivedInOrder,
                                   HopsTellTheSlave, ConnectedToMaster
<1> QED
  BY <1>1, <1>2 DEF LoseFrame

-----------------------------------------------------------------------------
(* The results                                                             *)

(* LinkInv is inductive.                                                   *)
LEMMA LinkInvInit == LinkInit => LinkInv
<1> SUFFICES ASSUME LinkInit PROVE LinkInv
  OBVIOUS
<1>1. LinkTypeOK
  BY SerialLinkAssumption DEF LinkInit, LinkTypeOK, Version
<1>2. LinesAreCounted /\ SentInOrder
  BY DEF LinkInit, LinesAreCounted, SentInOrder, Line
<1>3. HopsTellTheSlave /\ MasterAbove /\ ConnectedToMaster
  BY DEF LinkInit, HopsTellTheSlave, MasterAbove, ConnectedToMaster
<1>4. ReceivedInOrder
  BY BoardsAreIntegers DEF LinkInit, ReceivedInOrder
<1> QED
  BY <1>1, <1>2, <1>3, <1>4 DEF LinkInv

(* ... one step for each action.                                           *)
LEMMA LinkInvNext == LinkInv /\ [LinkNext]_link_vars => LinkInv'
<1> SUFFICES ASSUME LinkInv, [LinkNext]_link_vars PROVE LinkInv'
  OBVIOUS
<1>1. ASSUME NEW b \in Board, NEW active \in BOOLEAN, UsbChange(b, active) PROVE LinkInv'
  BY <1>1 DEF UsbChange, LinkInv, LinkTypeOK, LinesAreCounted, HopsTellTheSlave, SentInOrder,
              ReceivedInOrder, MasterAbove, ConnectedToMaster
<1>2. CASE UNCHANGED link_vars
  BY <1>2 DEF link_vars, LinkInv, LinkTypeOK, LinesAreCounted, HopsTellTheSlave, SentInOrder,
              ReceivedInOrder, MasterAbove, ConnectedToMaster
<1> QED
  BY <1>1, <1>2, RoundInv, UpdateInv, MatrixChangeInv, LoseFrameInv DEF LinkNext

(* Whatever a line loses and however often boards pass frames on, send     *)
(* them again or become masters, the master attributes a matrix to the     *)
(* board it is of, by counting only (route_incoming_frame,                 *)
(* transport_recv_frame).                                                  *)
THEOREM HopsAreRight == LinkSpec => []HopsTellTheSlave
<1>1. LinkInv => HopsTellTheSlave
  BY DEF LinkInv
<1> QED
  BY <1>1, LinkInvInit, LinkInvNext, PTL DEF LinkSpec

(* A board says it is connected only below a master (serialThread,         *)
(* serial_link_update).                                                    *)
THEOREM ConnectedIsBelowMaster == LinkSpec => []ConnectedToMaster
<1>1. LinkInv => ConnectedToMaster
  BY DEF LinkInv
<1> QED
  BY <1>1, LinkInvInit, LinkInvNext, PTL DEF LinkSpec

(* The keys of a slave never go back to an earlier state for its master:   *)
(* a frame is not overtaken, only lost (serial_link_update).               *)
THEOREM ShownOnlyGrows == LinkSpec => ShownNeverGoesBack
<1> DEFINE Grows == \A b \in Board : shown[b] # NOTHING =>
                      shown'[b] # NOTHING /\ shown'[b].version >= shown[b].version
<1>1. LinkInv /\ [LinkNext]_link_vars => [Grows]_link_vars
  <2> SUFFICES ASSUME LinkInv, LinkNext, NEW b \in Board, shown[b] # NOTHING
               PROVE  shown'[b] # NOTHING /\ shown'[b].version >= shown[b].version
    OBVIOUS
  <2>0. /\ shown \in [Board -> Matrix \cup {NOTHING}]
        /\ shown[b].version \in Int
    BY DEF LinkInv, LinkTypeOK, Matrix, Version
  <2>1. CASE shown' = shown
    BY <2>0, <2>1
  <2>2. ASSUME NEW c \in Board, NEW resend \in BOOLEAN, serial_link_update(c, resend)
        PROVE  shown'[b] # NOTHING /\ shown'[b].version >= shown[b].version
    <3>1. shown' = [shown EXCEPT ![c] =
                      IF remote_matrix[c][1] # NOTHING THEN remote_matrix[c][1] ELSE shown[c]]
      BY <2>2 DEF serial_link_update
    <3>2. CASE c = b /\ remote_matrix[b][1] # NOTHING
      <4>1. remote_matrix[b][1] \in Matrix /\ remote_matrix[b][1].of = b + 1
        BY <3>2, BoardsAreIntegers DEF LinkInv, LinkTypeOK, HopsTellTheSlave
      <4>2. b + 1 \in Board \ {0} /\ (b + 1) - 1 = b
        BY <4>1, BoardsAreIntegers DEF Matrix
      <4>3. shown[b].version <= remote_matrix[b][1].version
        BY <3>2, <4>2 DEF LinkInv, ReceivedInOrder
      <4>4. remote_matrix[b][1].version \in Int
        BY <4>1 DEF Matrix, Version
      <4> QED
        BY <2>0, <3>1, <3>2, <4>3, <4>4
    <3>3. CASE ~(c = b /\ remote_matrix[b][1] # NOTHING)
      BY <2>0, <3>1, <3>3
    <3> QED
      BY <3>2, <3>3
  <2> QED
    BY <2>1, <2>2 DEF LinkNext, serialThread, MatrixChange, UsbChange, LoseFrame
<1> QED
  BY <1>1, LinkInvInit, LinkInvNext, PTL DEF LinkSpec, ShownNeverGoesBack

-----------------------------------------------------------------------------
(* Part 2: the byte stuffer                                                *)

(* A set of numbers that is not empty has a least one.                     *)
LEMMA LeastNumber ==
  ASSUME NEW T \in SUBSET Nat, T # {}
  PROVE  \E x \in T : \A y \in T : x <= y
<1> DEFINE Less == {p \in Nat \X Nat : p[1] < p[2]}
<1>1. IsWellFoundedOn(Less, Nat)
  BY NatLessThanWellFounded DEF OpToRel
<1>2. PICK x \in T : \A y \in T : ~ (<<y, x>> \in Less)
  <2> HIDE DEF Less
  <2> QED
    BY <1>1, WFMin
<1>3. ASSUME NEW y \in T PROVE x <= y
  <2>1. <<y, x>> \in Nat \X Nat /\ ~ (<<y, x>> \in Less)
    BY <1>2
  <2>2. ~ (y < x)
    BY <2>1
  <2> QED
    BY <2>2
<1> QED
  BY <1>3

Start == [out |-> <<>>, block |-> <<>>]

StuffByte(s, b) == SplitZero(SplitFull(s), b)

(* The function FoldLeft takes the value of.                               *)
IsFold(it, f, D) ==
  it = [s \in SUBSET D |-> IF s = {} THEN Start ELSE StuffByte(it[s \ {Max(s)}], f[Max(s)])]

Fold(f) == CHOOSE it : IsFold(it, f, DOMAIN f)

(* What is sent, by the value FoldLeft has at the end of the frame.        *)
LEMMA StuffedIsFold ==
  ASSUME NEW f
  PROVE  Stuffed(f) = LET last == Fold(f)[DOMAIN f]
                      IN  last.out \o send_block(last.block) \o <<0>>
BY DEF Stuffed, FoldLeft, MapThenFoldSet, Fold, IsFold, Start, StuffByte

(* The greatest number of a set is in it.                                  *)
LEMMA GreatestOf ==
  ASSUME NEW n \in Nat, NEW s \in SUBSET (1 .. n), s # {}
  PROVE  Max(s) \in s /\ \A x \in s : x <= Max(s)
<1> DEFINE T == {n - x : x \in s}
<1>1. \A x \in s : x \in Nat /\ n - x \in Nat
  OBVIOUS
<1>2. T \in SUBSET Nat /\ T # {}
  BY <1>1
<1> HIDE DEF T
<1>3. PICK t \in T : \A y \in T : t <= y
  BY <1>2, LeastNumber
<1> USE DEF T
<1>4. PICK x \in s : t = n - x
  OBVIOUS
<1>5. ASSUME NEW y \in s PROVE y <= x
  <2>1. n - y \in T /\ n - x <= n - y
    BY <1>3, <1>4
  <2> QED
    BY <1>1, <2>1
<1> HIDE DEF T
<1>6. \E g \in s : \A y \in s : g >= y
  BY <1>1, <1>5
<1>7. Max(s) \in s /\ \A y \in s : Max(s) >= y
  BY <1>6 DEF Max
<1> QED
  BY <1>1, <1>7

(* FoldLeft has a value at every number of bytes: if not, take the least   *)
(* number it has none at.                                                  *)
LEMMA FoldExists ==
  ASSUME NEW f, NEW n \in Nat
  PROVE  \E it : IsFold(it, f, 1 .. n)
<1> DEFINE Fails == {k \in Nat : ~ \E it : IsFold(it, f, 1 .. k)}
<1> SUFFICES ASSUME Fails # {} PROVE FALSE
  OBVIOUS
<1>1. PICK k \in Fails : \A y \in Fails : k <= y
  <2> Fails \in SUBSET Nat
    OBVIOUS
  <2> HIDE DEF Fails
  <2> QED
    BY LeastNumber
<1>2. k \in Nat /\ ~ \E it : IsFold(it, f, 1 .. k)
  OBVIOUS
<1>3. CASE k = 0
  <2> DEFINE it == [s \in SUBSET (1 .. 0) |-> Start]
  <2>1. \A s \in SUBSET (1 .. 0) : s = {}
    OBVIOUS
  <2>2. it = [s \in SUBSET (1 .. 0) |->
                IF s = {} THEN Start ELSE StuffByte(it[s \ {Max(s)}], f[Max(s)])]
    BY <2>1
  <2> HIDE DEF it
  <2>3. IsFold(it, f, 1 .. 0)
    BY <2>2 DEF IsFold
  <2> QED
    BY <1>2, <1>3, <2>3
<1>4. CASE k # 0
  <2>1. k - 1 \in Nat /\ ~ (k <= k - 1)
    BY <1>2, <1>4
  <2>2. k - 1 \notin Fails
    BY <1>1, <2>1
  <2>3. PICK g : IsFold(g, f, 1 .. k - 1)
    BY <2>1, <2>2
  <2> HIDE DEF Fails
  <2> DEFINE h == [s \in SUBSET (1 .. k) |->
                     IF s = {} THEN Start ELSE StuffByte(g[s \ {Max(s)}], f[Max(s)])]
  <2>4. ASSUME NEW s \in SUBSET (1 .. k), s # {}
        PROVE  s \ {Max(s)} \in SUBSET (1 .. k - 1)
    <3> DEFINE top == Max(s)
    <3>1. top \in s /\ \A x \in s : x <= top
      BY <1>2, <2>4, GreatestOf
    <3> HIDE DEF top
    <3>2. ASSUME NEW x \in s \ {top} PROVE x \in 1 .. k - 1
      <4>1. x \in 1 .. k /\ top \in 1 .. k /\ x <= top /\ x # top
        BY <3>1
      <4> QED
        BY <1>2, <4>1
    <3> QED
      BY <3>2 DEF top
  <2>5. ASSUME NEW t \in SUBSET (1 .. k - 1)
        PROVE  g[t] = h[t]
    <3>1. g[t] = IF t = {} THEN Start ELSE StuffByte(g[t \ {Max(t)}], f[Max(t)])
      BY <2>3 DEF IsFold
    <3>2. t \in SUBSET (1 .. k)
      BY <1>2
    <3> QED
      BY <3>1, <3>2
  <2>6. h = [s \in SUBSET (1 .. k) |->
               IF s = {} THEN Start ELSE StuffByte(h[s \ {Max(s)}], f[Max(s)])]
    <3>1. \A s \in SUBSET (1 .. k) : s # {} => g[s \ {Max(s)}] = h[s \ {Max(s)}]
      BY <2>4, <2>5
    <3> HIDE DEF h
    <3>2. h = [s \in SUBSET (1 .. k) |->
                     IF s = {} THEN Start ELSE StuffByte(g[s \ {Max(s)}], f[Max(s)])]
      BY DEF h
    <3> QED
      BY <3>1, <3>2
  <2> HIDE DEF h
  <2>7. IsFold(h, f, 1 .. k)
    BY <2>6 DEF IsFold
  <2> QED
    BY <1>2, <2>7
<1> QED
  BY <1>3, <1>4

(* What the sender has made of the first k bytes of the frame f.           *)
After(f, k) == Fold(f)[1 .. k]

(* The sender goes through the frame byte by byte.                         *)
LEMMA AfterIs ==
  ASSUME NEW f \in Seq(Byte)
  PROVE  /\ After(f, 0) = Start
         /\ \A k \in 1 .. Len(f) : After(f, k) = StuffByte(After(f, k - 1), f[k])
         /\ Stuffed(f) = After(f, Len(f)).out \o send_block(After(f, Len(f)).block) \o <<0>>
<1> DEFINE n == Len(f)
<1>0. n \in Nat
  OBVIOUS
<1>1. DOMAIN f = 1 .. n
  OBVIOUS
<1> HIDE DEF n
<1>2. IsFold(Fold(f), f, 1 .. n)
  BY <1>0, <1>1, FoldExists DEF Fold
<1> DEFINE it == Fold(f)
<1>3. it = [s \in SUBSET (1 .. n) |-> IF s = {} THEN Start
                                      ELSE StuffByte(it[s \ {Max(s)}], f[Max(s)])]
  BY <1>2 DEF IsFold
<1> HIDE DEF it
<1>4. After(f, 0) = Start
  <2>1. 1 .. 0 = {} /\ {} \in SUBSET (1 .. n)
    OBVIOUS
  <2> QED
    BY <1>3, <2>1 DEF After, it
<1>5. ASSUME NEW k \in 1 .. n
      PROVE  After(f, k) = StuffByte(After(f, k - 1), f[k])
  <2>1. 1 .. k \in SUBSET (1 .. n) /\ 1 .. k # {} /\ k \in Nat
    <3>1. k \in Nat /\ k \in 1 .. k /\ \A x \in 1 .. k : x \in 1 .. n
      BY <1>0
    <3> QED
      BY <3>1
  <2>2. Max(1 .. k) = k
    <3>1. Max(1 .. k) \in 1 .. k /\ \A x \in 1 .. k : x <= Max(1 .. k)
      BY <2>1, GreatestOf
    <3>2. k \in 1 .. k
      OBVIOUS
    <3> QED
      BY <3>1, <3>2
  <2>3. (1 .. k) \ {k} = 1 .. k - 1
    OBVIOUS
  <2>4. it[1 .. k] = StuffByte(it[(1 .. k) \ {Max(1 .. k)}], f[Max(1 .. k)])
    BY <1>3, <2>1
  <2> QED
    BY <2>2, <2>3, <2>4 DEF After, it
<1>6. Stuffed(f) = After(f, n).out \o send_block(After(f, n).block) \o <<0>>
  BY <1>1, StuffedIsFold DEF After
<1> QED
  BY <1>4, <1>5, <1>6 DEF n

-----------------------------------------------------------------------------
(* What is on the line is bytes.                                           *)
NonZero == 1 .. FULL

Sender == {s \in [out : Seq(Byte), block : Seq(NonZero)] : Len(s.block) < FULL}

(* A block and the length before it.                                       *)
LEMMA BlockIsBytes ==
  ASSUME NEW b \in Seq(NonZero), Len(b) < FULL
  PROVE  /\ send_block(b) = <<Len(b) + 1>> \o b
         /\ send_block(b) \in Seq(Byte)
<1>1. FULL \in Nat /\ Len(b) + 1 \in Byte
  BY ByteStufferAssumption DEF Byte
<1>2. NonZero \subseteq Byte
  BY <1>1 DEF NonZero, Byte
<1>3. b \in Seq(Byte)
  BY <1>2
<1>4. <<Len(b) + 1>> \in Seq(Byte)
  BY <1>1
<1> QED
  BY <1>3, <1>4 DEF send_block

(* The fields of what the sender keeps.                                    *)
LEMMA Fields ==
  ASSUME NEW a, NEW b
  PROVE  [out |-> a, block |-> b].out = a /\ [out |-> a, block |-> b].block = b
OBVIOUS

(* A full block is sent before the next byte.                              *)
LEMMA SplitFullIs ==
  ASSUME NEW s \in Sender
  PROVE  /\ Len(s.block) = FULL - 1 =>
              SplitFull(s).out = s.out \o send_block(s.block) /\ SplitFull(s).block = <<>>
         /\ Len(s.block) # FULL - 1 => SplitFull(s) = s
         /\ SplitFull(s) \in Sender /\ Len(SplitFull(s).block) < FULL - 1
<1>1. /\ s.out \in Seq(Byte) /\ s.block \in Seq(NonZero)
      /\ Len(s.block) < FULL /\ Len(s.block) \in Nat
  BY DEF Sender
<1>2. FULL \in Nat \ {0, 1}
  BY ByteStufferAssumption
<1>3. send_block(s.block) \in Seq(Byte)
  BY <1>1, BlockIsBytes
<1> DEFINE t == [out |-> s.out \o send_block(s.block), block |-> <<>>]
<1>4. /\ t.out \in Seq(Byte) /\ t.block = <<>> /\ Len(t.block) = 0 /\ t.block \in Seq(NonZero)
  BY <1>1, <1>3
<1>5. t \in Sender
  BY <1>2, <1>4 DEF Sender
<1>6. CASE Len(s.block) = FULL - 1
  <2>1. SplitFull(s) = t
    BY <1>1, <1>2, <1>6 DEF SplitFull
  <2>2. t.out = s.out \o send_block(s.block) /\ t.block = <<>>
    BY Fields, Zenon
  <2> HIDE DEF t
  <2> QED
    BY <1>2, <1>4, <1>5, <1>6, <2>1, <2>2
<1>7. CASE Len(s.block) # FULL - 1
  <2>1. SplitFull(s) = s
    BY <1>1, <1>2, <1>7 DEF SplitFull
  <2>2. Len(s.block) < FULL - 1
    BY <1>1, <1>2, <1>7
  <2> QED
    BY <1>7, <2>1, <2>2
<1> QED
  BY <1>6, <1>7

(* A zero ends the block, any other byte is added to it.                   *)
LEMMA StuffByteIs ==
  ASSUME NEW s \in Sender, NEW b \in Byte
  PROVE  /\ b = 0 => /\ StuffByte(s, b).out = SplitFull(s).out \o send_block(SplitFull(s).block)
                      /\ StuffByte(s, b).block = <<>>
         /\ b # 0 => /\ StuffByte(s, b).out = SplitFull(s).out
                      /\ StuffByte(s, b).block = Append(SplitFull(s).block, b)
         /\ StuffByte(s, b) \in Sender
<1> DEFINE t == SplitFull(s)
<1>1. t \in Sender /\ Len(t.block) < FULL - 1 /\ FULL \in Nat \ {0, 1}
  BY SplitFullIs, ByteStufferAssumption
<1> HIDE DEF t
<1>2. /\ t.out \in Seq(Byte) /\ t.block \in Seq(NonZero) /\ Len(t.block) \in Nat
      /\ t = [out |-> t.out, block |-> t.block]
  BY <1>1 DEF Sender
<1>3. CASE b = 0
  <2> DEFINE u == [out |-> t.out \o send_block(t.block), block |-> <<>>]
  <2>1. StuffByte(s, b) = u
    BY <1>3 DEF StuffByte, SplitZero, t
  <2>2. send_block(t.block) \in Seq(Byte)
    <3>1. Len(t.block) < FULL
      BY <1>1, <1>2
    <3> QED
      BY <1>2, <3>1, BlockIsBytes
  <2>3. u.out \in Seq(Byte) /\ u.block \in Seq(NonZero) /\ Len(u.block) = 0
    BY <1>2, <2>2
  <2>4. u \in Sender
    BY <1>1, <2>3 DEF Sender
  <2>5. u.out = t.out \o send_block(t.block) /\ u.block = <<>>
    BY Fields, Zenon
  <2> HIDE DEF u
  <2> QED
    BY <1>3, <2>1, <2>4, <2>5 DEF t
<1>4. CASE b # 0
  <2> DEFINE u == [out |-> t.out, block |-> Append(t.block, b)]
  <2>1. StuffByte(s, b) = u
    <3>1. StuffByte(s, b) = [t EXCEPT !.block = Append(@, b)]
      BY <1>4 DEF StuffByte, SplitZero, t
    <3> QED
      BY <1>2, <3>1
  <2>2. b \in NonZero
    BY <1>1, <1>4 DEF NonZero, Byte
  <2>3. /\ u.out \in Seq(Byte) /\ u.block \in Seq(NonZero)
        /\ Len(u.block) = Len(t.block) + 1
    BY <1>2, <2>2
  <2>4. Len(u.block) < FULL
    BY <1>1, <1>2, <2>3
  <2> HIDE DEF u
  <2>5. u \in Sender
    <3>1. u = [out |-> u.out, block |-> u.block]
      BY DEF u
    <3> QED
      BY <2>3, <2>4, <3>1 DEF Sender
  <2>6. u.out = t.out /\ u.block = Append(t.block, b)
    BY Fields, Zenon DEF u
  <2> QED
    BY <1>4, <2>1, <2>5, <2>6 DEF t
<1> QED
  BY <1>3, <1>4

(* A block that grows never grows beyond a full one.                       *)
LEMMA AfterIsSender ==
  ASSUME NEW f \in Seq(Byte), NEW k \in 0 .. Len(f)
  PROVE  After(f, k) \in Sender
<1> DEFINE Fails == {i \in 0 .. Len(f) : After(f, i) \notin Sender}
<1> SUFFICES ASSUME Fails # {} PROVE FALSE
  OBVIOUS
<1>1. PICK i \in Fails : \A y \in Fails : i <= y
  <2> Fails \in SUBSET Nat
    OBVIOUS
  <2> HIDE DEF Fails
  <2> QED
    BY LeastNumber
<1>2. i \in 0 .. Len(f) /\ After(f, i) \notin Sender /\ Len(f) \in Nat
  OBVIOUS
<1>3. CASE i = 0
  <2>1. After(f, 0) = Start
    BY <1>2, AfterIs
  <2>2. Start \in Sender
    BY ByteStufferAssumption DEF Start, Sender
  <2> QED
    BY <1>2, <1>3, <2>1, <2>2
<1>4. CASE i # 0
  <2>1. i \in 1 .. Len(f) /\ i - 1 \in 0 .. Len(f) /\ ~ (i <= i - 1)
    BY <1>2, <1>4
  <2>2. After(f, i - 1) \in Sender
    BY <1>1, <2>1
  <2>3. \A j \in 1 .. Len(f) : After(f, j) = StuffByte(After(f, j - 1), f[j])
    BY <1>2, AfterIs
  <2>4. After(f, i) = StuffByte(After(f, i - 1), f[i]) /\ f[i] \in Byte
    BY <2>1, <2>3
  <2> QED
    BY <1>2, <2>2, <2>4, StuffByteIs
<1> QED
  BY <1>3, <1>4

(* A length byte is a byte.                                                *)
LEMMA StuffedIsBytes ==
  ASSUME NEW f \in Seq(Byte)
  PROVE  Stuffed(f) \in Seq(Byte)
<1>1. After(f, Len(f)) \in Sender /\ Len(f) \in Nat
  BY AfterIsSender
<1> DEFINE t == After(f, Len(f))
<1>2. Stuffed(f) = t.out \o send_block(t.block) \o <<0>>
  BY <1>1, AfterIs
<1> HIDE DEF t
<1>3. t.out \in Seq(Byte) /\ t.block \in Seq(NonZero) /\ Len(t.block) < FULL
  BY <1>1 DEF Sender, t
<1>4. send_block(t.block) \in Seq(Byte)
  BY <1>3, BlockIsBytes
<1>5. <<0>> \in Seq(Byte)
  BY ByteStufferAssumption DEF Byte
<1> QED
  BY <1>2, <1>3, <1>4, <1>5

(* Nothing has been received.                                              *)
LEMMA StufferTypeInit == StufferInit => StufferTypeOK
<1>0. <<>> \in Seq(Byte) /\ Len(<<>>) = 0 /\ 0 \in Byte /\ MAX_FRAME_SIZE \in Nat \ {0}
  BY ByteStufferAssumption DEF Byte
<1>1. ASSUME StufferInit PROVE StufferTypeOK
  <2>1. /\ next_zero = 0 /\ long_frame = FALSE /\ data = <<>> /\ wire = <<>>
        /\ sending = NO_FRAME /\ delivered = NO_FRAME
        /\ after_zero = TRUE /\ intact = FALSE
    BY <1>1 DEF StufferInit
  <2>2. Len(data) <= MAX_FRAME_SIZE
    BY <1>0, <2>1
  <2> QED
    BY <1>0, <2>1, <2>2 DEF StufferTypeOK
<1> QED
  BY <1>1

(* Whatever byte arrives, the receiver has room for it.                    *)
LEMMA StufferTypeInductive ==
  StufferTypeOK /\ [StufferNext]_stuffer_vars => StufferTypeOK'
<1> SUFFICES ASSUME StufferTypeOK, [StufferNext]_stuffer_vars PROVE StufferTypeOK'
  OBVIOUS
<1>f. <<>> \in Seq(Byte) /\ Len(<<>>) = 0 /\ 0 \in Byte /\ MAX_FRAME_SIZE \in Nat \ {0}
  BY ByteStufferAssumption DEF Byte
<1>0. FULL \in Nat \ {0, 1} /\ MAX_FRAME_SIZE \in Nat \ {0} /\ 0 \in Byte /\ Frame \subseteq Seq(Byte)
  BY ByteStufferAssumption DEF Byte
<1>1. ASSUME NEW f \in Frame, byte_stuffer_send_frame(f) PROVE StufferTypeOK'
  <2>1. Stuffed(f) \in Seq(Byte)
    BY <1>0, StuffedIsBytes
  <2> QED
    BY <1>1, <2>1 DEF StufferTypeOK, byte_stuffer_send_frame, receiver_vars
<1>2. ASSUME NEW b \in Byte, Arrive(b) PROVE StufferTypeOK'
  <2>1. wire' \in Seq(Byte) /\ after_zero' \in BOOLEAN /\ intact' \in BOOLEAN /\ sending' = sending
    BY <1>2 DEF StufferTypeOK, Arrive
  <2>2. /\ next_zero' \in Byte /\ long_frame' \in BOOLEAN
        /\ data' \in Seq(Byte) /\ Len(data') <= MAX_FRAME_SIZE
        /\ delivered' \in Seq(Byte) \cup {NO_FRAME}
    <3>0. /\ next_zero \in Byte /\ long_frame \in BOOLEAN /\ data \in Seq(Byte)
          /\ Len(data) <= MAX_FRAME_SIZE /\ Len(data) \in Nat
          /\ delivered \in Seq(Byte) \cup {NO_FRAME}
      BY DEF StufferTypeOK
    <3>s. ASSUME start_frame(b)
          PROVE  /\ next_zero' \in Byte /\ long_frame' \in BOOLEAN
                 /\ data' \in Seq(Byte) /\ Len(data') <= MAX_FRAME_SIZE
                 /\ delivered' \in Seq(Byte) \cup {NO_FRAME}
      BY <1>0, <3>0, <3>s DEF start_frame
    <3>a. ASSUME NEW x \in Byte, Len(data) # MAX_FRAME_SIZE
          PROVE  /\ Append(data, x) \in Seq(Byte) /\ Len(Append(data, x)) <= MAX_FRAME_SIZE
      BY <1>0, <3>0, <3>a
    <3>n. next_zero > 1 => next_zero - 1 \in Byte
      BY <1>0, <3>0 DEF Byte
    <3>1. CASE FrameStart(b)
      BY <3>1, <3>s DEF FrameStart
    <3>2. CASE FrameEnd(b)
      BY <1>0, <3>0, <3>2 DEF FrameEnd
    <3>3. CASE MisplacedZero(b)
      <4>1. data' = <<>> /\ next_zero' = 0 /\ long_frame' = FALSE /\ delivered' = delivered
        BY <3>3 DEF MisplacedZero
      <4>2. data' \in Seq(Byte) /\ Len(data') <= MAX_FRAME_SIZE
        BY <1>f, <4>1
      <4> QED
        BY <1>f, <3>0, <4>1, <4>2
    <3>4. CASE FrameTooLong(b)
      BY <3>4, <3>s DEF FrameTooLong
    <3>5. CASE NextBlock(b)
      BY <1>0, <3>0, <3>5, <3>a DEF NextBlock
    <3>6. CASE DataByte(b)
      BY <1>0, <3>0, <3>6, <3>a, <3>n DEF DataByte
    <3> QED
      BY <1>2, <3>1, <3>2, <3>3, <3>4, <3>5, <3>6 DEF Arrive, byte_stuffer_recv_byte
  <2> QED
    BY <2>1, <2>2 DEF StufferTypeOK
<1>3. CASE Lose
  <2>1. wire' \in Seq(Byte)
    <3>1. wire \in Seq(Byte) /\ wire # <<>> /\ wire' = Tail(wire)
      BY <1>3 DEF StufferTypeOK, Lose
    <3> QED
      BY <3>1, HeadTailProperties
  <2>2. intact' = FALSE
    BY <1>3 DEF Lose
  <2> QED
    BY <1>3, <2>1, <2>2 DEF StufferTypeOK, Lose, receiver_vars
<1>4. CASE UNCHANGED stuffer_vars
  BY <1>4 DEF StufferTypeOK, stuffer_vars, receiver_vars
<1> QED
  BY <1>1, <1>2, <1>3, <1>4 DEF StufferNext

(* byte_stuffer_recv_byte never writes beyond its buffer, whatever arrives,*)
(* and byte_stuffer_send_frame sends only bytes.                           *)
THEOREM ReceiverIsTyped == StufferSpec => []StufferTypeOK
BY StufferTypeInit, StufferTypeInductive, PTL DEF StufferSpec

-----------------------------------------------------------------------------
(* The sender at byte i of the frame, when a block that is full has been   *)
(* sent if the frame goes on.                                              *)
At(f, i) == IF i = Len(f) THEN After(f, i) ELSE SplitFull(After(f, i))

(* What has been sent, and the block that grows, where the frame goes on.  *)
LEMMA AtIs ==
  ASSUME NEW f \in Seq(Byte), NEW i \in 0 .. Len(f)
  PROVE  /\ At(f, i) \in Sender
         /\ At(f, i).out \in Seq(Byte) /\ At(f, i).block \in Seq(NonZero)
         /\ At(f, i) = [out |-> At(f, i).out, block |-> At(f, i).block]
         /\ i < Len(f) => At(f, i) = SplitFull(After(f, i)) /\ Len(At(f, i).block) < FULL - 1
         /\ i < Len(f) => SplitFull(At(f, i)) = At(f, i)
         /\ i = Len(f) => At(f, i) = After(f, i)
<1>1. After(f, i) \in Sender
  BY AfterIsSender
<1>2. At(f, i) \in Sender
  BY <1>1, SplitFullIs DEF At
<1>3. i < Len(f) => At(f, i) = SplitFull(After(f, i)) /\ Len(At(f, i).block) < FULL - 1
  <2> HIDE DEF At
  <2>1. SplitFull(After(f, i)) \in Sender /\ Len(SplitFull(After(f, i)).block) < FULL - 1
    BY <1>1, SplitFullIs
  <2>2. i < Len(f) => At(f, i) = SplitFull(After(f, i))
    BY DEF At
  <2> QED
    BY <2>1, <2>2
<1>4. ASSUME i < Len(f) PROVE SplitFull(At(f, i)) = At(f, i)
  <2> DEFINE a == At(f, i)
  <2>1. a \in Sender /\ Len(a.block) < FULL - 1 /\ FULL \in Nat
    BY <1>2, <1>3, <1>4, ByteStufferAssumption
  <2> HIDE DEF a
  <2>2. Len(a.block) # FULL - 1
    <3>1. Len(a.block) \in Nat
      BY <2>1 DEF Sender
    <3> QED
      BY <2>1, <3>1
  <2> QED
    BY <2>1, <2>2, SplitFullIs DEF a
<1>5. i = Len(f) => At(f, i) = After(f, i)
  BY DEF At
<1>6. /\ At(f, i).out \in Seq(Byte) /\ At(f, i).block \in Seq(NonZero)
      /\ At(f, i) = [out |-> At(f, i).out, block |-> At(f, i).block]
  BY <1>2 DEF Sender
<1> QED
  BY <1>2, <1>3, <1>4, <1>5, <1>6

(* One more byte.                                                          *)
LEMMA NextByte ==
  ASSUME NEW f \in Seq(Byte), NEW i \in 0 .. Len(f) - 1
  PROVE  /\ i + 1 \in 0 .. Len(f) /\ f[i + 1] \in Byte
         /\ f[i + 1] = 0 => /\ After(f, i + 1).out = At(f, i).out \o send_block(At(f, i).block)
                            /\ After(f, i + 1).block = <<>>
         /\ f[i + 1] # 0 => /\ After(f, i + 1).out = At(f, i).out
                            /\ After(f, i + 1).block = Append(At(f, i).block, f[i + 1])
<1>1. i \in 0 .. Len(f) /\ i + 1 \in 1 .. Len(f) /\ i < Len(f) /\ (i + 1) - 1 = i
  OBVIOUS
<1>2. \A k \in 1 .. Len(f) : After(f, k) = StuffByte(After(f, k - 1), f[k])
  BY AfterIs
<1>3. After(f, i + 1) = StuffByte(After(f, i), f[i + 1])
  BY <1>1, <1>2
<1>4. After(f, i) \in Sender /\ f[i + 1] \in Byte
  BY <1>1, AfterIsSender
<1>5. At(f, i) = SplitFull(After(f, i))
  BY <1>1, AtIs
<1> DEFINE a == After(f, i)
           b == f[i + 1]
           t == StuffByte(a, b)
<1> HIDE DEF a, b, t
<1>6. /\ b = 0 => /\ t.out = At(f, i).out \o send_block(At(f, i).block)
                  /\ t.block = <<>>
      /\ b # 0 => /\ t.out = At(f, i).out
                  /\ t.block = Append(At(f, i).block, b)
  <2>1. a \in Sender /\ b \in Byte /\ At(f, i) = SplitFull(a)
    BY <1>4, <1>5 DEF a, b
  <2> QED
    BY <2>1, StuffByteIs DEF t
<1>7. After(f, i + 1) = t /\ f[i + 1] = b /\ b \in Byte
  BY <1>3, <1>4 DEF a, b, t
<1>8. i + 1 \in 0 .. Len(f)
  BY <1>1
<1> QED
  BY <1>6, <1>7, <1>8, Zenon

(* The associative law under a name, to say where a proof uses it.         *)
Moved(a, b, c) == (a \o b) \o c = a \o (b \o c)

(* Concatenation is associative.                                           *)
LEMMA Associative ==
  ASSUME NEW a \in Seq(Byte), NEW b \in Seq(Byte), NEW c \in Seq(Byte)
  PROVE  Moved(a, b, c)
BY SMTT(30) DEF Moved

(* Either part of what the sender keeps is bytes.                          *)
LEMMA BlockIsSent ==
  ASSUME NEW s \in Sender
  PROVE  send_block(s.block) \in Seq(Byte) /\ s.out \in Seq(Byte)
BY BlockIsBytes DEF Sender

(* What is sent stays sent.                                                *)
LEMMA Prefix ==
  ASSUME NEW f \in Seq(Byte), NEW i \in 0 .. Len(f)
  PROVE  \E r \in Seq(Byte) : Stuffed(f) = At(f, i).out \o r
<1> DEFINE Good(j) == \E r \in Seq(Byte) : Stuffed(f) = At(f, j).out \o r
           Fails == {k \in 0 .. Len(f) : ~ Good(Len(f) - k)}
<1> SUFFICES ASSUME Fails # {} PROVE FALSE
  <2> HIDE DEF Good
  <2>1. Fails = {} => Good(Len(f) - (Len(f) - i))
    <3>1. Len(f) - i \in 0 .. Len(f)
      OBVIOUS
    <3> QED
      BY <3>1
  <2>2. Len(f) - (Len(f) - i) = i
    OBVIOUS
  <2>3. Good(i) => \E r \in Seq(Byte) : Stuffed(f) = At(f, i).out \o r
    BY DEF Good
  <2> QED
    BY <2>1, <2>2, <2>3
<1>1. PICK k \in Fails : \A y \in Fails : k <= y
  <2> Fails \in SUBSET Nat
    OBVIOUS
  <2> HIDE DEF Fails
  <2> QED
    BY LeastNumber
<1> HIDE DEF Good
<1>2. k \in 0 .. Len(f) /\ ~ Good(Len(f) - k) /\ Len(f) \in Nat
  OBVIOUS
<1>3. CASE k = 0
  <2> DEFINE t == After(f, Len(f))
             r == send_block(t.block) \o <<0>>
  <2>1. t \in Sender /\ At(f, Len(f)) = t
    <3>1. Len(f) \in 0 .. Len(f)
      BY <1>2
    <3> QED
      BY <3>1, AfterIsSender, AtIs
  <2>2. Stuffed(f) = t.out \o send_block(t.block) \o <<0>>
    BY <1>2, AfterIs
  <2> HIDE DEF t
  <2>3. send_block(t.block) \in Seq(Byte) /\ t.out \in Seq(Byte) /\ <<0>> \in Seq(Byte)
    BY <2>1, BlockIsSent, ByteStufferAssumption DEF Byte
  <2>4. r \in Seq(Byte) /\ Stuffed(f) = t.out \o r
    <3> DEFINE o == t.out
               b == send_block(t.block)
    <3> HIDE DEF o, b
    <3>1. o \in Seq(Byte) /\ b \in Seq(Byte) /\ <<0>> \in Seq(Byte)
      BY <2>3 DEF o, b
    <3>2. b \o <<0>> \in Seq(Byte) /\ (o \o b) \o <<0>> = o \o (b \o <<0>>)
      <4>1. b \o <<0>> \in Seq(Byte)
        BY <3>1
      <4>2. Moved(o, b, <<0>>)
        BY <3>1, Associative
      <4> QED
        BY <4>1, <4>2 DEF Moved
    <3> QED
      BY <2>2, <3>2 DEF o, b
  <2>5. Good(Len(f))
    BY <2>1, <2>4 DEF Good
  <2> QED
    BY <1>2, <1>3, <2>5
<1>4. CASE k # 0
  <2> DEFINE j == Len(f) - k
  <2>1. j \in 0 .. Len(f) - 1 /\ j \in 0 .. Len(f) /\ j + 1 = Len(f) - (k - 1)
        /\ k - 1 \in 0 .. Len(f) /\ ~ (k <= k - 1) /\ j + 1 \in 0 .. Len(f)
    BY <1>2, <1>4
  <2>2. Good(Len(f) - (k - 1))
    BY <1>1, <2>1
  <2> HIDE DEF Fails, j
  <2>3. PICK r \in Seq(Byte) : Stuffed(f) = At(f, j + 1).out \o r
    BY <2>1, <2>2 DEF Good
  <2>4. \E x \in Seq(Byte) : After(f, j + 1).out = At(f, j).out \o x
    <3>1. At(f, j) \in Sender
      BY <2>1, AtIs
    <3>2. send_block(At(f, j).block) \in Seq(Byte) /\ At(f, j).out \in Seq(Byte)
      BY <3>1, BlockIsSent
    <3>3. CASE f[j + 1] = 0
      <4>1. After(f, j + 1).out = At(f, j).out \o send_block(At(f, j).block)
        BY <2>1, <3>3, NextByte
      <4> QED
        BY <3>2, <4>1
    <3>4. CASE f[j + 1] # 0
      <4>1. After(f, j + 1).out = At(f, j).out
        BY <2>1, <3>4, NextByte
      <4>2. At(f, j).out \o <<>> = At(f, j).out /\ <<>> \in Seq(Byte)
        BY <3>2
      <4> QED
        BY <4>1, <4>2
    <3> QED
      BY <3>3, <3>4
  <2>5. \E x \in Seq(Byte) : At(f, j + 1).out = After(f, j + 1).out \o x
    <3> DEFINE a == After(f, j + 1)
    <3>1. a \in Sender
      BY <2>1, AfterIsSender
    <3> HIDE DEF a
    <3>2. send_block(a.block) \in Seq(Byte) /\ a.out \in Seq(Byte)
      BY <3>1, BlockIsSent
    <3>3. a.out \o <<>> = a.out /\ <<>> \in Seq(Byte)
      BY <3>2
    <3>4. At(f, j + 1) = a \/ At(f, j + 1) = SplitFull(a)
      BY DEF At, a
    <3>5. SplitFull(a).out = a.out \/ SplitFull(a).out = a.out \o send_block(a.block)
      BY <3>1, SplitFullIs
    <3> QED
      BY <3>2, <3>3, <3>4, <3>5 DEF a
  <2>6. PICK x \in Seq(Byte) : After(f, j + 1).out = At(f, j).out \o x
    BY <2>4
  <2>7. PICK y \in Seq(Byte) : At(f, j + 1).out = After(f, j + 1).out \o y
    BY <2>5
  <2>8. Stuffed(f) = At(f, j).out \o (x \o (y \o r))
    <3>1. At(f, j).out \in Seq(Byte)
      BY <2>1, AtIs
    <3>2. Stuffed(f) = ((At(f, j).out \o x) \o y) \o r
      BY <2>3, <2>6, <2>7
    <3> DEFINE o == At(f, j).out
               ox == o \o x
               yr == y \o r
    <3>3. ox \in Seq(Byte) /\ yr \in Seq(Byte)
      BY <3>1
    <3> HIDE DEF o, ox, yr
    <3>4. Moved(ox, y, r) /\ Moved(o, x, yr)
      BY <3>1, <3>3, Associative DEF o
    <3>5. (ox \o y) \o r = ox \o yr
      BY <3>4 DEF Moved, yr
    <3>6. ox \o yr = o \o (x \o yr)
      BY <3>4 DEF Moved, ox
    <3> QED
      BY <3>2, <3>5, <3>6 DEF o, ox, yr
  <2>9. x \o (y \o r) \in Seq(Byte)
    OBVIOUS
  <2>10. Good(j)
    BY <2>8, <2>9 DEF Good
  <2> QED
    BY <1>2, <2>10 DEF j
<1> QED
  BY <1>3, <1>4

(* The block that begins at byte i, filled up to byte x.                   *)
Filled(f, i, x) == IF x = i THEN At(f, i) ELSE After(f, x)

Fills(f, i, x) ==
  /\ Filled(f, i, x).out = At(f, i).out
  /\ Filled(f, i, x).block = SubSeq(f, i + 1, x)

(* The bytes from a to b of a frame: how many, the first, and one more.    *)
LEMMA SubSeqIs ==
  ASSUME NEW f \in Seq(Byte), NEW a \in 1 .. Len(f) + 1, NEW b \in a - 1 .. Len(f)
  PROVE  /\ SubSeq(f, a, b) \in Seq(Byte) /\ Len(SubSeq(f, a, b)) = b - a + 1
         /\ a = b + 1 => SubSeq(f, a, b) = <<>>
         /\ b < Len(f) => /\ SubSeq(f, a, b + 1) = Append(SubSeq(f, a, b), f[b + 1])
         /\ a <= b => /\ SubSeq(f, a, b) # <<>> /\ Head(SubSeq(f, a, b)) = f[a]
                      /\ Tail(SubSeq(f, a, b)) = SubSeq(f, a + 1, b)
<1>1. \A i \in a .. b : f[i] \in Byte
  OBVIOUS
<1>2. /\ SubSeq(f, a, b) \in Seq(Byte)
      /\ Len(SubSeq(f, a, b)) = IF a <= b THEN b - a + 1 ELSE 0
  BY <1>1, SubSeqProperties
<1>3. Len(SubSeq(f, a, b)) = b - a + 1
  BY <1>2
<1>4. a = b + 1 => SubSeq(f, a, b) = <<>>
  BY SubSeqEmpty
<1>5. ASSUME b < Len(f) PROVE SubSeq(f, a, b + 1) = Append(SubSeq(f, a, b), f[b + 1])
  <2> DEFINE s == SubSeq(f, a, b + 1)
             t == SubSeq(f, a, b)
             u == Append(t, f[b + 1])
  <2>0. \A i \in a .. b + 1 : f[i] \in Byte
    BY <1>5
  <2>1. s \in Seq(Byte) /\ Len(s) = b - a + 2 /\ \A i \in 1 .. b - a + 2 : s[i] = f[a + i - 1]
    <3>1. /\ s \in Seq(Byte) /\ Len(s) = (IF a <= b + 1 THEN (b + 1) - a + 1 ELSE 0)
          /\ \A i \in 1 .. (b + 1) - a + 1 : s[i] = f[a + i - 1]
      BY <1>5, <2>0, SubSeqProperties
    <3> QED
      BY <3>1
  <2>2. t \in Seq(Byte) /\ Len(t) = b - a + 1 /\ \A i \in 1 .. b - a + 1 : t[i] = f[a + i - 1]
    BY <1>1, <1>2, <1>3, SubSeqProperties
  <2>3. f[b + 1] \in Byte /\ b - a + 1 \in Nat
    BY <1>5
  <2> HIDE DEF s, t
  <2>4. /\ u \in Seq(Byte) /\ Len(u) = b - a + 2 /\ u[b - a + 2] = f[b + 1]
        /\ \A i \in 1 .. b - a + 1 : u[i] = t[i]
    BY <2>2, <2>3
  <2> HIDE DEF u
  <2>5. ASSUME NEW i \in 1 .. b - a + 2 PROVE s[i] = u[i]
    <3>1. CASE i = b - a + 2
      BY <2>1, <2>4, <3>1
    <3>2. CASE i # b - a + 2
      <4>1. i \in 1 .. b - a + 1
        BY <2>3, <3>2
      <4> QED
        BY <2>1, <2>2, <2>4, <4>1
    <3> QED
      BY <3>1, <3>2
  <2> QED
    BY <2>1, <2>4, <2>5 DEF s, t, u
<1>6. ASSUME a <= b
      PROVE  /\ SubSeq(f, a, b) # <<>> /\ Head(SubSeq(f, a, b)) = f[a]
             /\ Tail(SubSeq(f, a, b)) = SubSeq(f, a + 1, b)
  <2>1. a \in 1 .. Len(f) /\ b \in a .. Len(f)
    BY <1>6
  <2>2. SubSeq(f, a, b) # <<>>
    BY <1>2, <1>6
  <2> QED
    BY <2>1, <2>2, HeadTailOfSubSeq
<1> QED
  BY <1>2, <1>3, <1>4, <1>5, <1>6

(* A block has the bytes of the frame from its first one on: if not, take  *)
(* the least byte that is missing.                                         *)
LEMMA Filling ==
  ASSUME NEW f \in Seq(Byte), NEW i \in 0 .. Len(f), NEW j \in i .. Len(f),
         At(f, i).block = <<>>, \A x \in i + 1 .. j : f[x] # 0, j - i <= FULL - 1
  PROVE  Fills(f, i, j)
<1> DEFINE Fails == {k \in 0 .. j - i : ~ Fills(f, i, i + k)}
<1> SUFFICES ASSUME Fails # {} PROVE FALSE
  <2>1. j - i \in 0 .. j - i /\ i + (j - i) = j
    OBVIOUS
  <2> QED
    BY <2>1
<1>1. PICK k \in Fails : \A y \in Fails : k <= y
  <2> Fails \in SUBSET Nat
    OBVIOUS
  <2> HIDE DEF Fails
  <2> QED
    BY LeastNumber
<1>2. k \in 0 .. j - i /\ ~ Fills(f, i, i + k) /\ Len(f) \in Nat /\ FULL \in Nat
  BY ByteStufferAssumption
<1>3. CASE k = 0
  <2>1. SubSeq(f, i + 1, i) = <<>>
    BY SubSeqEmpty
  <2>2. i + k = i
    BY <1>2, <1>3
  <2> QED
    BY <1>2, <2>1, <2>2 DEF Fills, Filled
<1>4. CASE k # 0
  <2> DEFINE x == i + (k - 1)
  <2>1. /\ x \in 0 .. Len(f) - 1 /\ x + 1 = i + k /\ k - 1 \in 0 .. j - i /\ x \in 0 .. Len(f)
        /\ ~ (k <= k - 1) /\ x + 1 \in i + 1 .. j /\ x >= i /\ x - i < FULL - 1 /\ x < Len(f)
    BY <1>2, <1>4
  <2>2. Fills(f, i, x)
    BY <1>1, <2>1
  <2> HIDE DEF x, Fails
  <2>3. f[x + 1] # 0
    BY <2>1
  <2>4. At(f, x) = Filled(f, i, x)
    <3>1. CASE x = i
      BY <3>1 DEF Filled
    <3>2. CASE x # i
      <4>1. Filled(f, i, x) = After(f, x)
        BY <3>2 DEF Filled
      <4>2. i + 1 \in 1 .. Len(f) + 1 /\ x \in (i + 1) - 1 .. Len(f)
        BY <2>1
      <4>3. Len(SubSeq(f, i + 1, x)) = x - (i + 1) + 1
        BY <4>2, SubSeqIs
      <4>4. Len(After(f, x).block) # FULL - 1
        BY <1>2, <2>1, <2>2, <4>1, <4>3 DEF Fills
      <4>5. After(f, x) \in Sender /\ At(f, x) = SplitFull(After(f, x))
        BY <2>1, AfterIsSender, AtIs
      <4> QED
        BY <4>1, <4>4, <4>5, SplitFullIs
    <3> QED
      BY <3>1, <3>2
  <2>5. /\ After(f, x + 1).out = At(f, x).out
        /\ After(f, x + 1).block = Append(At(f, x).block, f[x + 1])
    BY <2>1, <2>3, NextByte
  <2>6. SubSeq(f, i + 1, x + 1) = Append(SubSeq(f, i + 1, x), f[x + 1])
    <3>1. i + 1 \in 1 .. Len(f) + 1 /\ x \in (i + 1) - 1 .. Len(f)
      BY <2>1
    <3> QED
      BY <2>1, <3>1, SubSeqIs
  <2>7. Filled(f, i, x + 1) = After(f, x + 1)
    BY <2>1 DEF Filled
  <2>8. Fills(f, i, x + 1)
    BY <2>2, <2>4, <2>5, <2>6, <2>7 DEF Fills
  <2> QED
    BY <1>2, <2>1, <2>8
<1> QED
  BY <1>3, <1>4

(* A block begins at byte i of the frame, and r is the rest of what is     *)
(* sent, from its length on.                                               *)
IsRest(f, i, r) ==
  /\ i \in 0 .. Len(f) /\ At(f, i).block = <<>>
  /\ r \in Seq(Byte) /\ Stuffed(f) = At(f, i).out \o r

(* What follows the block of the bytes after i, up to j: the next block,   *)
(* after a zero if this one is not full, or the end of the frame.          *)
Follows(f, j, full, r) ==
  \/ j < Len(f) /\ full /\ IsRest(f, j, r)
  \/ j < Len(f) /\ ~ full /\ f[j + 1] = 0 /\ IsRest(f, j + 1, r)
  \/ j = Len(f) /\ r = <<0>>

(* r is what follows o when the block of length byte h and bytes b, and    *)
(* then t, do.                                                             *)
Spliced(o, h, b, t, r) == o \o r = (o \o (h \o b)) \o t

(* The same, without what came before the block.                           *)
LEMMA SplicedIs ==
  ASSUME NEW o \in Seq(Byte), NEW r \in Seq(Byte), NEW h \in Seq(Byte), NEW b \in Seq(Byte),
         NEW t \in Seq(Byte), Spliced(o, h, b, t, r)
  PROVE  r = h \o (b \o t)
<1> DEFINE hb == h \o b
           hbt == hb \o t
<1>1. hb \in Seq(Byte)
  OBVIOUS
<1>2. hbt = h \o (b \o t)
  <2>1. Moved(h, b, t)
    BY Associative
  <2> QED
    BY <2>1 DEF Moved
<1> HIDE DEF hb
<1>3. hbt \in Seq(Byte)
  BY <1>1
<1>4. (o \o hb) \o t = o \o hbt
  <2>1. Moved(o, hb, t)
    BY <1>1, Associative
  <2> QED
    BY <2>1 DEF Moved
<1> HIDE DEF hbt
<1>5. o \o r = o \o hbt
  BY <1>4 DEF hb, Spliced
<1>6. r = hbt
  BY <1>3, <1>5, ConcatSimplifications, Zenon
<1> QED
  BY <1>2, <1>6

(* The next block ends at the first zero, when it is full, or with the     *)
(* frame, whichever comes first.                                           *)
LEMMA Block ==
  ASSUME NEW f \in Seq(Byte), NEW i, NEW r, IsRest(f, i, r)
  PROVE  \E j \in i .. Len(f), t \in Seq(Byte) :
           /\ r = <<j - i + 1>> \o (SubSeq(f, i + 1, j) \o t)
           /\ \A x \in i + 1 .. j : f[x] # 0
           /\ j - i <= FULL - 1
           /\ Follows(f, j, j - i = FULL - 1, t)
<1>0. /\ i \in 0 .. Len(f) /\ r \in Seq(Byte) /\ At(f, i).block = <<>>
      /\ Len(f) \in Nat /\ FULL \in Nat \ {0, 1} /\ <<0>> \in Seq(Byte)
  BY ByteStufferAssumption DEF IsRest, Byte
<1> DEFINE Ends == {k \in 0 .. Len(f) - i : i + k = Len(f) \/ k = FULL - 1 \/ f[i + k + 1] = 0}
<1>1. PICK k \in Ends : \A y \in Ends : k <= y
  <2>1. Len(f) - i \in Ends
    BY <1>0
  <2>2. Ends \in SUBSET Nat
    BY <1>0
  <2> HIDE DEF Ends
  <2> QED
    BY <2>1, <2>2, LeastNumber
<1> DEFINE j == i + k
           b == SubSeq(f, i + 1, j)
           o == At(f, i).out
<1>2. j \in i .. Len(f) /\ j \in 0 .. Len(f) /\ k = j - i /\ k \in Nat
  BY <1>0
<1>3. \A m \in 0 .. k - 1 : i + m < Len(f) /\ m # FULL - 1 /\ f[i + m + 1] # 0
  <2> SUFFICES ASSUME NEW m \in 0 .. k - 1
               PROVE  i + m < Len(f) /\ m # FULL - 1 /\ f[i + m + 1] # 0
    OBVIOUS
  <2>1. m \in 0 .. Len(f) - i /\ ~ (k <= m) /\ i + m < Len(f)
    BY <1>0, <1>2
  <2>2. m \notin Ends
    BY <1>1, <2>1
  <2> QED
    BY <2>1, <2>2
<1>4. j - i <= FULL - 1
  <2>1. ~ (FULL - 1 < k)
    <3>1. FULL - 1 < k => FULL - 1 \in 0 .. k - 1
      BY <1>0, <1>2
    <3> QED
      BY <1>3, <3>1
  <2> QED
    BY <1>0, <1>2, <2>1
<1>5. ASSUME NEW x \in i + 1 .. j PROVE f[x] # 0
  <2>1. x - i - 1 \in 0 .. k - 1 /\ i + (x - i - 1) + 1 = x
    BY <1>0, <1>2
  <2> QED
    BY <1>3, <2>1
<1>6. j = Len(f) \/ j - i = FULL - 1 \/ f[j + 1] = 0
  BY <1>0, <1>2
<1> HIDE DEF Ends, j
<1>7. Fills(f, i, j)
  BY <1>0, <1>2, <1>4, <1>5, Filling
<1>8. Filled(f, i, j).out = o /\ Filled(f, i, j).block = b
  BY <1>7 DEF Fills
<1>9. b \in Seq(Byte) /\ Len(b) = j - i
  <2>1. i + 1 \in 1 .. Len(f) + 1 /\ j \in (i + 1) - 1 .. Len(f)
    BY <1>0, <1>2
  <2>2. b \in Seq(Byte) /\ Len(b) = j - (i + 1) + 1
    BY <2>1, SubSeqIs
  <2> QED
    BY <1>0, <1>2, <2>2
<1>10. SUFFICES \E t \in Seq(Byte) : /\ Stuffed(f) = (o \o send_block(b)) \o t
                                     /\ Follows(f, j, j - i = FULL - 1, t)
  <2>1. PICK t \in Seq(Byte) : /\ Stuffed(f) = (o \o send_block(b)) \o t
                               /\ Follows(f, j, j - i = FULL - 1, t)
    BY <1>10
  <2>2. r = <<j - i + 1>> \o (b \o t)
    <3> DEFINE h == <<j - i + 1>>
    <3>1. j - i + 1 \in Byte /\ Len(b) + 1 = j - i + 1
      BY <1>0, <1>2, <1>4, <1>9 DEF Byte
    <3>2. h \in Seq(Byte)
      BY <3>1
    <3>3. send_block(b) = h \o b
      BY <3>1 DEF send_block
    <3>4. o \in Seq(Byte)
      BY <1>0, AtIs
    <3>5. o \o r = (o \o (h \o b)) \o t
      BY <2>1, <3>3 DEF IsRest
    <3> HIDE DEF h, o, b
    <3>6. Spliced(o, h, b, t, r)
      BY <3>5 DEF Spliced
    <3>8. r \in Seq(Byte) /\ b \in Seq(Byte)
      BY <1>0, <1>9
    <3>7. r = h \o (b \o t)
      BY <3>2, <3>4, <3>6, <3>8, SplicedIs, SMTT(30)
    <3> QED
      BY <3>7 DEF h
  <2> QED
    BY <1>2, <1>4, <1>5, <2>1, <2>2
<1>11. CASE j = Len(f)
  <2>1. Filled(f, i, j) = After(f, Len(f))
    BY <1>0, <1>11, AtIs DEF Filled
  <2>2. Stuffed(f) = (o \o send_block(b)) \o <<0>>
    BY <1>8, <2>1, AfterIs
  <2> QED
    BY <1>0, <1>11, <2>2 DEF Follows
<1>12. CASE j < Len(f) /\ j - i = FULL - 1
  <2>1. Filled(f, i, j) = After(f, j) /\ At(f, j) = SplitFull(After(f, j))
    <3>1. j # i
      BY <1>0, <1>2, <1>12
    <3> QED
      BY <1>2, <1>12, <3>1, AtIs DEF Filled
  <2>2. After(f, j) \in Sender
    BY <1>2, AfterIsSender
  <2>3. At(f, j).out = o \o send_block(b) /\ At(f, j).block = <<>>
    BY <1>8, <1>9, <1>12, <2>1, <2>2, SplitFullIs
  <2>4. PICK t \in Seq(Byte) : Stuffed(f) = At(f, j).out \o t
    BY <1>2, Prefix
  <2>5. IsRest(f, j, t)
    BY <1>2, <2>3, <2>4 DEF IsRest
  <2> QED
    BY <1>12, <2>3, <2>4, <2>5 DEF Follows
<1>13. CASE j < Len(f) /\ j - i # FULL - 1
  <2>1. At(f, j) = Filled(f, i, j)
    <3>1. CASE j = i
      BY <3>1 DEF Filled
    <3>2. CASE j # i
      <4>1. Filled(f, i, j) = After(f, j)
        BY <3>2 DEF Filled
      <4>2. After(f, j) \in Sender /\ At(f, j) = SplitFull(After(f, j))
        BY <1>2, <1>13, AfterIsSender, AtIs
      <4> QED
        BY <1>8, <1>9, <1>13, <4>1, <4>2, SplitFullIs
    <3> QED
      BY <3>1, <3>2
  <2>2. f[j + 1] = 0 /\ j \in 0 .. Len(f) - 1 /\ j + 1 \in 0 .. Len(f)
    BY <1>0, <1>2, <1>6, <1>13
  <2> DEFINE a == After(f, j + 1)
  <2>3. a.out = o \o send_block(b) /\ a.block = <<>>
    BY <1>8, <2>1, <2>2, NextByte
  <2>4. a \in Sender
    BY <2>2, AfterIsSender
  <2> HIDE DEF a
  <2>5. Len(a.block) # FULL - 1
    BY <1>0, <2>3
  <2>6. SplitFull(a) = a
    BY <2>4, <2>5, SplitFullIs
  <2>7. At(f, j + 1) = a
    BY <2>6 DEF At, a
  <2>8. PICK t \in Seq(Byte) : Stuffed(f) = At(f, j + 1).out \o t
    BY <2>2, Prefix
  <2>9. IsRest(f, j + 1, t)
    BY <2>2, <2>3, <2>7, <2>8 DEF IsRest
  <2> QED
    BY <1>13, <2>2, <2>3, <2>7, <2>8, <2>9 DEF Follows
<1>14. j = Len(f) \/ j < Len(f)
  BY <1>0, <1>2
<1> QED
  BY <1>11, <1>12, <1>13, <1>14, Zenon

(* A frame begins with a block.                                            *)
LEMMA FirstBlock ==
  ASSUME NEW f \in Seq(Byte) \ {<<>>}
  PROVE  IsRest(f, 0, Stuffed(f))
<1>1. 0 \in 0 .. Len(f) /\ 0 < Len(f) /\ FULL \in Nat \ {0, 1}
  BY ByteStufferAssumption
<1>2. After(f, 0) = Start /\ Start.out = <<>> /\ Start.block = <<>>
  BY AfterIs, Fields DEF Start
<1>3. At(f, 0) = SplitFull(Start) /\ Start \in Sender
  BY <1>1, <1>2, AtIs, AfterIsSender
<1>4. Len(Start.block) # FULL - 1
  BY <1>1, <1>2
<1>5. At(f, 0) = Start
  BY <1>3, <1>4, SplitFullIs
<1>6. Stuffed(f) \in Seq(Byte)
  BY StuffedIsBytes
<1>7. <<>> \o Stuffed(f) = Stuffed(f)
  BY <1>6, ConcatEmptySeq
<1> QED
  BY <1>1, <1>2, <1>5, <1>6, <1>7 DEF IsRest

-----------------------------------------------------------------------------
(* The receiver                                                            *)

(* The receiver has the bytes of the frame that data holds, and those up   *)
(* to j are left in the block it reads.                                    *)
ReadingAt(j, t) ==
  /\ Len(data) <= j
  /\ data = SubSeq(sending, 1, Len(data))
  /\ next_zero = j - Len(data) + 1
  /\ wire = SubSeq(sending, Len(data) + 1, j) \o t
  /\ \A x \in Len(data) + 1 .. j : sending[x] # 0
  /\ Follows(sending, j, long_frame, t)
  /\ delivered = NO_FRAME

Reading == \E j \in 0 .. Len(sending), t \in Seq(Byte) : ReadingAt(j, t)

NotBegun == wire = Stuffed(sending) /\ next_zero = 0 /\ delivered = NO_FRAME

Unharmed == intact /\ Len(sending) <= MAX_FRAME_SIZE /\ ~ HasFullBlockAfterZero(sending)

StufferInv ==
  /\ StufferTypeOK
  /\ after_zero => next_zero = 0
  /\ intact => sending \in Frame
  /\ Unharmed => NotBegun \/ Reading \/ (wire = <<>> /\ delivered = sending)

(* The first element, and what follows it.                                 *)
LEMMA HeadOf ==
  ASSUME NEW h \in Byte, NEW s \in Seq(Byte)
  PROVE  <<h>> \o s # <<>> /\ Head(<<h>> \o s) = h /\ Tail(<<h>> \o s) = s
<1> DEFINE c == <<h>> \o s
<1>1. <<h>> \in Seq(Byte) /\ Len(<<h>>) = 1 /\ <<h>>[1] = h
  OBVIOUS
<1>2. /\ c \in Seq(Byte) /\ Len(c) = 1 + Len(s) /\ c[1] = h
      /\ \A i \in 1 .. Len(s) : c[i + 1] = s[i]
  BY <1>1
<1> HIDE DEF c
<1>3. c # <<>> /\ Head(c) = h
  BY <1>2
<1>4. /\ Tail(c) \in Seq(Byte) /\ Len(Tail(c)) = Len(s)
      /\ \A i \in 1 .. Len(s) : Tail(c)[i] = s[i]
  BY <1>2, <1>3, HeadTailProperties
<1>5. Tail(c) = s
  BY <1>4
<1> QED
  BY <1>3, <1>5 DEF c

(* The length of the next block comes before its bytes.                    *)
LEMMA NextLength ==
  ASSUME NEW f \in Seq(Byte), NEW i, NEW r, IsRest(f, i, r)
  PROVE  /\ r # <<>> /\ Head(r) # 0
         /\ \E j \in i .. Len(f), t \in Seq(Byte) :
              /\ Head(r) = j - i + 1 /\ Tail(r) = SubSeq(f, i + 1, j) \o t
              /\ \A x \in i + 1 .. j : f[x] # 0
              /\ Follows(f, j, j - i = FULL - 1, t)
<1>1. PICK j \in i .. Len(f), t \in Seq(Byte) :
        /\ r = <<j - i + 1>> \o (SubSeq(f, i + 1, j) \o t)
        /\ \A x \in i + 1 .. j : f[x] # 0
        /\ j - i <= FULL - 1
        /\ Follows(f, j, j - i = FULL - 1, t)
  BY Block
<1>2. i \in 0 .. Len(f) /\ FULL \in Nat \ {0, 1}
  BY ByteStufferAssumption DEF IsRest
<1>3. SubSeq(f, i + 1, j) \in Seq(Byte)
  <2>1. i + 1 \in 1 .. Len(f) + 1 /\ j \in (i + 1) - 1 .. Len(f)
    BY <1>2
  <2> QED
    BY <2>1, SubSeqIs
<1> DEFINE h == j - i + 1
           s == SubSeq(f, i + 1, j) \o t
<1>4. h \in Byte /\ h # 0
  BY <1>1, <1>2 DEF Byte
<1>5. s \in Seq(Byte)
  BY <1>3
<1>6. r = <<h>> \o s
  BY <1>1
<1> HIDE DEF h, s
<1>7. r # <<>> /\ Head(r) = h /\ Tail(r) = s
  BY <1>4, <1>5, <1>6, HeadOf
<1> QED
  BY <1>1, <1>4, <1>7 DEF h, s

(* The receiver enters a block.                                            *)
LEMMA Entering ==
  ASSUME NEW f \in Seq(Byte), NEW i, IsRest(f, i, wire), NEW b, b = Head(wire),
         sending' = f, wire' = Tail(wire), delivered' = NO_FRAME,
         next_zero' = b, data' = SubSeq(f, 1, i), ~ HasFullBlockAfterZero(f),
         \/ long_frame' = (b = FULL)
         \/ long_frame' = FALSE /\ i # 0 /\ f[i] = 0
  PROVE  Reading'
<1>1. PICK j \in i .. Len(f), t \in Seq(Byte) :
        /\ Head(wire) = j - i + 1 /\ Tail(wire) = SubSeq(f, i + 1, j) \o t
        /\ \A x \in i + 1 .. j : f[x] # 0
        /\ Follows(f, j, j - i = FULL - 1, t)
  BY NextLength
<1>2. i \in 0 .. Len(f) /\ FULL \in Nat \ {0, 1} /\ Len(f) \in Nat
  BY ByteStufferAssumption DEF IsRest
<1>3. Len(data') = i
  <2>1. 1 \in 1 .. Len(f) + 1 /\ i \in 1 - 1 .. Len(f)
    BY <1>2
  <2>2. Len(SubSeq(f, 1, i)) = i - 1 + 1
    BY <2>1, SubSeqIs
  <2> QED
    BY <1>2, <2>2
<1>4. Follows(f, j, long_frame', t)
  <2>1. CASE long_frame' = (b = FULL)
    <3>1. (b = FULL) <=> (j - i = FULL - 1)
      BY <1>1, <1>2
    <3> QED
      BY <1>1, <2>1, <3>1 DEF Follows
  <2>2. CASE long_frame' = FALSE /\ i # 0 /\ f[i] = 0
    <3>1. ~ (j < Len(f) /\ j - i = FULL - 1)
      <4> SUFFICES ASSUME j < Len(f), j - i = FULL - 1 PROVE FALSE
        OBVIOUS
      <4>1. i \in 1 .. Len(f) - FULL /\ i + FULL - 1 = j
        BY <1>2, <2>2
      <4>2. \A x \in i + 1 .. i + FULL - 1 : f[x] # 0
        BY <1>1, <4>1
      <4> QED
        BY <2>2, <4>1, <4>2 DEF HasFullBlockAfterZero
    <3> QED
      BY <1>1, <2>2, <3>1 DEF Follows
  <2> QED
    BY <2>1, <2>2
<1>5. j \in 0 .. Len(f) /\ Len(data') <= j
  BY <1>2, <1>3
<1>6. ReadingAt(j, t)'
  BY <1>1, <1>3, <1>4, <1>5 DEF ReadingAt
<1> QED
  BY <1>5, <1>6 DEF Reading

(* The first byte of the rest of a block, and what comes after it.         *)
LEMMA HeadOfBlock ==
  ASSUME NEW f \in Seq(Byte), NEW a \in 1 .. Len(f), NEW j \in a .. Len(f), NEW t \in Seq(Byte)
  PROVE  /\ Head(SubSeq(f, a, j) \o t) = f[a]
         /\ Tail(SubSeq(f, a, j) \o t) = SubSeq(f, a + 1, j) \o t
<1> DEFINE s == SubSeq(f, a + 1, j)
           h == f[a]
<1>1. SubSeq(f, a, j) = <<h>> \o s
  BY SubSeqRecursiveFirst
<1>2. h \in Byte
  OBVIOUS
<1>3. s \in Seq(Byte)
  <2>1. a + 1 \in 1 .. Len(f) + 1 /\ j \in (a + 1) - 1 .. Len(f)
    OBVIOUS
  <2> QED
    BY <2>1, SubSeqIs
<1> HIDE DEF s, h
<1>4. <<h>> \in Seq(Byte) /\ s \o t \in Seq(Byte)
  BY <1>2, <1>3
<1>5. (<<h>> \o s) \o t = <<h>> \o (s \o t)
  <2>1. ASSUME NEW g \in Seq(Byte) PROVE (g \o s) \o t = g \o (s \o t)
    <3>1. Moved(g, s, t)
      BY <1>3, Associative
    <3> QED
      BY <3>1 DEF Moved
  <2> QED
    BY <1>4, <2>1
<1>6. Head(<<h>> \o (s \o t)) = h /\ Tail(<<h>> \o (s \o t)) = s \o t
  BY <1>2, <1>4, HeadOf
<1> QED
  BY <1>1, <1>5, <1>6 DEF s, h

(* One more byte of a frame that has arrived unharmed so far: the receiver *)
(* is where the sender was.                                                *)
LEMMA WholeByte ==
  ASSUME StufferInv, Unharmed, NotBegun \/ Reading, NEW b \in Byte, b = Head(wire),
         wire' = Tail(wire), sending' = sending, byte_stuffer_recv_byte(b)
  PROVE  Reading' \/ (wire' = <<>> /\ delivered' = sending')
<1> DEFINE f == sending
           e == Len(data)
<1>0. /\ f \in Seq(Byte) /\ f # <<>> /\ data \in Seq(Byte) /\ e \in Nat
      /\ Len(f) \in Nat /\ Len(f) <= MAX_FRAME_SIZE /\ MAX_FRAME_SIZE \in Nat
      /\ ~ HasFullBlockAfterZero(f) /\ FULL \in Nat \ {0, 1} /\ next_zero \in Nat
  BY ByteStufferAssumption DEF StufferInv, Unharmed, StufferTypeOK, Byte
<1>1. CASE NotBegun
  <2>1. IsRest(f, 0, wire)
    BY <1>0, <1>1, FirstBlock DEF NotBegun
  <2>2. start_frame(b)
    BY <1>1 DEF NotBegun, byte_stuffer_recv_byte, FrameStart, FrameEnd, MisplacedZero,
                FrameTooLong, NextBlock, DataByte
  <2>3. SubSeq(f, 1, 0) = <<>>
    BY SubSeqEmpty
  <2>4. /\ next_zero' = b /\ long_frame' = (b = FULL) /\ data' = SubSeq(f, 1, 0)
        /\ delivered' = NO_FRAME
    BY <1>1, <2>2, <2>3 DEF start_frame, NotBegun
  <2> HIDE DEF f
  <2>5. sending' = f
    BY DEF f
  <2> QED
    BY <1>0, <2>1, <2>4, <2>5, Entering
<1>2. CASE Reading
  <2>1. PICK j \in 0 .. Len(f), t \in Seq(Byte) : ReadingAt(j, t)
    BY <1>2 DEF Reading
  <2>2. /\ e <= j /\ data = SubSeq(f, 1, e) /\ next_zero = j - e + 1
        /\ wire = SubSeq(f, e + 1, j) \o t
        /\ \A x \in e + 1 .. j : f[x] # 0
        /\ Follows(f, j, long_frame, t) /\ delivered = NO_FRAME
    BY <2>1 DEF ReadingAt
  <2> HIDE DEF f, e
  <2>3. CASE e < j
    <3>1. e + 1 \in 1 .. Len(f) /\ j \in e + 1 .. Len(f)
      BY <1>0, <2>1, <2>3
    <3>2. b = f[e + 1] /\ wire' = SubSeq(f, (e + 1) + 1, j) \o t
      <4> DEFINE a == e + 1
      <4>1. a \in 1 .. Len(f) /\ j \in a .. Len(f) /\ f \in Seq(Byte) /\ t \in Seq(Byte)
        BY <1>0, <2>1, <3>1
      <4>2. wire = SubSeq(f, a, j) \o t
        BY <2>2
      <4> HIDE DEF a
      <4>3. Head(wire) = f[a] /\ Tail(wire) = SubSeq(f, a + 1, j) \o t
        BY <4>1, <4>2, HeadOfBlock
      <4> QED
        BY <4>3 DEF a
    <3>3. b # 0 /\ next_zero > 1 /\ e # MAX_FRAME_SIZE /\ next_zero # 0 /\ next_zero # 1
      <4>1. b # 0
        <5>1. e + 1 \in e + 1 .. j
          BY <1>0, <3>1
        <5> QED
          BY <2>2, <3>2, <5>1
      <4>2. e < MAX_FRAME_SIZE
        BY <1>0, <2>3
      <4>3. next_zero > 1
        BY <1>0, <2>2, <2>3
      <4> QED
        BY <1>0, <4>1, <4>2, <4>3
    <3>4. DataByte(b)
      BY <3>3 DEF byte_stuffer_recv_byte, FrameStart, FrameEnd, MisplacedZero,
                  FrameTooLong, NextBlock, DataByte, e
    <3>5. /\ next_zero' = next_zero - 1 /\ data' = Append(data, b)
          /\ long_frame' = long_frame /\ delivered' = delivered
      BY <3>4 DEF DataByte
    <3>6. data' = SubSeq(f, 1, e + 1)
      <4>1. 1 \in 1 .. Len(f) + 1 /\ e \in 1 - 1 .. Len(f) /\ e < Len(f)
        BY <1>0, <3>1
      <4>2. SubSeq(f, 1, e + 1) = Append(SubSeq(f, 1, e), f[e + 1])
        BY <1>0, <4>1, SubSeqIs
      <4> QED
        BY <2>2, <3>2, <3>5, <4>2
    <3>7. Len(data') = e + 1
      BY <1>0, <3>5 DEF e
    <3>8. next_zero' = j - (e + 1) + 1 /\ e + 1 <= j
      BY <1>0, <2>1, <2>2, <2>3, <3>5
    <3>9. \A x \in (e + 1) + 1 .. j : f[x] # 0
      BY <1>0, <2>2
    <3>10. sending' = f
      BY DEF f
    <3>11. ReadingAt(j, t)'
      BY <2>2, <3>2, <3>5, <3>6, <3>7, <3>8, <3>9, <3>10 DEF ReadingAt
    <3> QED
      BY <2>1, <3>10, <3>11 DEF Reading
  <2>4. CASE e = j
    <3>1. wire = t /\ next_zero = 1
      <4>1. SubSeq(f, e + 1, j) = <<>>
        BY <1>0, <2>4, SubSeqEmpty
      <4>2. <<>> \o t = t
        BY <2>1, ConcatEmptySeq
      <4> QED
        BY <1>0, <2>2, <2>4, <4>1, <4>2
    <3>2. CASE j < Len(f) /\ long_frame /\ IsRest(f, j, t)
      <4>1. b # 0 /\ e # MAX_FRAME_SIZE
        BY <1>0, <2>1, <2>4, <3>1, <3>2, NextLength
      <4>2. NextBlock(b)
        BY <3>1, <4>1 DEF byte_stuffer_recv_byte, FrameStart, FrameEnd, MisplacedZero,
                          FrameTooLong, NextBlock, DataByte, e
      <4>3. /\ next_zero' = b /\ long_frame' = (b = FULL) /\ data' = data
            /\ delivered' = delivered
        BY <3>2, <4>2 DEF NextBlock
      <4>4. data' = SubSeq(f, 1, j) /\ delivered' = NO_FRAME
        BY <2>2, <2>4, <4>3
      <4>5. sending' = f
        BY DEF f
      <4> QED
        BY <1>0, <3>1, <3>2, <4>3, <4>4, <4>5, Entering
    <3>3. CASE j < Len(f) /\ ~ long_frame /\ f[j + 1] = 0 /\ IsRest(f, j + 1, t)
      <4>1. b # 0 /\ e # MAX_FRAME_SIZE
        BY <1>0, <2>1, <2>4, <3>1, <3>3, NextLength
      <4>2. NextBlock(b)
        BY <3>1, <4>1 DEF byte_stuffer_recv_byte, FrameStart, FrameEnd, MisplacedZero,
                          FrameTooLong, NextBlock, DataByte, e
      <4>3. /\ next_zero' = b /\ long_frame' = long_frame /\ data' = Append(data, 0)
            /\ delivered' = delivered
        BY <3>3, <4>2 DEF NextBlock
      <4>4. long_frame' = FALSE
        BY <3>3, <4>3 DEF StufferInv, StufferTypeOK
      <4>5. data' = SubSeq(f, 1, j + 1)
        <5>1. 1 \in 1 .. Len(f) + 1 /\ j \in 1 - 1 .. Len(f)
          BY <1>0, <2>1
        <5>2. SubSeq(f, 1, j + 1) = Append(SubSeq(f, 1, j), f[j + 1])
          BY <1>0, <3>3, <5>1, SubSeqIs
        <5> QED
          BY <2>2, <2>4, <3>3, <4>3, <5>2
      <4>6. sending' = f /\ delivered' = NO_FRAME
        BY <2>2, <4>3 DEF f
      <4>7. j + 1 # 0
        BY <2>1
      <4> QED
        BY <1>0, <3>1, <3>3, <4>3, <4>4, <4>5, <4>6, <4>7, Entering
    <3>4. CASE j = Len(f) /\ t = <<0>>
      <4>1. b = 0 /\ wire' = <<>>
        BY <3>1, <3>4
      <4>2. FrameEnd(b)
        BY <3>1, <4>1 DEF byte_stuffer_recv_byte, FrameStart, FrameEnd, MisplacedZero,
                          FrameTooLong, NextBlock, DataByte
      <4>3. data = f
        BY <1>0, <2>2, <2>4, <3>4, SubSeqFull
      <4>4. delivered' = f
        BY <1>0, <4>2, <4>3 DEF FrameEnd
      <4> QED
        BY <4>1, <4>4 DEF f
    <3> QED
      BY <2>2, <3>2, <3>3, <3>4 DEF Follows
  <2>5. e < j \/ e = j
    BY <1>0, <2>1, <2>2
  <2> QED
    BY <2>3, <2>4, <2>5
<1> QED
  BY <1>1, <1>2

(* A frame that began after a zero finds the receiver at the start of a    *)
(* frame; from there on the receiver follows it.                           *)
LEMMA StufferInductive ==
  StufferInv /\ StufferTypeOK' /\ [StufferNext]_stuffer_vars => StufferInv'
<1> SUFFICES ASSUME StufferInv, StufferTypeOK', [StufferNext]_stuffer_vars
             PROVE  StufferInv'
  OBVIOUS
<1>1. ASSUME NEW f \in Frame, byte_stuffer_send_frame(f) PROVE StufferInv'
  <2>1. /\ wire' = Stuffed(f) /\ sending' = f /\ delivered' = NO_FRAME /\ intact' = after_zero
        /\ next_zero' = next_zero /\ after_zero' = after_zero
    BY <1>1 DEF byte_stuffer_send_frame, receiver_vars
  <2>2. Unharmed' => NotBegun'
    BY <2>1 DEF Unharmed, NotBegun, StufferInv
  <2> QED
    BY <2>1, <2>2 DEF StufferInv
<1>2. ASSUME NEW b \in Byte, Arrive(b) PROVE StufferInv'
  <2>1. /\ wire # <<>> /\ wire' = Tail(wire) /\ intact' = (intact /\ b = Head(wire))
        /\ after_zero' = (b = 0) /\ sending' = sending /\ byte_stuffer_recv_byte(b)
    BY <1>2 DEF Arrive
  <2>2. after_zero' => next_zero' = 0
    <3>1. CASE b = 0
      BY <2>1, <3>1 DEF byte_stuffer_recv_byte, FrameStart, FrameEnd, MisplacedZero,
                        FrameTooLong, NextBlock, DataByte, start_frame
    <3>2. CASE b # 0
      BY <2>1, <3>2
    <3> QED
      BY <3>1, <3>2
  <2>3. intact' => sending' \in Frame
    BY <2>1 DEF StufferInv
  <2>4. ASSUME Unharmed' PROVE Reading' \/ (wire' = <<>> /\ delivered' = sending')
    <3>1. Unharmed /\ b = Head(wire)
      BY <2>1, <2>4 DEF Unharmed
    <3>2. NotBegun \/ Reading
      BY <2>1, <3>1 DEF StufferInv
    <3> QED
      BY <2>1, <3>1, <3>2, WholeByte
  <2> QED
    BY <2>2, <2>3, <2>4 DEF StufferInv
<1>3. CASE Lose
  BY <1>3 DEF StufferInv, Lose, Unharmed, receiver_vars
<1>4. CASE UNCHANGED stuffer_vars
  <2>1. /\ StufferTypeOK' /\ Unharmed' = Unharmed /\ NotBegun' = NotBegun /\ Reading' = Reading
        /\ wire' = wire /\ delivered' = delivered /\ sending' = sending /\ intact' = intact
        /\ next_zero' = next_zero /\ after_zero' = after_zero
    BY <1>4 DEF stuffer_vars, receiver_vars, Unharmed, NotBegun, Reading, ReadingAt
  <2> QED
    BY <2>1 DEF StufferInv
<1> QED
  BY <1>1, <1>2, <1>3, <1>4 DEF StufferNext

(* Before its last byte a frame is not delivered, after it it is.          *)
LEMMA StufferInvImplies ==
  StufferInv => IntactFrameIsDelivered
<1> SUFFICES ASSUME StufferInv, Unharmed
             PROVE  delivered = IF wire = <<>> THEN sending ELSE NO_FRAME
  BY DEF IntactFrameIsDelivered, Unharmed
<1>0. sending \in Seq(Byte) /\ sending # <<>>
  BY ByteStufferAssumption DEF StufferInv, Unharmed
<1>1. CASE NotBegun
  <2>1. IsRest(sending, 0, wire)
    BY <1>0, <1>1, FirstBlock DEF NotBegun
  <2>2. wire # <<>>
    BY <1>0, <2>1, NextLength
  <2> QED
    BY <1>1, <2>2 DEF NotBegun
<1>2. CASE Reading
  <2>1. PICK j \in 0 .. Len(sending), t \in Seq(Byte) : ReadingAt(j, t)
    BY <1>2 DEF Reading
  <2>2. t # <<>>
    <3>1. Follows(sending, j, long_frame, t)
      BY <2>1 DEF ReadingAt
    <3>2. IsRest(sending, j, t) \/ IsRest(sending, j + 1, t) \/ t = <<0>>
      BY <3>1 DEF Follows
    <3>3. IsRest(sending, j, t) => t # <<>>
      BY <1>0, NextLength, Zenon
    <3>4. IsRest(sending, j + 1, t) => t # <<>>
      BY <1>0, NextLength, Zenon
    <3> QED
      BY <3>2, <3>3, <3>4
  <2>3. wire = SubSeq(sending, Len(data) + 1, j) \o t /\ delivered = NO_FRAME
    BY <2>1 DEF ReadingAt
  <2>4. SubSeq(sending, Len(data) + 1, j) \in Seq(Byte)
    <3>0. data \in Seq(Byte)
      BY DEF StufferInv, StufferTypeOK
    <3>1. Len(data) \in Nat /\ Len(data) <= j
      BY <2>1, <3>0 DEF ReadingAt
    <3>2. Len(data) + 1 \in 1 .. Len(sending) + 1 /\ j \in (Len(data) + 1) - 1 .. Len(sending)
      BY <1>0, <2>1, <3>1
    <3> QED
      BY <1>0, <3>2, SubSeqIs
  <2>5. wire # <<>>
    BY <2>1, <2>2, <2>3, <2>4, ConcatEqualIffEmpty
  <2> QED
    BY <2>3, <2>5
<1> QED
  BY <1>1, <1>2 DEF StufferInv

(* A frame that follows a zero, fits and arrives unharmed is handed to the *)
(* validator exactly as it was sent, with its last byte and not before, for*)
(* every length of a full block, every buffer and all frames that have no  *)
(* full block after a zero.                                                *)
THEOREM IntactFramesArrive == StufferSpec => []IntactFrameIsDelivered
<1>1. StufferInit => StufferInv
  BY StufferTypeInit DEF StufferInit, StufferInv, Unharmed
<1>2. StufferInv /\ [StufferNext]_stuffer_vars => StufferInv'
  BY StufferTypeInductive, StufferInductive DEF StufferInv
<1> QED
  BY <1>1, <1>2, StufferInvImplies, PTL DEF StufferSpec
================================================================================
