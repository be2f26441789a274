---------------------------- MODULE TermDriverProofs ----------------------------
(****************************************************************************)
(* What the driver of phase 1 prints and reads, for strings and lines of    *)
(* any length.                                                              *)
(****************************************************************************)
EXTENDS TermDriver, SequenceTheorems, TLAPS

(* The number of characters of asked that have been given to the terminal.  *)
given == Len(asked) - Len(str)

(* A half of the terminal is only busy, or has an answer to be acknowledged,*)
(* while the driver is in its loop on that status.                          *)
PollingInv ==
  /\ transm_status \in IF at = "putchar" THEN {"busy", "done", "error"} ELSE {"ready", "off"}
  /\ recv_status \in IF at = "receiving" THEN {"busy", "done", "error"} ELSE {"ready", "off"}

(* str is the end of asked, printed its beginning, and nothing is missing   *)
(* in between but the character that is being shown, until the terminal     *)
(* fails.                                                                   *)
PutInv ==
  /\ Len(str) <= Len(asked)
  /\ \A j \in 1 .. Len(str) : str[j] = asked[given + j]
  /\ Len(printed) <= given
  /\ \A j \in 1 .. Len(printed) : printed[j] = asked[j]
  /\ at = "puts" => ~ failed /\ Len(printed) = given
  /\ at = "putchar" =>
       /\ transm_status = "busy" => ~ failed /\ Len(printed) = given - 1
       /\ transm_status = "done" => ~ failed /\ Len(printed) = given
       /\ transm_status = "error" => failed
  /\ at \notin {"puts", "putchar"} =>
       failed \/ transm_status = "off" \/ Len(printed) = Len(asked)

(* What term_gets has stored, the nul left out.                             *)
text == SubSeq(line, 1, i)

(* typed is text, with the character that has arrived but is not stored, as *)
(* long as no reception fails; when term_gets has returned, the nul is      *)
(* behind it.                                                               *)
GetInv ==
  /\ at \in {"gets", "getchar", "receiving"} => line = text
  /\ at \in {"caller", "puts", "putchar"} => line = <<>> \/ line = Append(text, nul)
  /\ Len(text) = i /\ newline \notin ToSet(text)
  /\ recv_status # "off" /\ error \notin ToSet(text) =>
       /\ at = "getchar" => typed = text
       /\ at = "receiving" =>
            typed = IF recv_status = "done" THEN Append(text, recv_char) ELSE text
       /\ at = "gets" => c = error \/ typed = Append(text, c)
       /\ at \in {"caller", "puts", "putchar"} =>
            \/ typed = <<>> \/ c = error
            \/ typed = Append(text, c) /\ (c = newline \/ Len(text) = n)

DriverInv == DriverTypeOK /\ PollingInv /\ PutInv /\ GetInv

LEMMA DriverTypes ==
  ASSUME DriverInv
  PROVE  /\ MaxLength \in Nat /\ newline \in Char /\ error \notin Char
         /\ str \in Seq(Char) /\ printed \in Seq(Char) /\ asked \in Seq(Char)
         /\ typed \in Seq(Char) /\ line \in Seq(Char \cup {error, nul})
         /\ Len(str) \in Nat /\ Len(printed) \in Nat /\ Len(asked) \in Nat
         /\ given \in Nat /\ Len(str) = Len(asked) - given
         /\ n \in 0 .. MaxLength /\ i \in 0 .. n
         /\ c \in Char \cup {error} /\ recv_char \in Char /\ failed \in BOOLEAN
         /\ at \in {"caller", "puts", "putchar", "gets", "getchar", "receiving"}
         /\ transm_status \in Status /\ recv_status \in Status
  BY TermAssumption DEF DriverInv, DriverTypeOK, PutInv, given

LEMMA EmptySeqSet == ToSet(<<>>) = {}
  BY DEF ToSet

LEMMA InitDriverInv == DriverInit => DriverInv
<1>. SUFFICES ASSUME DriverInit PROVE DriverInv
  OBVIOUS
<1>1. DriverTypeOK
  <2>1. <<>> \in Seq(Char) /\ <<>> \in Seq(Char \cup {error, nul})
    OBVIOUS
  <2>2. {str, printed, asked, typed} \subseteq Seq(Char) /\ line \in Seq(Char \cup {error, nul})
    BY <2>1 DEF DriverInit
  <2>3. transm_status \in Status /\ recv_status \in Status
    BY DEF DriverInit, Status
  <2>4. at = "caller" /\ recv_char \in Char /\ c \in Char \cup {error}
        /\ n \in 0 .. MaxLength /\ i \in 0 .. n
    BY TermAssumption DEF DriverInit
  <2>5. failed \in BOOLEAN
    BY Zenon DEF DriverInit
  <2>. QED
    BY <2>2, <2>3, <2>4, <2>5 DEF DriverTypeOK
<1>2. PollingInv /\ PutInv
  BY DEF DriverInit, PollingInv, PutInv, given
<1>3. GetInv
  <2>1. line = <<>> /\ i = 0 /\ at = "caller" /\ typed = <<>> /\ text = <<>>
    BY DEF DriverInit, text
  <2>2. ToSet(text) = {}
    BY <2>1, EmptySeqSet
  <2>. QED
    BY <2>1, <2>2 DEF GetInv
<1>. QED
  BY <1>1, <1>2, <1>3 DEF DriverInv

(* What neither term_puts nor the transmitter touches.                      *)
LEMMA GetKept ==
  ASSUME DriverInv, UNCHANGED getVars,
         \/ at' = at
         \/ at \in {"caller", "puts", "putchar"} /\ at' \in {"caller", "puts", "putchar"}
  PROVE  GetInv'
  BY DEF DriverInv, GetInv, getVars, ToSet, text

LEMMA PutKept ==
  ASSUME DriverInv, UNCHANGED putVars,
         \/ at' = at
         \/ at \notin {"puts", "putchar"} /\ at' \notin {"puts", "putchar"}
  PROVE  PutInv'
  BY DEF DriverInv, PutInv, putVars, given

(* One more character is shown: the one that was given last.                *)
LEMMA TransmitInv == DriverInv /\ Transmit => DriverInv'
<1>. SUFFICES ASSUME DriverInv, Transmit PROVE DriverInv'
  OBVIOUS
<1>1. /\ at = "putchar" /\ at' = at /\ ~ failed /\ Len(printed) = given - 1
      /\ str' = str /\ asked' = asked /\ given' = given /\ UNCHANGED getVars
  BY DriverTypes DEF Transmit, DriverInv, PollingInv, PutInv, given
<1>2. GetInv'
  BY <1>1, GetKept
<1>3. CASE transm_status' = "done" /\ printed' = Append(printed, asked[given])
           /\ failed' = failed
  <2>1. given \in 1 .. Len(asked) /\ asked[given] \in Char
    BY <1>1, DriverTypes DEF DriverInv, PutInv, given
  <2>2. /\ printed' \in Seq(Char) /\ Len(printed') = given
        /\ \A j \in 1 .. Len(printed') : printed'[j] = asked[j]
    BY <1>1, <1>3, <2>1, DriverTypes DEF DriverInv, PutInv
  <2>3. PutInv'
    BY <1>1, <1>3, <2>2 DEF DriverInv, PutInv, given
  <2>. QED
    BY <1>1, <1>2, <1>3, <2>2, <2>3
       DEF DriverInv, DriverTypeOK, PollingInv, getVars, Status
<1>4. CASE transm_status' = "error" /\ failed' = TRUE /\ printed' = printed
  BY <1>1, <1>2, <1>4
     DEF DriverInv, DriverTypeOK, PollingInv, PutInv, getVars, given, Status
<1>. QED
  BY <1>3, <1>4 DEF Transmit, given

LEMMA ReceiveInv == DriverInv /\ Receive => DriverInv'
<1>. SUFFICES ASSUME DriverInv, Receive PROVE DriverInv'
  OBVIOUS
<1>1. at = "receiving" /\ at' = at /\ UNCHANGED <<putVars, n, i, c, line>>
  BY DriverTypes DEF Receive, DriverInv, PollingInv
<1>2. PutInv'
  BY <1>1, PutKept
<1>3. CASE recv_status' = "done" /\ recv_char' \in Char /\ typed' = Append(typed, recv_char')
  <2>1. typed' \in Seq(Char)
    BY <1>3, DriverTypes, AppendProperties
  <2>2. GetInv'
    BY <1>1, <1>3 DEF DriverInv, GetInv, PollingInv, Receive, ToSet, text
  <2>. QED
    BY <1>1, <1>2, <1>3, <2>1, <2>2 DEF DriverInv, DriverTypeOK, PollingInv, putVars, Status
<1>4. CASE recv_status' = "error" /\ UNCHANGED <<recv_char, typed>>
  <2>1. GetInv'
    BY <1>1, <1>4 DEF DriverInv, GetInv, PollingInv, Receive, ToSet, text
  <2>. QED
    BY <1>1, <1>2, <1>4, <2>1 DEF DriverInv, DriverTypeOK, PollingInv, putVars, Status
<1>. QED
  BY <1>3, <1>4 DEF Receive

LEMMA TermPutsInv == DriverInv /\ term_puts => DriverInv'
<1>. SUFFICES ASSUME DriverInv, term_puts PROVE DriverInv'
  OBVIOUS
<1>1. str' \in Seq(Char)
  <2>1. PICK m \in 0 .. MaxLength : str' \in [1 .. m -> Char]
    BY DEF term_puts, BoundedSeq, SeqOf
  <2>2. m \in Nat
    BY <2>1, DriverTypes
  <2>. QED
    BY <2>1, <2>2
<1>2. GetInv'
  BY GetKept DEF term_puts
<1>3. PutInv'
  BY <1>1 DEF term_puts, PutInv, given
<1>4. DriverTypeOK'
  <2>1. {str', printed', asked', typed'} \subseteq Seq(Char)
    BY <1>1, DriverTypes DEF term_puts, getVars
  <2>2. failed' \in BOOLEAN
    BY Zenon DEF term_puts
  <2>3. at' = "puts" /\ UNCHANGED <<transm_status, getVars>>
    BY DEF term_puts
  <2>. QED
    BY <2>1, <2>2, <2>3 DEF DriverInv, DriverTypeOK, getVars
<1>. QED
  BY <1>2, <1>3, <1>4 DEF DriverInv, PollingInv, term_puts, getVars

LEMMA PutsEndInv == DriverInv /\ puts_end => DriverInv'
<1>. SUFFICES ASSUME DriverInv, puts_end PROVE DriverInv'
  OBVIOUS
<1>1. GetInv'
  BY GetKept DEF puts_end
<1>2. PutInv'
  BY DriverTypes DEF DriverInv, PutInv, puts_end, putVars, given
<1>. QED
  BY <1>1, <1>2 DEF DriverInv, DriverTypeOK, PollingInv, puts_end, getVars, putVars

(* A character is given to the terminal, unless there is none.              *)
LEMMA TermPutcharInv == DriverInv /\ term_putchar => DriverInv'
<1>. SUFFICES ASSUME DriverInv, term_putchar PROVE DriverInv'
  OBVIOUS
<1>1. GetInv'
  BY GetKept DEF term_putchar
<1>2. /\ str' \in Seq(Char) /\ Len(str') = Len(str) - 1
      /\ \A j \in 1 .. Len(str') : str'[j] = str[j + 1]
      /\ given' = given + 1
  BY DriverTypes DEF term_putchar, given
<1>3. ASSUME NEW j \in 1 .. Len(str')
      PROVE  str'[j] = asked[given' + j]
  <2>1. j + 1 \in 1 .. Len(str) /\ given + (j + 1) = given' + j
    BY <1>2, DriverTypes
  <2>. QED
    BY <1>2, <2>1 DEF DriverInv, PutInv
<1>4. PutInv'
  BY <1>2, <1>3, DriverTypes DEF DriverInv, PutInv, PollingInv, term_putchar, Status
<1>. QED
  BY <1>1, <1>2, <1>4 DEF DriverInv, DriverTypeOK, PollingInv, term_putchar, getVars, Status

LEMMA TxAcknowledgeInv == DriverInv /\ tx_acknowledge => DriverInv'
<1>. SUFFICES ASSUME DriverInv, tx_acknowledge PROVE DriverInv'
  OBVIOUS
<1>1. GetInv'
  BY GetKept DEF tx_acknowledge
<1>2. PutInv'
  BY DEF DriverInv, PutInv, PollingInv, tx_acknowledge, given
<1>. QED
  BY <1>1, <1>2 DEF DriverInv, DriverTypeOK, PollingInv, tx_acknowledge, getVars, Status

LEMMA TermGetsInv == DriverInv /\ term_gets => DriverInv'
<1>. SUFFICES ASSUME DriverInv, term_gets PROVE DriverInv'
  OBVIOUS
<1>1. PutInv'
  BY PutKept DEF term_gets
<1>2. GetInv'
  <2>1. line' = <<>> /\ i' = 0 /\ at' = "getchar" /\ typed' = <<>> /\ text' = <<>>
    BY DEF term_gets, text
  <2>2. ToSet(text') = {}
    BY <2>1, EmptySeqSet
  <2>. QED
    BY <2>1, <2>2 DEF GetInv
<1>. QED
  BY <1>1, <1>2, DriverTypes DEF DriverInv, DriverTypeOK, PollingInv, term_gets, putVars

LEMMA TermGetcharInv == DriverInv /\ term_getchar => DriverInv'
<1>. SUFFICES ASSUME DriverInv, term_getchar PROVE DriverInv'
  OBVIOUS
<1>1. PutInv'
  BY PutKept DEF term_getchar
<1>2. GetInv'
  BY DEF DriverInv, term_getchar, GetInv, PollingInv, ToSet, text
<1>. QED
  BY <1>1, <1>2 DEF DriverInv, DriverTypeOK, PollingInv, term_getchar, putVars, Status

LEMMA RxAcknowledgeInv == DriverInv /\ rx_acknowledge => DriverInv'
<1>. SUFFICES ASSUME DriverInv, rx_acknowledge PROVE DriverInv'
  OBVIOUS
<1>1. PutInv'
  BY PutKept DEF rx_acknowledge
<1>2. GetInv'
  BY DEF DriverInv, rx_acknowledge, GetInv, PollingInv, ToSet, text
<1>. QED
  BY <1>1, <1>2 DEF DriverInv, DriverTypeOK, PollingInv, rx_acknowledge, putVars, Status

LEMMA WholeSeq ==
  ASSUME NEW S, NEW s \in Seq(S)
  PROVE  SubSeq(s, 1, Len(s)) = s
  BY SubSeqProperties, SeqEqual

LEMMA FrontOfAppend ==
  ASSUME NEW S, NEW s \in Seq(S), NEW e \in S
  PROVE  SubSeq(Append(s, e), 1, Len(s)) = s
<1>1. /\ Append(s, e) \in Seq(S) /\ Len(Append(s, e)) = Len(s) + 1
      /\ \A j \in 1 .. Len(s) : Append(s, e)[j] = s[j]
  BY AppendProperties
<1>2. /\ SubSeq(Append(s, e), 1, Len(s)) \in Seq(S)
      /\ Len(SubSeq(Append(s, e), 1, Len(s))) = Len(s)
      /\ \A j \in 1 .. Len(s) : SubSeq(Append(s, e), 1, Len(s))[j] = Append(s, e)[j]
  BY <1>1, SubSeqProperties
<1>. QED
  BY <1>1, <1>2, SeqEqual

(* A character that is no newline is stored, or the nul is and the call     *)
(* returns.                                                                 *)
LEMMA GetsLoopInv == DriverInv /\ gets_loop => DriverInv'
<1>. SUFFICES ASSUME DriverInv, gets_loop PROVE DriverInv'
  OBVIOUS
<1>1. PutInv'
  BY PutKept DEF gets_loop
<1>2. line = text /\ Len(line) = i
  BY DEF DriverInv, GetInv, gets_loop
<1>3. CASE i < n /\ c # newline
  <2>1. /\ line' = Append(line, c) /\ i' = i + 1 /\ at = "gets" /\ at' = "getchar"
        /\ UNCHANGED <<n, c, typed, recv_status, recv_char>>
        /\ i + 1 \in 0 .. n
    BY <1>3, DriverTypes DEF gets_loop
  <2>2. /\ line' \in Seq(Char \cup {error, nul}) /\ Len(line') = i + 1
        /\ \A j \in 1 .. i : line'[j] = line[j]
        /\ line'[i + 1] = c
    BY <1>2, <2>1, DriverTypes, AppendProperties
  <2>3. text' = line'
    BY <2>1, <2>2, WholeSeq DEF text
  <2>4. ToSet(line') = ToSet(line) \cup {c}
    BY <1>2, <2>1, <2>2, DriverTypes DEF ToSet
  <2>6. newline \notin ToSet(text') /\ Len(text') = i'
    BY <1>2, <1>3, <2>1, <2>2, <2>3, <2>4 DEF DriverInv, GetInv
  <2>5. GetInv'
    BY <1>2, <1>3, <2>1, <2>3, <2>4, <2>6 DEF DriverInv, GetInv
  <2>. QED
    BY <1>1, <2>1, <2>2, <2>5 DEF DriverInv, DriverTypeOK, PollingInv, gets_loop, putVars
<1>4. CASE ~ (i < n /\ c # newline)
  <2>1. /\ line' = Append(line, nul) /\ UNCHANGED <<i, n, c, typed, recv_status>>
        /\ at = "gets" /\ at' = "caller" /\ (c = newline \/ i = n)
    BY <1>4, DriverTypes DEF gets_loop
  <2>2. line' \in Seq(Char \cup {error, nul})
    BY <2>1, DriverTypes, AppendProperties
  <2>3. text' = text
    BY <1>2, <2>1, DriverTypes, FrontOfAppend DEF text
  <2>4. GetInv'
    BY <1>2, <2>1, <2>3 DEF DriverInv, GetInv, ToSet
  <2>. QED
    BY <1>1, <1>4, <2>1, <2>2, <2>4 DEF DriverInv, DriverTypeOK, PollingInv, gets_loop, putVars
<1>. QED
  BY <1>3, <1>4

LEMMA NextDriverInv == DriverInv /\ [DriverNext]_driverVars => DriverInv'
<1>1. DriverInv /\ UNCHANGED driverVars => DriverInv'
  BY DEF DriverInv, DriverTypeOK, PollingInv, PutInv, GetInv, driverVars, putVars, getVars,
         given, ToSet, text
<1>. QED
  BY <1>1, TransmitInv, ReceiveInv, TermPutsInv, PutsEndInv, TermPutcharInv,
     TxAcknowledgeInv, TermGetsInv, TermGetcharInv, RxAcknowledgeInv, GetsLoopInv
     DEF DriverNext, Driver

(* The variables of the driver keep their types: term_gets stores no more   *)
(* than the characters it was given room for.                               *)
THEOREM DriverTypeCorrect == DriverSpec => []DriverTypeOK
<1>1. DriverInv => DriverTypeOK
  BY DEF DriverInv
<1>. QED
  BY <1>1, InitDriverInv, NextDriverInv, PTL DEF DriverSpec

(* term_puts shows what it was given, in order and each character once, up  *)
(* to a failure of the terminal.                                            *)
THEOREM PutsStayInOrder == DriverSpec => []PutsInOrder
<1>1. ASSUME DriverInv
      PROVE  PutsInOrder
  <2>1. IsPrefix(printed, asked)
    <3>1. /\ Len(printed) <= Len(asked) /\ Len(printed) \in Nat /\ Len(asked) \in Nat
          /\ \A j \in 1 .. Len(printed) : printed[j] = asked[j]
      BY <1>1, DriverTypes DEF DriverInv, PutInv, given
    <3>2. /\ SubSeq(asked, 1, Len(printed)) \in Seq(Char)
          /\ Len(SubSeq(asked, 1, Len(printed))) = Len(printed)
          /\ \A j \in 1 .. Len(printed) : SubSeq(asked, 1, Len(printed))[j] = asked[j]
      BY <1>1, <3>1, DriverTypes, SubSeqProperties
    <3>3. SubSeq(asked, 1, Len(printed)) = printed
      BY <1>1, <3>1, <3>2, DriverTypes, SeqEqual
    <3>4. SubSeq(printed, 1, Len(printed)) = printed
      BY <1>1, DriverTypes, WholeSeq
    <3>. QED
      BY <3>1, <3>3, <3>4 DEF IsPrefix
  <2>2. ASSUME at = "caller", ~ failed, transm_status # "off"
        PROVE  printed = asked
    <3>1. Len(printed) = Len(asked) /\ \A j \in 1 .. Len(asked) : printed[j] = asked[j]
      BY <1>1, <2>2 DEF DriverInv, PutInv
    <3>. QED
      BY <1>1, <3>1, DriverTypes, SeqEqual
  <2>. QED
    BY <2>1, <2>2 DEF PutsInOrder
<1>. QED
  BY <1>1, InitDriverInv, NextDriverInv, PTL DEF DriverSpec

(* term_gets stores what was typed up to the newline, or as much as fits.   *)
THEOREM LinesAreGot == DriverSpec => []GetsLine
<1>1. ASSUME DriverInv
      PROVE  GetsLine
  <2>1. SUFFICES ASSUME at = "caller", line # <<>>
                 PROVE  /\ Last(line) = nul /\ Front(line) = text
    BY <1>1, DriverTypes DEF DriverInv, GetInv, GetsLine
  <2>2. line = Append(text, nul) /\ Len(text) = i
    BY <1>1, <2>1 DEF DriverInv, GetInv
  <2>3. text \in Seq(Char \cup {error, nul})
    BY <1>1, <2>2, DriverTypes, SubSeqProperties DEF text
  <2>. QED
    BY <2>2, <2>3, FrontOfAppend, AppendProperties DEF Last, Front
<1>. QED
  BY <1>1, InitDriverInv, NextDriverInv, PTL DEF DriverSpec
==============================================================================
