------------------------------- MODULE TermDriver -------------------------------
(****************************************************************************)
(* The polling driver of terminal 0, termfunc.c: term_puts and term_gets,   *)
(* called one at a time by a program that runs with interrupts disabled,    *)
(* and the two halves of the terminal.  The driver and the terminal take    *)
(* turns at the status registers.                                           *)
(****************************************************************************)
EXTENDS Integers, SequencesExt

CONSTANTS
  Char,         \* characters, newline among them
  newline,
  error,        \* the -1 of a failed term_getchar
  nul,          \* the '\0' that ends a string
  MaxLength     \* bound of the model: of a string to print, of a line to read

ASSUME TermAssumption == newline \in Char /\ error \notin Char /\ MaxLength \in Nat

Status == {"ready", "busy", "done", "error", "off"}

VARIABLES
  at,                        \* the function that runs, "caller" when none does
  transm_status, recv_status,
  recv_char,                 \* character in recv_status
  str,                       \* term_puts: characters left
  n, i, c, line,             \* term_gets: its variables, and what it has stored, the nul included
  printed, asked,            \* characters the terminal has shown, and has been given to show
  typed,                     \* characters received during term_gets
  failed                     \* has the transmitter failed during term_puts?

putVars == <<transm_status, str, printed, asked, failed>>
getVars == <<recv_status, recv_char, n, i, c, line, typed>>
driverVars == <<at, putVars, getVars>>

DriverTypeOK ==
  /\ at \in {"caller", "puts", "putchar", "gets", "getchar", "receiving"}
  /\ transm_status \in Status /\ recv_status \in Status
  /\ recv_char \in Char /\ c \in Char \cup {error}
  /\ {str, printed, asked, typed} \subseteq Seq(Char)
  /\ line \in Seq(Char \cup {error, nul})
  /\ n \in 0 .. MaxLength /\ i \in 0 .. n
  /\ failed \in BOOLEAN

DriverInit ==
  /\ at = "caller"
  /\ transm_status \in {"ready", "off"} /\ recv_status \in {"ready", "off"}
  /\ recv_char = newline /\ c = newline
  /\ str = <<>> /\ printed = <<>> /\ asked = <<>>
  /\ n = 0 /\ i = 0 /\ line = <<>> /\ typed = <<>>
  /\ failed = FALSE
------------------------------------------------------------------------------
(* The terminal: a transmission or a reception ends.                        *)
Transmit ==
  /\ transm_status = "busy"
  /\ \/ /\ transm_status' = "done"
        /\ printed' = Append(printed, asked[Len(asked) - Len(str)])
        /\ UNCHANGED failed
     \/ /\ transm_status' = "error"
        /\ failed' = TRUE
        /\ UNCHANGED printed
  /\ UNCHANGED <<at, str, asked, getVars>>

Receive ==
  /\ recv_status = "busy"
  /\ \/ /\ recv_status' = "done"
        /\ recv_char' \in Char
        /\ typed' = Append(typed, recv_char')
     \/ recv_status' = "error" /\ UNCHANGED <<recv_char, typed>>
  /\ UNCHANGED <<at, putVars, n, i, c, line>>
------------------------------------------------------------------------------
term_puts ==
  /\ at = "caller"
  /\ at' = "puts"
  /\ str' \in BoundedSeq(Char, MaxLength)
  /\ asked' = str'
  /\ printed' = <<>>
  /\ failed' = FALSE
  /\ UNCHANGED <<transm_status, getVars>>

puts_end ==
  /\ at = "puts" /\ str = <<>>
  /\ at' = "caller"
  /\ UNCHANGED <<putVars, getVars>>

(* term_putchar, up to its loop; it fails on a terminal that is not ready.  *)
term_putchar ==
  /\ at = "puts" /\ str # <<>>
  /\ str' = Tail(str)
  /\ IF transm_status \in {"ready", "done"}
     THEN at' = "putchar" /\ transm_status' = "busy"
     ELSE at' = "caller" /\ UNCHANGED transm_status
  /\ UNCHANGED <<printed, asked, failed, getVars>>

(* Faulty variant: the end of the transmission is not waited for.           *)
tx_acknowledge_early ==
  /\ at = "putchar"
  /\ transm_status' = "ready"
  /\ at' = IF transm_status \in {"busy", "done"} THEN "puts" ELSE "caller"
  /\ UNCHANGED <<str, printed, asked, failed, getVars>>

(* The loop of term_putchar has ended.                                      *)
tx_acknowledge ==
  /\ at = "putchar" /\ transm_status # "busy"
  /\ transm_status' = "ready"
  /\ at' = IF transm_status = "done" THEN "puts" ELSE "caller"
  /\ UNCHANGED <<str, printed, asked, failed, getVars>>
------------------------------------------------------------------------------
term_gets ==
  /\ at = "caller"
  /\ at' = "getchar"
  /\ n' \in 0 .. MaxLength
  /\ i' = 0
  /\ line' = <<>> /\ typed' = <<>>
  /\ UNCHANGED <<putVars, recv_status, recv_char, c>>

(* Faulty variant: a receiver that is not ready is tried again.             *)
term_getchar_retries ==
  /\ at = "getchar"
  /\ IF recv_status \in {"ready", "done"}
     THEN at' = "receiving" /\ recv_status' = "busy"
     ELSE UNCHANGED <<at, recv_status>>
  /\ UNCHANGED <<putVars, recv_char, n, i, c, line, typed>>

(* term_getchar, up to its loop; it fails on a terminal that is not ready.  *)
term_getchar ==
  /\ at = "getchar"
  /\ IF recv_status \in {"ready", "done"}
     THEN at' = "receiving" /\ recv_status' = "busy" /\ UNCHANGED c
     ELSE at' = "gets" /\ c' = error /\ UNCHANGED recv_status
  /\ UNCHANGED <<putVars, recv_char, n, i, line, typed>>

rx_acknowledge ==
  /\ at = "receiving" /\ recv_status # "busy"
  /\ recv_status' = "ready"
  /\ c' = IF recv_status = "done" THEN recv_char ELSE error
  /\ at' = "gets"
  /\ UNCHANGED <<putVars, recv_char, n, i, line, typed>>

(* Faulty variants: one character too many; the newline is stored.          *)
gets_loop_past ==
  /\ at = "gets"
  /\ IF i <= n /\ c # newline
     THEN line' = Append(line, c) /\ i' = i + 1 /\ at' = "getchar"
     ELSE line' = Append(line, nul) /\ at' = "caller" /\ UNCHANGED i
  /\ UNCHANGED <<putVars, recv_status, recv_char, n, c, typed>>

gets_loop_newline ==
  /\ at = "gets"
  /\ IF i < n
     THEN /\ line' = IF c = newline THEN line \o <<c, nul>> ELSE Append(line, c)
          /\ i' = i + 1
          /\ at' = IF c = newline THEN "caller" ELSE "getchar"
     ELSE line' = Append(line, nul) /\ at' = "caller" /\ UNCHANGED i
  /\ UNCHANGED <<putVars, recv_status, recv_char, n, c, typed>>

(* The test of the loop of term_gets, with the turn that follows, or the    *)
(* nul and the return.                                                      *)
gets_loop ==
  /\ at = "gets"
  /\ IF i < n /\ c # newline
     THEN line' = Append(line, c) /\ i' = i + 1 /\ at' = "getchar"
     ELSE line' = Append(line, nul) /\ at' = "caller" /\ UNCHANGED i
  /\ UNCHANGED <<putVars, recv_status, recv_char, n, c, typed>>

Driver == puts_end \/ term_putchar \/ tx_acknowledge
            \/ term_getchar \/ rx_acknowledge \/ gets_loop

DriverNext == Transmit \/ Receive \/ term_puts \/ term_gets \/ Driver

DriverSpec ==
  /\ DriverInit /\ [][DriverNext]_driverVars
  /\ WF_driverVars(Driver) /\ WF_driverVars(Transmit) /\ WF_driverVars(Receive)
------------------------------------------------------------------------------
(* What is shown is what term_puts was given, in order and each character   *)
(* once, up to a failure of the terminal; without one it is all of it, when *)
(* term_puts returns.                                                       *)
PutsInOrder ==
  /\ IsPrefix(printed, asked)
  /\ at = "caller" /\ ~ failed /\ transm_status # "off" => printed = asked

(* term_gets stores the characters that were typed, in order, up to the     *)
(* newline or n of them, and one more is read and dropped.  The nul comes   *)
(* after them, so that the caller's buffer must have room for n + 1.        *)
GetsLine ==
  at = "caller" /\ line # <<>> =>
    /\ Last(line) = nul /\ Len(Front(line)) <= n
    /\ newline \notin ToSet(Front(line))
    /\ recv_status # "off" /\ error \notin ToSet(Front(line)) \cup {c} /\ typed # <<>> =>
         typed = Append(Front(line), c) /\ (c = newline \/ Len(Front(line)) = n)

(* Both return, whatever the terminal answers.                              *)
CallsReturn == at # "caller" ~> at = "caller"
==============================================================================
