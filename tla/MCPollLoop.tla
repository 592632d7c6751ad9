---------------------------- MODULE MCPollLoop ----------------------------
(***************************************************************************)
(* PollLoop for TLC, over an integer key column: keys of one and of two    *)
(* digits, so that 10 is overtaken by 9 and 9 undercut by 10 while 8 and   *)
(* 90 stay in place (8 until 10 comes), a LIMIT of two rows, and           *)
(* thresholds of two and three polls.                                      *)
(***************************************************************************)
EXTENDS PollLoop

\* The text of an integer: its decimal digits.
Digits[n \in Nat] == IF n < 10 THEN <<n>> ELSE Append(Digits[n \div 10], n % 10)

Decimal == [i \in Ids \cup {NoMark} |-> Digits[i]]
=============================================================================
