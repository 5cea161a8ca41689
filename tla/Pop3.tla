-------------------------------- MODULE Pop3 --------------------------------
(***************************************************************************)
(* The sniffer of src/pop3.c: it is fed what a client sends in COPY to the *)
(* POP3 port, as it arrives, and reports the pairs of USER and PASS.       *)
(*                                                                         *)
(* The connection it belongs to may come from the pool of src/socks5.c,    *)
(* which clears all of it but the bytes of its buffers.                    *)
(***************************************************************************)
EXTENDS CStrings, SequencesExt

CONSTANTS
  LINE_SIZE,    \* sizeof(p->line)
  USER_SIZE,    \* sizeof(p->user)
  USER_PREFIX,  \* "USER ", or an abbreviation of it
  PASS_PREFIX,  \* "PASS ", as long
  Chunks,       \* what recv may return
  MaxBytes      \* how much a client sends

ASSUME Pop3Assumption ==
  /\ LINE_SIZE \in Nat \ {0} /\ USER_SIZE \in Nat \ {0} /\ MaxBytes \in Nat
  /\ USER_PREFIX \in Seq(Nat) /\ PASS_PREFIX \in Seq(Nat)
  /\ Len(USER_PREFIX) = Len(PASS_PREFIX)
  /\ \E i \in 1 .. Len(USER_PREFIX) : tolower(USER_PREFIX[i]) # tolower(PASS_PREFIX[i])
  /\ Chunks \subseteq Seq(Nat)

VARIABLES
  p,      \* struct pop3_sniffer, its line up to len
  pairs,  \* the pairs it has reported on this connection
  fed     \* the bytes it was fed on it

vars == <<p, pairs, fed>>

LF == 10
CR == 13

pop3_sniffer_init(q) ==
  [q EXCEPT !.line = <<>>, !.overflow = FALSE, !.have_user = FALSE, !.user = <<>>]

\* Mutant: a user is paired with every password that follows.
process_line_KeepsUser(q, line) ==
  CASE HasPrefix(line, USER_PREFIX) ->
         [q EXCEPT !.user = Truncated(Behind(line, USER_PREFIX), USER_SIZE),
                   !.have_user = TRUE]
    [] ~HasPrefix(line, USER_PREFIX) /\ HasPrefix(line, PASS_PREFIX) /\ q.have_user ->
         [q EXCEPT !.reported = Append(@, <<q.user, Behind(line, PASS_PREFIX)>>)]
    [] OTHER -> q

\* The sniffer with what it reports.
process_line(q, line) ==
  CASE HasPrefix(line, USER_PREFIX) ->
         [q EXCEPT !.user = Truncated(Behind(line, USER_PREFIX), USER_SIZE),
                   !.have_user = TRUE]
    [] ~HasPrefix(line, USER_PREFIX) /\ HasPrefix(line, PASS_PREFIX) /\ q.have_user ->
         [q EXCEPT !.reported = Append(@, <<q.user, Behind(line, PASS_PREFIX)>>),
                   !.have_user = FALSE]
    [] OTHER -> q

EndOfLine(q) ==
  LET end  == Len(q.line) - IF q.line # <<>> /\ Last(q.line) = CR THEN 1 ELSE 0
      done == IF q.overflow THEN q
              ELSE process_line(q, CString(SubSeq(q.line, 1, end)))
  IN  [done EXCEPT !.line = <<>>, !.overflow = FALSE]

PutByte(q, c) ==
  IF Len(q.line) < LINE_SIZE - 1 THEN [q EXCEPT !.line = Append(@, c)]
  ELSE [q EXCEPT !.overflow = TRUE]

FeedByte(q, c) ==
  CASE c = LF                 -> EndOfLine(q)
    [] c # LF /\ ~q.overflow  -> PutByte(q, c)
    [] c # LF /\ q.overflow   -> q

\* The sniffer q after the loop over data.
Fed(q, data) ==
  LET after[i \in 0 .. Len(data)] ==
        IF i = 0 THEN q ELSE FeedByte(after[i - 1], data[i])
  IN  after[Len(data)]

\* The sniffer with the pairs reported so far.
Sniffer ==
  [line |-> p.line, overflow |-> p.overflow, user |-> p.user,
   have_user |-> p.have_user, reported |-> pairs]

pop3_sniffer_feed(data) ==
  LET q == Fed(Sniffer, data)
  IN  /\ p' = [line |-> q.line, overflow |-> q.overflow, user |-> q.user,
               have_user |-> q.have_user]
      /\ pairs' = q.reported

\* recv returns a chunk in COPY.
copy_read ==
  \E data \in Chunks :
    /\ Len(fed) + Len(data) <= MaxBytes
    /\ pop3_sniffer_feed(data) /\ fed' = fed \o data

\* memset of the connection.
Cleared == [line |-> <<>>, overflow |-> FALSE, user |-> <<>>, have_user |-> FALSE]

\* The connection ends and its memory is used for another one.
socks5_new == p' = pop3_sniffer_init(Cleared) /\ pairs' = <<>> /\ fed' = <<>>

Pop3Init == p = pop3_sniffer_init(Cleared) /\ pairs = <<>> /\ fed = <<>>

Pop3Next == copy_read \/ socks5_new

Pop3Spec == Pop3Init /\ [][Pop3Next]_vars

-----------------------------------------------------------------------------
(* Properties.                                                             *)

\* The numbers from 1 to n that are in S, in their order.
Places(S, n) ==
  LET upto[i \in 0 .. n] ==
        IF i = 0 THEN <<>>
        ELSE IF i \in S THEN Append(upto[i - 1], i) ELSE upto[i - 1]
  IN  upto[n]

\* Where the lines of q end.
Ends(q) == Places({i \in 1 .. Len(q) : q[i] = LF}, Len(q))

\* The n-th of ends, 0 before the first.
EndOf(ends, n) == IF n = 0 THEN 0 ELSE ends[n]

\* A line as a command: one that is too long, its CR included, is none.
AsCommand(line) ==
  IF Len(line) >= LINE_SIZE THEN <<>>
  ELSE CString(IF line # <<>> /\ Last(line) = CR THEN Front(line) ELSE line)

\* The lines of q that have ended, as commands.
Commands(q) ==
  LET ends == Ends(q)
  IN  [n \in 1 .. Len(ends) |->
         AsCommand(SubSeq(q, EndOf(ends, n - 1) + 1, EndOf(ends, n) - 1))]

\* The last USER before the n-th command, unless a PASS came between.
UserBefore(commands, n) ==
  {m \in 1 .. n - 1 :
     /\ HasPrefix(commands[m], USER_PREFIX)
     /\ \A k \in m + 1 .. n - 1 : /\ ~HasPrefix(commands[k], USER_PREFIX)
                                 /\ ~HasPrefix(commands[k], PASS_PREFIX)}

\* The n-th command is a PASS that answers a USER.
IsAnswer(commands, n) ==
  HasPrefix(commands[n], PASS_PREFIX) /\ UserBefore(commands, n) # {}

\* The credentials it completes.
PairAt(commands, n) ==
  LET m == CHOOSE m \in UserBefore(commands, n) : TRUE
  IN  <<Truncated(Behind(commands[m], USER_PREFIX), USER_SIZE),
        Behind(commands[n], PASS_PREFIX)>>

\* The pairs in a list of commands: each PASS with the last USER before it,
\* unless another PASS came between.
PairsOf(commands) ==
  LET answers == Places({n \in 1 .. Len(commands) : IsAnswer(commands, n)},
                        Len(commands))
  IN  [i \in 1 .. Len(answers) |-> PairAt(commands, answers[i])]

\* However the bytes of a client are cut, and whoever had the connection before:
\* what is reported are the pairs of USER and PASS in what copy_read received
\* from this client and fed to the sniffer, in order, none twice, none from a
\* line that was too long.  Bytes that came with the request are not among them.
PairsAreThoseSent == pairs = PairsOf(Commands(fed))
=============================================================================
