-------------------------------- MODULE Demo --------------------------------
(***************************************************************************)
(* The demo of src/main.cpp from line 39 on: the greeting, then for ever   *)
(* receive_line(), the echo of the line or a message, and every            *)
(* STATS_INTERVAL lines the statistics; with get_stats(), and send() on a  *)
(* ring that the handler drains meanwhile.                                 *)
(*                                                                         *)
(* A text to be sent is a sequence of tokens, each of which stands for as  *)
(* many bytes as it pleases: "G" for the greeting, ">" and "CRLF" around   *)
(* an echo, "T" for the message of line 59, "S" for text of the            *)
(* statistics; the bytes of a line stand for themselves.                   *)
(***************************************************************************)
EXTENDS LineReader, SequencesExt

CONSTANTS Args,           (* the arguments of receive_line(), as records
                             [max_len, tmo]: main.cpp has 128 and 10000, other
                             values are those of other programs like it       *)
          TxN,            (* size of tx_buf_                                  *)
          StatsInterval   (* STATS_INTERVAL                                   *)

ASSUME DemoAssumption ==
    /\ Args \subseteq [max_len : 0..SizeMod-1, tmo : 0..TickMod-1]
    /\ TxN \in Nat \ {0} /\ StatsInterval \in Nat \ {0}
    /\ Others \cap {"G", ">", "CRLF", "T", "S"} = {}

VARIABLES args,             \* the arguments of this program
          queued,           \* bytes in tx_buf_
          pc, line_count,
          say,              \* the texts main is sending, one send() each
          todo, snap,       \* get_stats(): counters still to copy; the copy
          spoilt, heard, echoed, since
             \* history: whether receive_line() has returned false or
             \* tx_buffer_overflows has become positive; until then, the
             \* bytes its calls have taken, and the greeting and echoes put
             \* in tx_buf_; Seen when get_stats() began

demoVars == <<args, queued, pc, line_count, say, todo, snap>>
demoHistory == <<spoilt, heard, echoed, since>>
vars == <<lineVars, demoVars, demoHistory>>

Init == /\ LineInit
        /\ args \in Args
        /\ queued = 0
        /\ pc = "loop" /\ line_count = 0
        /\ say = <<<<"G">>>>
        /\ todo = {} /\ snap = [c \in Counters |-> 0]
        /\ heard = <<>> /\ echoed = <<>> /\ spoilt = FALSE /\ since = 0

(* main has sent what it had to send and is at label p. *)
At(p) == pc = p /\ say = <<>>

-----------------------------------------------------------------------------
(* send(data, len) *)

(* Text t, then the texts ts; a text without bytes is sent at once. *)
Then(t, ts) == IF t = <<>> THEN ts ELSE <<t>> \o ts

(* The byte is put in the ring; the statistics are no echo. *)
Put(t) == /\ queued' = queued + 1
          /\ echoed' = IF spoilt \/ t = "S" THEN echoed ELSE Append(echoed, t)
          /\ UNCHANGED <<spoilt, heard>>

Spoil == spoilt' = TRUE /\ heard' = <<>> /\ echoed' = <<>>

(* The byte is skipped, and the rest of the text sent. *)
SendByte_Bug ==
    /\ say # <<>> /\ Main
    /\ say' = Then(Tail(Head(say)), Tail(say))
    /\ \/ queued < TxN - 1 /\ Put(Head(Head(say)))
       \/ queued = TxN - 1 /\ UNCHANGED <<queued, spoilt, heard, echoed>>
    /\ UNCHANGED <<uartVars, waited, lpc, l, lineHistory, args, pc, line_count,
                   todo, snap, since>>

(* A full ring cuts the text off, and counts once. *)
SendByte ==
    /\ say # <<>> /\ Main
    /\ \/ /\ queued < TxN - 1 /\ Put(Head(Head(say)))
          /\ say' = Then(Tail(Head(say)), Tail(say))
       \/ /\ queued = TxN - 1 /\ Spoil
          /\ say' = Tail(say) /\ UNCHANGED queued
    /\ UNCHANGED <<uartVars, waited, lpc, l, lineHistory, args, pc, line_count,
                   todo, snap, since>>

(* The handler's half: Uart shows that tx_buf_ leaves in order and whole. *)
Transmit == /\ queued > 0
            /\ queued' = queued - 1
            /\ UNCHANGED <<lineVars, args, pc, line_count, say, todo,
                           snap, demoHistory>>

-----------------------------------------------------------------------------
(* The loop *)

CallLine == /\ At("loop") /\ ReceiveLine(args.max_len, args.tmo)
            /\ pc' = "line"
            /\ UNCHANGED <<args, queued, line_count, say, todo, snap,
                           demoHistory>>

LineStep == /\ LineGoesOn
            /\ UNCHANGED <<demoVars, demoHistory>>

(* What strlen() finds of a line. *)
UpToNul(t) == IF "NUL" \notin ToSet(t) THEN t
              ELSE SubSeq(t, 1, SelectInSeq(t, LAMBDA b : b = "NUL") - 1)

Hear == IF cause = "line" /\ ~spoilt
        THEN heard' = heard \o segment /\ UNCHANGED <<spoilt, echoed>>
        ELSE Spoil

(* A line is echoed; a false result is answered with one message, whether  *)
(* it was a time-out or a line too long.                                   *)
Reply == /\ LineResult /\ pc' = "stats" /\ Hear
         /\ \/ /\ cause = "line"
               /\ say' = <<<<">">>>> \o Then(UpToNul(l.line), <<<<"CRLF">>>>)
               /\ line_count' = line_count + 1
            \/ /\ cause # "line"
               /\ say' = <<<<"T">>>>
               /\ UNCHANGED line_count
         /\ UNCHANGED <<args, queued, todo, snap, since>>

StatsDue == line_count > 0 /\ line_count % StatsInterval = 0

(* line_count stays a multiple while calls time out: the statistics are    *)
(* printed after each of them.                                             *)
Stats == /\ At("stats") /\ Main
         /\ \/ /\ StatsDue
               /\ pc' = "copy" /\ todo' = Counters /\ since' = Seen
            \/ /\ ~StatsDue
               /\ pc' = "loop" /\ UNCHANGED <<todo, since>>
         /\ UNCHANGED <<uartVars, waited, lpc, l, lineHistory, args,
                        queued, line_count, say, snap, spoilt, heard, echoed>>

(* The counters are reset as they are read. *)
Copy_Bug(c) == /\ At("copy") /\ Main
               /\ c \in todo /\ todo' = todo \ {c}
               /\ snap' = [snap EXCEPT ![c] = stats_[c]]
               /\ stats_' = [stats_ EXCEPT ![c] = 0]
               /\ UNCHANGED <<rx_buf_, waited, lpc, l, lineHistory, args,
                              queued, pc, line_count, say, demoHistory>>

(* get_stats() copies word by word, in the compiler's order, while the     *)
(* handler counts.  The counters only main writes do not change meanwhile. *)
Copy(c) == /\ At("copy") /\ Main
           /\ c \in todo /\ todo' = todo \ {c}
           /\ snap' = [snap EXCEPT ![c] = stats_[c]]
           /\ UNCHANGED <<uartVars, waited, lpc, l, lineHistory,
                          args, queued, pc, line_count, say, demoHistory>>

(* A heading, and a text per counter. *)
PrintStats ==
    /\ At("copy") /\ Main /\ todo = {}
    /\ say' = <<<<"S">>, <<"S">>, <<"S">>>>
    /\ pc' = "loop" /\ snap' = [c \in Counters |-> 0] /\ since' = 0
    /\ UNCHANGED <<uartVars, waited, lpc, l, lineHistory, args, queued,
                   line_count, todo, spoilt, heard, echoed>>

-----------------------------------------------------------------------------

MainSteps == \/ SendByte \/ CallLine \/ LineStep \/ Reply \/ Stats \/ PrintStats
             \/ \E c \in Counters : Copy(c)

Around == UNCHANGED <<demoVars, demoHistory>>

Next == \/ MainSteps \/ Transmit
        \/ SysTick /\ Around
        \/ \E b \in Bytes : Arrive(b) /\ Around

(* The processor goes on, the peripheral transmits and the tick ticks; no  *)
(* byte need ever arrive.                                                  *)
Spec == /\ Init /\ [][Next]_vars
        /\ WF_vars(MainSteps) /\ WF_vars(Transmit) /\ WF_vars(SysTick /\ Around)

-----------------------------------------------------------------------------

Tokens == Others \cup {"G", ">", "CRLF", "T", "S"}

TypeOK == /\ LineTypeOK
          /\ args \in Args
          /\ queued \in 0..TxN-1
          /\ spoilt \in BOOLEAN
          /\ pc \in {"loop", "line", "stats", "copy"}
          /\ line_count \in 0..MaxFrames
          /\ say \in Seq(Seq(Tokens)) /\ <<>> \notin ToSet(say)
          /\ todo \subseteq Counters
          /\ snap \in [Counters -> 0..MaxFrames] /\ since \in 0..MaxFrames
          /\ echoed \in Seq(Tokens) /\ heard \in Seq(Bytes)

(* The echoes so far and the line begun, and the next byte. *)
Echoed == [out : Seq(Tokens), cur : Seq(Others)]
EchoStep ==
    [p \in Echoed \X Bytes |->
       CASE p[2] = "LF" -> [out |-> p[1].out \o <<">">> \o UpToNul(p[1].cur)
                                            \o <<"CRLF">>,
                            cur |-> <<>>]
         [] p[2] = "CR" -> p[1]
         [] p[2] \in Others -> [p[1] EXCEPT !.cur = Append(@, p[2])]]

(* The echo of a stream of bytes, computed from the stream as a whole: its *)
(* complete lines, and the beginning of the next one.                      *)
Echoing(stream) == Fold(EchoStep, [out |-> <<>>, cur |-> <<>>], stream)
EchoOf(stream) == Echoing(stream).out

(* main.cpp, lines 49-60: whatever the division of the stream into calls,  *)
(* echoes come out whole, in order and once; when not, receive_line() has  *)
(* returned false or tx_buffer_overflows tells (a text that finds the ring *)
(* full, uart.cpp, lines 257-279, is cut off and never silently).          *)
EchoIsFaithful ==
    ~spoilt /\ At("loop") => echoed = <<"G">> \o EchoOf(heard)

(* The statistics printed are those of the moments of the copy: the bytes  *)
(* they account for lie between those seen when get_stats() began and      *)
(* those seen by now, though the counters need never have had these        *)
(* values at one time (uart.hpp, lines 240-242: "a snapshot").             *)
StatsOfTheMoment ==
    pc = "copy" /\ todo = {} =>
      LET sum == snap["bytes_received"] + snap["rx_buffer_overflows"]
      IN  since <= sum /\ sum <= Seen

(* Once no more arrive, every byte in the ring is read, however often      *)
(* receive_line() gives up, as long as it is given room for a byte and     *)
(* time to get as far as the ring at all (uart.cpp, lines 321-330 and      *)
(* 298: the ring is looked at before the tick).                            *)
EveryByteRead ==
    rx_buf_ # <<>> /\ args.max_len > 1 /\ args.tmo > Slack ~> rx_buf_ = <<>>
=============================================================================
