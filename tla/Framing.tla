------------------------------- MODULE Framing -------------------------------
(***************************************************************************)
(* Messages on a byte stream (utils/msgTypes.py buildMsg, getTypeandLen):  *)
(* a header "ttt;lll;" with the type and the length of the text, and the   *)
(* text.  A reader knows where it is in the stream by counting only.       *)
(*                                                                         *)
(* A byte is its position in the stream, from 1.  What counts of a message *)
(* is the length of its text, and where it starts.  Text is taken to be    *)
(* ASCII: buildMsg counts characters, the stream bytes.                    *)
(***************************************************************************)
EXTENDS Integers, Sequences

CONSTANTS
    Hdr,        \* defaults.MsgHeader
    MaxLen,     \* the largest length with three digits, 999
    Lens,       \* lengths of the texts sent in this instance
    MaxMsgs     \* bound: messages sent

\* The length has at most one digit too many.
ASSUME FramingConstants ==
    /\ Hdr \in Nat \ {0}
    /\ MaxLen \in Nat
    /\ Lens \subseteq 0 .. 10 * MaxLen + 9
    /\ MaxMsgs \in Nat

VARIABLES
    sent,       \* lengths of the texts sent
    starts,     \* where each message starts
    total,      \* bytes written to the stream
    received,   \* bytes the reader has received of it
    got,        \* the texts the reader has passed on, as intervals
    lost        \* the reader takes for a header what is not one

streamVars == <<sent, starts, total>>

Text(from, len) == [from |-> from, len |-> len]

\* The header buildMsg writes: "%03d" has more than three digits if it must.
HeaderLen(n) == IF n > MaxLen THEN Hdr + 1 ELSE Hdr

\* The text of the message number j.
TextOf(j) == Text(starts[j] + HeaderLen(sent[j]), sent[j])

\* getTypeandLen on the Hdr bytes from position b: they are a header, that of
\* message j.  A length of four digits fills the place of the last separator
\* and is read all the same.
IsHeader(b, j) == starts[j] = b

StreamTypeOK ==
    /\ sent \in Seq(Lens)
    /\ starts \in Seq(Nat \ {0})
    /\ Len(starts) = Len(sent)
    /\ total \in Nat
    /\ received \in 0 .. total
    /\ got \in Seq([from : Nat, len : Nat])
    /\ lost \in BOOLEAN

StreamInit ==
    /\ sent = <<>>
    /\ starts = <<>>
    /\ total = 0
    /\ received = 0
    /\ got = <<>>
    /\ lost = FALSE

\* buildMsg, and writing all of it.
Send(n) ==
    /\ Len(sent) < MaxMsgs
    /\ sent' = Append(sent, n)
    /\ starts' = Append(starts, total + 1)
    /\ total' = total + HeaderLen(n) + n

(***************************************************************************)
(* The texts passed on, as messages of Fifo: one that is not what was sent *)
(* is no message.                                                          *)
(***************************************************************************)
Broken == -1

Right(i) == i <= Len(sent) /\ got[i] = TextOf(i)

\* The header of message i or of one in front of it has a digit too many.
BehindLong(i) ==
    i <= Len(sent) /\ \E j \in 1 .. i : sent[j] > MaxLen

\* Nothing is said of the texts from the first one on that is too long.
Passed == [i \in 1 .. Len(got) |->
              IF Right(i) \/ BehindLong(i) THEN sent[i] ELSE Broken]

\* What is passed on is what was sent.
PassedIsSent == Passed = [i \in 1 .. Len(got) |-> sent[i]]

(***************************************************************************)
(* The stream, for the proofs about its readers.                           *)
(***************************************************************************)
\* Where message i starts, or where the next one will.
StartOf(i) == IF i <= Len(sent) THEN starts[i] ELSE total + 1

EndOf(i) == starts[i] + HeaderLen(sent[i]) + sent[i]

\* The messages lie in the stream one behind the other.
Layout ==
    /\ StartOf(1) = 1
    /\ \A i \in 1 .. Len(sent) : StartOf(i + 1) = EndOf(i)
    /\ \A i \in 1 .. Len(sent) : EndOf(i) <= total + 1
    /\ \A i, j \in 1 .. Len(sent) : i < j => EndOf(i) <= starts[j]

\* The last text passed on was one byte longer than its header says.
OutOfStep == Len(got) > 0 /\ sent[Len(got)] > MaxLen

\* The texts passed on are the first ones sent, each as it was sent; only the
\* last of them may be too long.
FirstOnes ==
    /\ Len(got) <= Len(sent)
    /\ \A i \in 1 .. Len(got) : sent[i] <= MaxLen => got[i] = TextOf(i)
    /\ \A i \in 1 .. Len(got) - 1 : sent[i] <= MaxLen
=============================================================================
