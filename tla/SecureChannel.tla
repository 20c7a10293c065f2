--------------------------- MODULE SecureChannel ---------------------------
(***************************************************************************)
(* The inbound side of one connection's secure channel: the channel and     *)
(* token a chunk must name and the sequence numbers it must follow          *)
(* (accept_inbound_chunk in src/core/server.c, src/core/sequence.c,         *)
(* src/services/secure_channel.c).  A chunk may carry any numbers; one that *)
(* is refused aborts the connection.                                        *)
(***************************************************************************)
EXTENDS Integers, Sequences, SequencesExt

CONSTANTS
    Modulus,    \* 2^32: sequence numbers and token ids are 0 .. Modulus - 1
    Window      \* 1024: how far from the ends of the range a wrap may happen

ASSUME WidthAssumption == Window \in Nat \ {0} /\ Modulus \in Nat /\ Modulus > 2 * Window

Numbers == 0 .. Modulus - 1

VARIABLES
    connected,  \* the connection slot has a client
    channel,    \* mu_secure_channel_t with its mu_sequence_validator_t (initialized, last)
    accepted    \* history: the latest sequence numbers accepted on this connection

vars == <<connected, channel, accepted>>

\* mu_secure_channel_init
NewChannel == [is_open |-> FALSE, id |-> 0, token |-> 0, initialized |-> FALSE, last |-> 0]

\* How many numbers apart two acceptances of the same number must be.
Horizon == (Modulus - 2 * Window) + 2

Init == connected = FALSE /\ channel = NewChannel /\ accepted = <<>>

\* Mutant: the slot keeps the channel of its previous client.
AcceptKeepsChannel ==
    /\ ~connected
    /\ connected' = TRUE /\ accepted' = <<>> /\ UNCHANGED channel

Accept ==
    /\ ~connected
    /\ connected' = TRUE /\ channel' = NewChannel /\ accepted' = <<>>

Disconnected == connected' = FALSE /\ UNCHANGED <<channel, accepted>>

\* Mutant: small numbers are a wrap at any time.
WrapsAnytime(seq) == seq < Window

\* mu_sequence_validate; uint32 arithmetic makes 0 follow the largest number.
Wraps(seq) == channel.last > (Modulus - 1) - Window /\ seq < Window

Validates(seq) ==
    \/ ~channel.initialized
    \/ seq = (channel.last + 1) % Modulus
    \/ Wraps(seq)

Remembered(seq) ==
    LET longer == Append(accepted, seq)
    IN  IF Len(longer) > Horizon THEN Tail(longer) ELSE longer

Advanced(ch, seq) == [ch EXCEPT !.initialized = TRUE, !.last = seq]

\* A first OPN opens, a later one renews; one that is rejected has used up its number.
Opened(ch) ==
    IF ch.is_open THEN [ch EXCEPT !.token = (ch.token + 1) % Modulus]
    ELSE [ch EXCEPT !.is_open = TRUE, !.id = 1, !.token = 1]

OpenChunk(seq, good) ==
    /\ connected
    /\ IF Validates(seq)
         THEN /\ channel' = Advanced(IF good THEN Opened(channel) ELSE channel, seq)
              /\ accepted' = Remembered(seq)
              /\ UNCHANGED connected
         ELSE Disconnected

MessageChunk(id, token, seq) ==
    /\ connected
    /\ IF id = channel.id /\ token = channel.token /\ Validates(seq)
         THEN /\ channel' = Advanced(channel, seq)
              /\ accepted' = Remembered(seq)
              /\ UNCHANGED connected
         ELSE Disconnected

\* A CLO chunk is obeyed without validation.
CloseChunk ==
    /\ connected
    /\ connected' = FALSE
    /\ channel' = IF channel.is_open THEN NewChannel ELSE channel
    /\ UNCHANGED accepted

Next ==
    \/ Accept
    \/ \E seq \in Numbers, good \in BOOLEAN : OpenChunk(seq, good)
    \/ \E id \in {0, 1}, token \in Numbers, seq \in Numbers : MessageChunk(id, token, seq)
    \/ CloseChunk

Spec == Init /\ [][Next]_vars

-----------------------------------------------------------------------------
(* Properties. *)

\* The client of a connection inherits nothing from the one that had the slot before,
\* however that one left: until its first chunk is accepted the channel is closed and any
\* sequence number will do (mu_server_poll resets the channel with its validator).
NothingInherited ==
    connected /\ accepted = <<>> => ~channel.is_open /\ \A seq \in Numbers : Validates(seq)

\* A chunk is never accepted twice: among the last 2^32 - 2 * 1024 + 2 acceptances of a
\* connection no number repeats, across renewals, rejected requests and the wrap that may
\* jump ahead (mu_sequence_validate).
NoReplay == IsInjective(accepted)
=============================================================================
