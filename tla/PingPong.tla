------------------------------ MODULE PingPong ------------------------------
(***************************************************************************)
(* The ping-pong operations between two ranks (collective_ops/pingpong.c), *)
(* made of MPI calls that block until their message is buffered, sent or   *)
(* received.  Module ProcessSync makes the calls, as the measurement loop  *)
(* does.                                                                   *)
(*                                                                         *)
(* MPI hands a message over when a receive for it is posted (Deliver), in  *)
(* the order in which the messages were sent.  All messages have the same  *)
(* tag: the model labels each with the number of its exchange, and no      *)
(* action reads the label.                                                 *)
(***************************************************************************)
EXTENDS Integers, Sequences

VARIABLES np,
          ranks,       \* pingpong_ranks: source and destination
          exchanges,   \* exchanges[r]: receives that r has posted so far
          sends,       \* messages it has sent
          todo,        \* what is left of the call r is in, None outside
          posted,      \* whether r has a receive posted and not completed
          chan,        \* chan[r]: messages on the way to r
          eager        \* whether MPI buffers messages when sending

CONSTANT None

Rank == 0 .. np - 1
src_rank == ranks[1]
dest_rank == ranks[2]
Other(r) == IF r = src_rank THEN dest_rank ELSE src_rank
Pair == {src_rank, dest_rank}

\* initialize_data_pingpong exits unless these hold.
ValidRanks == np >= 2 /\ Pair \subseteq Rank /\ src_rank # dest_rank

-----------------------------------------------------------------------------
(* The MPI calls, as what they start and what they wait for.               *)

Parts == {"send", "sent", "post", "received"}

MPI_Isend == <<"send">>
MPI_Irecv == <<"post">>
MPI_Wait_send == <<"sent">>
MPI_Wait_recv == <<"received">>
MPI_Send == MPI_Isend \o MPI_Wait_send
MPI_Recv == MPI_Irecv \o MPI_Wait_recv
MPI_Sendrecv == MPI_Isend \o MPI_Irecv \o MPI_Wait_send \o MPI_Wait_recv

execute_pingpong_Send_Recv(r) == IF r = src_rank THEN MPI_Send \o MPI_Recv
                                                 ELSE MPI_Recv \o MPI_Send
execute_pingpong_Isend_Recv == MPI_Isend \o MPI_Recv \o MPI_Wait_send
execute_pingpong_Isend_Irecv == MPI_Isend \o MPI_Irecv \o MPI_Wait_send \o MPI_Wait_recv
execute_pingpong_Send_Irecv == MPI_Irecv \o MPI_Send \o MPI_Wait_recv
execute_pingpong_Sendrecv == MPI_Sendrecv

\* The lengths of the processors' names, and the names.
initialize_data_pingpong == MPI_Sendrecv \o MPI_Sendrecv

Operations == {"Send_Recv", "Isend_Recv", "Isend_Irecv", "Send_Irecv", "Sendrecv", "init"}

CallsOf(r, op) ==
    CASE r \notin Pair -> <<>>
      [] op = "Send_Recv" /\ r \in Pair -> execute_pingpong_Send_Recv(r)
      [] op = "Isend_Recv" /\ r \in Pair -> execute_pingpong_Isend_Recv
      [] op = "Isend_Irecv" /\ r \in Pair -> execute_pingpong_Isend_Irecv
      [] op = "Send_Irecv" /\ r \in Pair -> execute_pingpong_Send_Irecv
      [] op = "Sendrecv" /\ r \in Pair -> execute_pingpong_Sendrecv
      [] op = "init" /\ r \in Pair -> initialize_data_pingpong

-----------------------------------------------------------------------------
Init == /\ exchanges = [r \in Rank |-> 0]
        /\ sends = [r \in Rank |-> 0]
        /\ todo = [r \in Rank |-> None]
        /\ posted = [r \in Rank |-> FALSE]
        /\ chan = [r \in Rank |-> <<>>]

Call(r, op) == /\ todo[r] = None
               /\ todo' = [todo EXCEPT ![r] = CallsOf(r, op)]
               /\ UNCHANGED <<np, ranks, exchanges, sends, posted, chan, eager>>

At(r, what) == todo[r] \notin {None, <<>>} /\ Head(todo[r]) = what
Done(r) == todo' = [todo EXCEPT ![r] = Tail(@)]

Send(r) == /\ At(r, "send") /\ Done(r)
           /\ sends' = [sends EXCEPT ![r] = @ + 1]
           /\ chan' = [chan EXCEPT ![Other(r)] = Append(@, sends[r] + 1)]
           /\ UNCHANGED <<np, ranks, exchanges, posted, eager>>

Post(r) == /\ At(r, "post") /\ Done(r)
           /\ posted' = [posted EXCEPT ![r] = TRUE]
           /\ exchanges' = [exchanges EXCEPT ![r] = @ + 1]
           /\ UNCHANGED <<np, ranks, sends, chan, eager>>

\* The message is buffered or the receiver has taken it.
Sent(r) == /\ At(r, "sent") /\ Done(r)
           /\ eager \/ chan[Other(r)] = <<>>
           /\ UNCHANGED <<np, ranks, exchanges, sends, posted, chan, eager>>

Received(r) == /\ At(r, "received") /\ Done(r)
               /\ ~posted[r]
               /\ UNCHANGED <<np, ranks, exchanges, sends, posted, chan, eager>>

Deliver(r) == /\ posted[r] /\ chan[r] # <<>>
              /\ posted' = [posted EXCEPT ![r] = FALSE]
              /\ chan' = [chan EXCEPT ![r] = Tail(@)]
              /\ UNCHANGED <<np, ranks, exchanges, sends, todo, eager>>

Return(r) == /\ todo[r] = <<>>
             /\ todo' = [todo EXCEPT ![r] = None]
             /\ UNCHANGED <<np, ranks, exchanges, sends, posted, chan, eager>>

Step(r, op) == \/ Call(r, op) \/ Return(r)
               \/ Send(r) \/ Post(r) \/ Sent(r) \/ Received(r) \/ Deliver(r)

-----------------------------------------------------------------------------
\* A receive takes the message that its partner sent for it: no operation
\* leaves a message or a receive behind for the next one, whatever the MPI
\* calls it is made of.
MessagesMatch ==
    \A r \in Rank :
        /\ (posted[r] /\ chan[r] # <<>>) => Head(chan[r]) = exchanges[r]
        /\ (todo[r] = None) => ~posted[r] /\ sends[r] = exchanges[r]
=============================================================================
