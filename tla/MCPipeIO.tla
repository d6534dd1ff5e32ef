------------------------------ MODULE MCPipeIO ------------------------------
(* Instances of PipeIO for TLC. *)
EXTENDS PipeIO, TLC

MCQueue == Pipe \X {"read", "write", "poll"}
MCEntry == Proc \X {0, 1, 2}
ReadWrite == {{"READ", "WRITE"}}

\* Two scenes.  In one, two processes make every call in every order, from the
\* first program on.  In the other, three processes share one pipe, each
\* holding one end of it, as after SysPipe, a SysSpawn for each child and a
\* SysClose of the ends not needed; they open no further handle.  Which n of
\* them read is immaterial.  One process of a scene polls.
VARIABLE scene

Pair == CHOOSE S \in SUBSET Proc : Cardinality(S) = 2
First == CHOOSE p \in Pair : TRUE

SharedInit ==
  \E x \in Pipe, n \in 1 .. Cardinality(Proc) - 1 :
    LET readers == CHOOSE S \in SUBSET Proc : Cardinality(S) = n
        end(p) == IF p \in readers THEN "R" ELSE "W"
    IN  /\ kern = [queue |-> [q \in Queue |-> << >>],
                   entry |-> [e \in Entry |->
                     [queue |-> NoQueue, linked |-> FALSE,
                      woken |-> FALSE, exclusive |-> FALSE]],
                   state |-> [q \in Proc |-> RUNNABLE],
                   pipe |-> [y \in Pipe |-> IF y # x THEN EmptyPipe ELSE
                     [used |-> TRUE, readers |-> n,
                      writers |-> Cardinality(Proc) - n, size |-> 0]]]
        /\ fd = [h \in Proc \X Fd |->
                   IF h[2] = Lowest(Fd) THEN <<x, end(h[1])>> ELSE FREE]
        /\ alive = Proc
        /\ waiting = [q \in Proc |-> NoFd]
        /\ len = [q \in Proc |-> 0]
        /\ polling = [q \in Proc |-> NoPoll]
        /\ deadline = [q \in Proc |-> "none"]

SharedNext ==
  \/ \E p \in Proc : SysRead(p) \/ SysWrite(p) \/ Exit(p)
                       \/ Resume(p) \/ Interrupt(p) \/ PollTimeout(p)
  \/ \E p \in {First} : SysPoll(p)

MCInit == \/ scene = "pair" /\ Init /\ alive = {First}
          \/ scene = "shared" /\ SharedInit

MCNext == /\ \/ scene = "pair" /\ Next /\ alive' \subseteq Pair
                  /\ \A p \in Proc \ {First} : polling'[p] = NoPoll
             \/ scene = "shared" /\ SharedNext
          /\ UNCHANGED scene

\* Fairness of PipeIO, stated on states: Resume(p) and PollTimeout(p) end the
\* condition they are enabled in, so each is fair when that condition does not
\* last for ever.
MCFair == \A p \in Proc : /\ []<>~(Resumable(p) /\ Pending(p))
                          /\ []<>(deadline[p] # "pending")

MCSpec == MCInit /\ [][MCNext]_<<vars, scene>> /\ MCFair
=============================================================================
