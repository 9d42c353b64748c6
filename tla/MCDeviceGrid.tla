---------------------------- MODULE MCDeviceGrid ----------------------------
(* Small architectures with a column of memories (repeated, counted from   *)
(* the right, or at a relative place), square, wide and tall, and netlists *)
(* from a single block to more than the largest array holds.               *)
EXTENDS DeviceGrid

Memory(kind, start, repeat) ==
    [type |-> "memory", kind |-> kind, start |-> start, repeat |-> repeat, rel |-> <<1, 2>>,
     priority |-> 2]

MCColumns == { <<>>, <<Memory("repeat", 2, 3)>>, <<Memory("repeat", -1, 0)>>,
               <<Memory("rel", 0, 0)>>, <<Memory("rel", 0, 0), Memory("repeat", 1, 2)>> }

MCSetups ==
    {[auto |-> auto, W |-> 3, H |-> 4, aspect |-> aspect, io_capacity |-> 4, chain |-> chain,
      height |-> [t \in BlockTypes |-> IF t = "memory" THEN 2 ELSE 1],
      blocks |-> [t \in BlockTypes |-> CASE t = "io" -> io [] t = "clb" -> clb [] OTHER -> memory],
      num_blocks |-> io + clb + memory,
      columns |-> columns, fill_priority |-> 1] :
        auto \in BOOLEAN, aspect \in {<<1, 1>>, <<3, 2>>, <<1, 2>>}, chain \in {0, 5},
        io \in {1, 24}, clb \in {0, 3, 17, 40}, memory \in {0, 1, 4}, columns \in MCColumns}
=============================================================================
