-------------------------- MODULE KeycipherModule --------------------------
(***************************************************************************)
(* The life of the kernel module: keycipher_init with its error labels,    *)
(* keycipher_exit, and what happens meanwhile on the device files that     *)
(* init makes usable one after the other (kernel/keycipher.c), with        *)
(* proc_stats_init/exit and input_intercept_init/exit as two of the parts  *)
(* that are registered and removed.                                        *)
(*                                                                         *)
(* Loading runs in the process of insmod while others may already open the *)
(* devices: a file can be opened from cdev_add on, and it pins the module  *)
(* against rmmod, but not against an init that fails.                      *)
(***************************************************************************)
EXTENDS Integers, FiniteSets

CONSTANTS OutUsers,    \* processes that open /dev/keycipher_out: the daemon
          InUsers,     \* processes that open /dev/keycipher_in
          FIFO_SIZE

Users == OutUsers \cup InUsers
device(u) == IF u \in OutUsers THEN "cdev_out" ELSE "cdev_in"

VARIABLES mstate,      \* "absent", "coming", "live" or "going"
          mpc,         \* where keycipher_init or keycipher_exit is
          reg,         \* what is registered with the kernel
          ready,       \* the FIFOs have been initialised
          files,       \* users with an open device file
          used,        \* messages in outbox_fifo
          key,         \* input_event_handler: "idle", or "asleep" in fifo_write
          misused      \* history: a FIFO used before fifo_init, or a file left
                       \* open when its module was freed

Init ==
  /\ mstate = "absent" /\ mpc = "none"
  /\ reg = {} /\ ready = FALSE /\ files = {}
  /\ used = 0 /\ key = "idle"
  /\ misused = FALSE

\* Mutant: the input handler is registered before the FIFOs are initialised.
NextStage_HandlerFirst ==
  [region |-> "cdev_out", cdev_out |-> "cdev_in", cdev_in |-> "proc",
   proc |-> "handler", handler |-> "fifo_init", fifo_init |-> "none"]

\* The calls of keycipher_init, each with the one that follows it.
NextStage ==
  [region |-> "cdev_out", cdev_out |-> "cdev_in", cdev_in |-> "fifo_init",
   fifo_init |-> "proc", proc |-> "handler", handler |-> "none"]

\* Mutant: a failure of proc_stats_init forgets cdev_in.
ErrorLabel_ForgetsIn ==
  [region |-> "none", cdev_out |-> "region", cdev_in |-> "cdev_out",
   proc |-> "cdev_out", handler |-> "proc"]

\* goto err_...: the part that is removed first when a call has failed.
ErrorLabel ==
  [region |-> "none", cdev_out |-> "region", cdev_in |-> "cdev_out",
   proc |-> "cdev_in", handler |-> "proc"]

\* The part removed after this one, in the labels of init and in keycipher_exit.
NextRemoved ==
  [handler |-> "proc", proc |-> "cdev_in", cdev_in |-> "cdev_out",
   cdev_out |-> "region", region |-> "none"]

\* The kernel frees the module: nothing of its memory is left.
free_module ==
  /\ mstate' = "absent"
  /\ ready' = FALSE /\ used' = 0 /\ files' = {}
  /\ misused' = (misused \/ files # {})

insmod ==
  /\ mstate = "absent"
  /\ mstate' = "coming" /\ mpc' = "region"
  /\ UNCHANGED <<reg, ready, files, used, key, misused>>

\* A call of keycipher_init has succeeded, and the next one follows.
passed ==
  /\ mstate = "coming"
  /\ mpc' = NextStage[mpc]
  /\ mstate' = IF NextStage[mpc] = "none" THEN "live" ELSE "coming"
  /\ UNCHANGED <<files, used, key, misused>>

\* alloc_chrdev_region, cdev_add twice, and fifo_init for the FIFOs.
keycipher_init ==
  /\ mpc \in {"region", "cdev_out", "cdev_in", "fifo_init"} /\ passed
  /\ IF mpc = "fifo_init" THEN ready' = TRUE /\ UNCHANGED reg
                          ELSE reg' = reg \cup {mpc} /\ UNCHANGED ready

proc_stats_init ==
  /\ mpc = "proc" /\ passed
  /\ reg' = reg \cup {"proc"}
  /\ UNCHANGED ready

\* input_register_handler: keyboards that are there are connected at once.
input_intercept_init ==
  /\ mpc = "handler" /\ passed
  /\ reg' = reg \cup {"handler"}
  /\ UNCHANGED ready

\* A call fails and init goes to its label; alloc_chrdev_region returns at once.
init_fails ==
  /\ mstate = "coming" /\ mpc \in DOMAIN ErrorLabel
  /\ mpc' = ErrorLabel[mpc]
  /\ IF mpc = "region" THEN free_module
     ELSE mstate' = "unwinding" /\ UNCHANGED <<ready, used, files, misused>>
  /\ UNCHANGED <<reg, key>>

\* rmmod is refused while a file is open.
rmmod ==
  /\ mstate = "live" /\ files = {}
  /\ mstate' = "going" /\ mpc' = "handler"
  /\ UNCHANGED <<reg, ready, files, used, key, misused>>

\* input_unregister_handler waits for an event that is being handled.
input_intercept_exit ==
  /\ mstate = "going" /\ mpc = "handler"
  /\ key = "idle"
  /\ reg' = reg \ {"handler"}
  /\ mpc' = NextRemoved["handler"]
  /\ UNCHANGED <<mstate, ready, files, used, key, misused>>

\* The rest of keycipher_exit, and the error labels.
remove ==
  /\ mstate \in {"unwinding", "going"} /\ mpc \notin {"handler", "none"}
  /\ reg' = reg \ {mpc}
  /\ mpc' = NextRemoved[mpc]
  /\ IF mpc = "region" THEN free_module
     ELSE UNCHANGED <<mstate, ready, used, files, misused>>
  /\ UNCHANGED key

(***************************************************************************)
(* Processes and keyboards                                                 *)
(***************************************************************************)
\* keycipher_open: the kernel finds the device and can still pin the module.
keycipher_open(u) ==
  /\ u \notin files
  /\ device(u) \in reg /\ mstate # "going"
  /\ files' = files \cup {u}
  /\ UNCHANGED <<mstate, mpc, reg, ready, used, key, misused>>

keycipher_release(u) ==
  /\ u \in files
  /\ files' = files \ {u}
  /\ UNCHANGED <<mstate, mpc, reg, ready, used, key, misused>>

\* A call on a device file whose FIFO has not been initialised.
call_too_early(u) ==
  /\ u \in files /\ ~ready
  /\ misused' = TRUE
  /\ UNCHANGED <<mstate, mpc, reg, ready, files, used, key>>

\* Mutant: fifo_read does not free the slot.
keycipher_out_read_NoUp(u) ==
  /\ u \in files \cap OutUsers /\ ready
  /\ used > 0
  /\ UNCHANGED <<mstate, mpc, reg, ready, files, used, key, misused>>

\* keycipher_out_read returns a message.  (What in_write and in_read do to the
\* inbox is in module Inbox.)
keycipher_out_read(u) ==
  /\ u \in files \cap OutUsers /\ ready
  /\ used > 0
  /\ used' = used - 1
  /\ UNCHANGED <<mstate, mpc, reg, ready, files, key, misused>>

\* Enter is pressed, on any keyboard of the machine, and the line is written to
\* the outbox; the handler sleeps when the outbox is full.
input_event_handler ==
  /\ "handler" \in reg /\ key = "idle"
  /\ \/ ready /\ used < FIFO_SIZE /\ used' = used + 1 /\ UNCHANGED <<key, misused>>
     \/ ready /\ used = FIFO_SIZE /\ key' = "asleep" /\ UNCHANGED <<used, misused>>
     \/ ~ready /\ misused' = TRUE /\ UNCHANGED <<used, key>>
  /\ UNCHANGED <<mstate, mpc, reg, ready, files>>

fifo_write_wakes ==
  /\ key = "asleep" /\ used < FIFO_SIZE
  /\ used' = used + 1 /\ key' = "idle"
  /\ UNCHANGED <<mstate, mpc, reg, ready, files, misused>>
=============================================================================
