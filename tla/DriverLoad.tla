----------------------------- MODULE DriverLoad -----------------------------
(***************************************************************************)
(* Loading and unloading the two kernel modules, drivers/lmalloc.c and     *)
(* drivers/lmcache_ops.c: a device class, a character device and a device  *)
(* node are created in that order, each may fail, and all are taken back   *)
(* on failure and on exit.  The kernel's device model is external.         *)
(***************************************************************************)
EXTENDS Naturals

CONSTANT MaxOpen   \* files open on one device

VARIABLES at,      \* driver -> "out", "chrdev", "device" (in its init) or "in"
          class,   \* driver -> its class exists
          chrdev,  \* driver -> its major number is registered
          node,    \* driver -> "none", "ours", "stray" (a node of no driver)
          files    \* driver -> open files, which hold the module

vars == <<at, class, chrdev, node, files>>
Drivers == {"lmalloc", "lmcache"}

Init == /\ at = [d \in Drivers |-> "out"] /\ class = [d \in Drivers |-> FALSE]
        /\ chrdev = class /\ node = [d \in Drivers |-> "none"]
        /\ files = [d \in Drivers |-> 0]

Goto(d, where) == at' = [at EXCEPT ![d] = where]

class_create(d) ==
    /\ at[d] = "out"
    /\ \E ok \in BOOLEAN : /\ class' = [class EXCEPT ![d] = ok]
                           /\ Goto(d, IF ok THEN "chrdev" ELSE "out")
    /\ UNCHANGED <<chrdev, node, files>>

\* devno is a dev_t, which is unsigned: the test devno < 0 never holds, and a
\* refused registration goes on to device_create with the error as its number
register_chrdev(d) ==
    /\ at[d] = "chrdev"
    /\ \E ok \in BOOLEAN : chrdev' = [chrdev EXCEPT ![d] = ok]
    /\ Goto(d, "device") /\ UNCHANGED <<class, node, files>>

\* device_destroy where there is one, unregister_chrdev, class_destroy
Unwind(d) == /\ chrdev' = [chrdev EXCEPT ![d] = FALSE] /\ class' = [class EXCEPT ![d] = FALSE]
             /\ node' = [node EXCEPT ![d] = "none"] /\ Goto(d, "out")

device_create(d) ==
    /\ at[d] = "device"
    /\ \/ Unwind(d)
       \/ /\ node' = [node EXCEPT ![d] = IF chrdev[d] THEN "ours" ELSE "stray"]
          /\ Goto(d, "in") /\ UNCHANGED <<class, chrdev>>
    /\ UNCHANGED files

\* The kernel unloads a module only when no file holds it
module_exit(d) == at[d] = "in" /\ files[d] = 0 /\ Unwind(d) /\ UNCHANGED files

Open(d) == /\ node[d] = "ours" /\ files[d] < MaxOpen
           /\ files' = [files EXCEPT ![d] = @ + 1] /\ UNCHANGED <<at, class, chrdev, node>>
Close(d) == /\ files[d] > 0
            /\ files' = [files EXCEPT ![d] = @ - 1] /\ UNCHANGED <<at, class, chrdev, node>>

lma_init == class_create("lmalloc") \/ register_chrdev("lmalloc") \/ device_create("lmalloc")
lma_exit == module_exit("lmalloc")
lmc_init == class_create("lmcache") \/ register_chrdev("lmcache") \/ device_create("lmcache")
lmc_exit == module_exit("lmcache")
Next == lma_init \/ lma_exit \/ lmc_init \/ lmc_exit \/ \E d \in Drivers : Open(d) \/ Close(d)
-----------------------------------------------------------------------------
\* A driver that is not loaded, because it was removed or because a step of
\* its initialisation failed, has left nothing registered; an open file has
\* its driver behind it, whatever the other driver does; and a node, even a
\* stray one, never outlives its class.
UnloadsClean ==
    \A d \in Drivers :
       /\ at[d] = "out" => ~class[d] /\ ~chrdev[d] /\ node[d] = "none"
       /\ files[d] > 0 => at[d] = "in" /\ chrdev[d] /\ node[d] = "ours"
       /\ node[d] # "none" => class[d]
=============================================================================
