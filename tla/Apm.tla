-------------------------------- MODULE Apm ---------------------------------
(***************************************************************************)
(* A program that calls the functions of xapm.c in any order.              *)
(***************************************************************************)
EXTENDS XApm

CONSTANT MaxCalls    \* bound on the calls made

VARIABLES reg,    \* register -> bits
          want,   \* field -> the value last set
          calls
vars == <<reg, want, calls>>

Field == {"si", "swd", "wid", "rid", "widmask", "ridmask", "wrs", "wre", "rds", "rde"}
Unset == -1   \* (a pair: <<>>)
Init == /\ reg = [a \in Reg |-> IF a \in {CTL, IS} THEN {} ELSE 0 .. 31]
        /\ want = [fld |-> [f \in Field |-> Unset], met |-> [c \in Counters |-> <<>>],
                   rng |-> [c \in Counters |-> <<>>], log |-> [c \in Counters |-> <<>>]]
        /\ calls = 0

Call(r, w) == /\ calls < MaxCalls /\ calls' = calls + 1 /\ reg' = r /\ want' = w
SetField(f, v, r) == Call(r, [want EXCEPT !.fld[f] = v])

\* Calls that set a field
Set ==
    \/ \E c \in Counters, v \in {0, 5} :
          \/ Call(setmetrics(reg, v, 22 - v, c), [want EXCEPT !.met[c] = <<Bits(v), Bits(22 - v)>>])
          \/ Call(setincrementerrange(reg, c, v + 1, v), [want EXCEPT !.rng[c] = <<Bits(v + 1), Bits(v)>>])
          \/ Call(setlogenableranges(reg, c, v + 1, v), [want EXCEPT !.log[c] = <<Bits(v + 1), Bits(v)>>])
    \/ \E v \in {0, 5} :
          \/ SetField("si", v, setsampleinterval(reg, v)) \/ SetField("swd", v, setswdatareg(reg, v))
          \/ SetField("wid", v, setwriteid(reg, v)) \/ SetField("rid", v, setreadid(reg, v))
          \/ SetField("widmask", v, setwriteidmask(reg, v)) \/ SetField("ridmask", v, setreadidmask(reg, v))
    \/ \E v \in 0 .. 1 :
          \/ SetField("wrs", v, setwrlatencystart(reg, v)) \/ SetField("wre", v, setwrlatencyend(reg, v))
          \/ SetField("rds", v, setrdlatencystart(reg, v)) \/ SetField("rde", v, setrdlatencyend(reg, v))

\* Calls that start, stop or reset something; startcounters sets the interval
Control ==
    \/ \E r \in {resetmetriccounter(reg), resetglobalclkcounter(reg), resetfifo(reg, TRUE), resetfifo(reg, FALSE),
                 enablemetricscounter(reg), disablemetricscounter(reg), enableeventlog(reg),
                 enablemctrigger(reg), disablemctrigger(reg), enableeventlogtrigger(reg),
                 disableeventlogtrigger(reg), enablegcc(reg), disablegcc(reg),
                 starteventlog(reg, {3}), stopeventlog(reg), stopcounters(reg, 0), stopcounters(reg, 1)} :
          Call(r, want)
    \/ \E mode \in 0 .. 1 : SetField("si", 5, startcounters(reg, mode, 5))

Next == Set \/ Control
-----------------------------------------------------------------------------
\* Every field reads back as it was last set, whatever fields of the same
\* register were set and whatever was started, stopped or reset in between.
ReadsBack ==
    LET Got == [si |-> getsampleinterval(reg), swd |-> getswdatareg(reg), wid |-> getwriteid(reg),
                rid |-> getreadid(reg), widmask |-> getwriteidmask(reg), ridmask |-> getreadidmask(reg)]
        Lat == [wrs |-> getwrlatencystart(reg), wre |-> getwrlatencyend(reg),
                rds |-> getrdlatencystart(reg), rde |-> getrdlatencyend(reg)]
    IN  /\ \A f \in DOMAIN Got : want.fld[f] # Unset => Got[f] = Bits(want.fld[f])
        /\ \A f \in DOMAIN Lat : want.fld[f] # Unset => Lat[f] = want.fld[f]
        /\ \A c \in Counters : /\ want.met[c] # <<>> => getmetrics(reg, c) = want.met[c]
                               /\ want.rng[c] # <<>> => getincrementerrange(reg, c) = want.rng[c]
                               /\ want.log[c] # <<>> => getlogenableranges(reg, c) = want.log[c]
=============================================================================
