-------------------------- MODULE MCAllocatorRetry --------------------------
(* Sizes in bytes, with the units of the code: 256 bytes. *)
EXTENDS AllocatorRetry

CONSTANTS t1, t2

Work(threads, maxHeld, limit, region, spare, requests) ==
    [threads |-> threads, maxHeld |-> maxHeld, limit |-> limit, region |-> region,
     spare |-> spare, requests |-> requests]

\* With and without allow_growth: regions of 2 units and more, or a single one.
Limit == 22 * 256 + 100
MCWorks == {Work({t1}, 3, 8 * 256, 2, Plenty, {1, 3 * 256 - 3}),
            Work({t1}, 3, 8 * 256, 8, Plenty, {1, 3 * 256 - 3}),
            Work({t1, t2}, 2, 8 * 256, 8, Plenty, {1, 5 * 256}),
            Work({t1, t2}, 2, Limit, RoundedBytes(Limit), {20, 10}, {0, 1, 19 * 256})}
=============================================================================
