---------------------------- MODULE MCReadPath ----------------------------
EXTENDS ReadPath

MCRows == <<{0, 1}, {0}>>

\* The log is folder 0, the data files are below folder 9, 30 is at the root.
MCFolderOf == [k \in 1 .. 30 |-> IF k < 9 THEN 0 ELSE IF k < 30 THEN 9 ELSE k]

MCImages == <<(1 :> 1) @@ (11 :> 1) @@ (30 :> 1),
              (1 :> 1) @@ (2 :> 1) @@ (12 :> 1) @@ (30 :> 2)>>

MCRequests ==
    {[prefix |-> Before, delim |-> TRUE], [prefix |-> Before, delim |-> FALSE],
     [prefix |-> 9, delim |-> TRUE]}

None == [lazy |-> FALSE, require |-> FALSE, images |-> FALSE, damage |-> FALSE, files |-> 0,
         gets |-> 0, keys |-> {}, stops |-> 0, pages |-> {}]

Python(strategy, limit, pin, durable, bound, pages) ==
    [agent |-> "python", strategy |-> strategy, limit |-> limit, pin |-> pin,
     durable |-> durable, events |-> bound, pages |-> pages] @@ None

Fronted(agent, settings) ==
    settings @@ [agent |-> agent, strategy |-> "auto", limit |-> 1, pin |-> TRUE,
                 durable |-> FALSE, events |-> 0] @@ None

MCDeployments ==
    {Python("auto", 1, TRUE, TRUE, 2, {}), Python("full", 2, FALSE, TRUE, 1, {}),
     Python("auto", 2, TRUE, FALSE, 2, {}), Python("auto", 1, TRUE, TRUE, 0, {1, 2}),
     Fronted("mount", [files |-> 1, gets |-> 1, keys |-> {30}, pages |-> {1}]),
     \* generations, the refresher alone
     Fronted("native", [require |-> TRUE, images |-> TRUE, damage |-> TRUE, gets |-> 1,
                      keys |-> {30}, pages |-> {1, 2}]),
     \* generations, workers activate too
     Fronted("native", [lazy |-> TRUE, require |-> TRUE, images |-> TRUE, gets |-> 2,
                      keys |-> {2, 30}]),
     \* objects at the root, on request
     Fronted("native", [lazy |-> TRUE, gets |-> 2, keys |-> {2}]),
     \* objects at the root until a generation is published
     Fronted("native", [images |-> TRUE, files |-> 1, gets |-> 3, keys |-> {30}, stops |-> 1])}
============================================================================
