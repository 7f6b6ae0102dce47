-------------------------- MODULE MCControlEndpoint --------------------------
(***************************************************************************)
(* Values for ControlEndpoint: requests of every kind the library tells    *)
(* apart, some of them refused.                                            *)
(***************************************************************************)
EXTENDS ControlEndpoint

Make(type, name, in, v1, v0, i0, n) ==
  [type |-> type, name |-> name, in |-> in, v1 |-> v1, v0 |-> v0, i1 |-> 0, i0 |-> i0,
   length |-> n]
Get(type, name, v1, v0, n) == Make(type, name, TRUE, v1, v0, 0, n)
Set(type, name, v0, i0)    == Make(type, name, FALSE, 0, v0, i0, 0)

MCStringSize == [i \in 0 .. 2 |-> i + 1]
SplitStringSize == [i \in 0 .. 2 |-> i + 2]

Enumeration ==
  {Set("device", "SET_ADDRESS", 5, 0), Set("device", "SET_CONFIGURATION", 1, 0)}

\* The halt of endpoint 0, by which these requests are served themselves.
HaltIn == Set("endpoint", "SET_FEATURE", 0, 128)
Own ==
  {HaltIn, Set("endpoint", "CLEAR_FEATURE", 0, 128), Set("endpoint", "SET_FEATURE", 0, 0)}

\* What is read, a string that does not exist among it, and two requests of
\* the class, one with data from the host.
Reads ==
  {Get("device", "GET_DESCRIPTOR", 1, 0, 3), Get("device", "GET_DESCRIPTOR", 2, 0, 9),
   Get("device", "GET_DESCRIPTOR", 3, 2, 2), Get("device", "GET_DESCRIPTOR", 3, 238, 3),
   Get("device", "GET_STATUS", 0, 0, 2), Get("device", "GET_CONFIGURATION", 0, 0, 1),
   Get("interface", "GET_INTERFACE", 0, 0, 1), Make("endpoint", "GET_STATUS", TRUE, 0, 0, 129, 2),
   Get("class", "GET_LINE_CODING", 0, 0, 7), Make("class", "SET_LINE_CODING", FALSE, 0, 0, 0, 7)}

MCRequests == Enumeration \cup Own \cup Reads

\* What changes the device, and what is refused before and after it is
\* configured.
Changes ==
  {Set("device", "SET_CONFIGURATION", 0, 0), Set("device", "SET_CONFIGURATION", 2, 0),
   Set("device", "SET_FEATURE", 1, 0), Set("device", "CLEAR_FEATURE", 1, 0),
   Set("interface", "SET_INTERFACE", 0, 0), Set("endpoint", "SET_FEATURE", 0, 129),
   Set("endpoint", "CLEAR_FEATURE", 0, 129)}

\* Descriptors of one, two and three packets, whole packets and not, read
\* whole and in part.
Descriptors ==
  {Get("device", "GET_DESCRIPTOR", 1, 0, n) : n \in {1, 4, 9}}
    \cup {Get("device", "GET_DESCRIPTOR", 2, 0, n) : n \in {4, 9}}
    \cup {Get("device", "GET_DESCRIPTOR", 3, 0, n) : n \in {1, 9}}

MCPackets == Enumeration \cup {HaltIn} \cup Changes \cup Descriptors
=============================================================================
