-------------------------- MODULE PythonPackageProofs -------------------------
(***************************************************************************)
(* Proofs about the Python package: ProviderRuntime for any threads,       *)
(* assemblies, places and disks, and PythonWrappers for any texts and any  *)
(* URIs.                                                                   *)
(*                                                                         *)
(* The loader. What a thread may rely on is said per thread: which phase   *)
(* may follow which and what the earlier phases of the call have left      *)
(* behind (KnowsItsPhase), and, as long as nobody has written to the disk, *)
(* that it has settled on the first file of each search path               *)
(* (KnowsTheDisk). A step of another thread leaves both alone, since a     *)
(* process only ever gains assemblies.                                     *)
(*                                                                         *)
(* The wrappers. The catalogue is looked up type by type (Known), each     *)
(* wrapper class is shown to agree with the type it names (Sound), and the *)
(* inductive invariant SurfaceInv says of the object and of the contract   *)
(* in the caller's hands that every member fits what its type declares,    *)
(* and of the last answer what a reader may conclude from it. Contracts    *)
(* are followed by position: the argument of a constructor, the parameter  *)
(* of the bridge, the member of the settings and the attribute that shows  *)
(* it (Carried), and from the settings to their metadata (MetadataTells).  *)
(***************************************************************************)
EXTENDS ProviderRuntime, PythonWrappers, SequenceTheorems, FiniteSetTheorems, FunctionTheorems,
        WellFoundedInduction, TLAPS

-----------------------------------------------------------------------------
(* The order of the phases.                                                *)

\* Phase y may come right after phase x.
Follows(x, y) ==
  /\ y = "require" => x = "resolve"
  /\ y = "clr" => x = "require"
  /\ y = "reference" => x = "clr"
  /\ y = "system" => x = "reference"
  /\ y = "type" => x = "system"
  /\ y = "object" => x \in {"type", "system"}
  /\ y # "missing"

Ordered(q) == \A i \in 1..Len(q) : i > 1 => Follows(q[i - 1], q[i])

\* A call that begins with a search.
Searching(q) ==
  q \in Seq(PhaseNames) /\ q # <<>> /\ Ordered(q) /\ q[1] = "resolve"

\* A load is behind, in this call.
LoadPassed(q) ==
  /\ q # <<>>
  /\ \/ Head(q) \in {"type", "object"}
     \/ Head(q) = "system" /\ Len(q) > 1 /\ q[2] \in {"type", "object"}

\* What Len and DOMAIN of a concatenation are, and where its elements are.
LEMMA Concatenation ==
  ASSUME NEW S, NEW s \in Seq(S), NEW u \in Seq(S)
  PROVE  /\ s \o u \in Seq(S)
         /\ Len(s) \in Nat /\ Len(u) \in Nat /\ Len(s \o u) = Len(s) + Len(u)
         /\ DOMAIN s = 1..Len(s) /\ DOMAIN u = 1..Len(u) /\ DOMAIN (s \o u) = 1..Len(s \o u)
         /\ \A i \in 1..Len(s) : (s \o u)[i] = s[i]
         /\ \A i \in 1..Len(u) : (s \o u)[Len(s) + i] = u[i]
OBVIOUS

\* Sequences of phases join where the second may follow the first.
LEMMA Join ==
  ASSUME NEW s \in Seq(PhaseNames), NEW u \in Seq(PhaseNames), s # <<>>, u # <<>>,
         Ordered(s), Ordered(u), Follows(s[Len(s)], u[1])
  PROVE  /\ s \o u \in Seq(PhaseNames) /\ s \o u # <<>> /\ Ordered(s \o u)
         /\ (s \o u)[1] = s[1]
         /\ Len(s) = 1 => (s \o u)[2] = u[1]
         /\ Len(s) > 1 => (s \o u)[2] = s[2]
         /\ (s \o u)[Len(s \o u)] = u[Len(u)]
         /\ Len(s \o u) = Len(s) + Len(u)
<1> DEFINE q == s \o u
<1>1. /\ q \in Seq(PhaseNames)
      /\ Len(s) \in Nat /\ Len(u) \in Nat /\ Len(q) = Len(s) + Len(u)
      /\ Len(s) > 0 /\ Len(u) > 0
      /\ \A i \in 1..Len(s) : q[i] = s[i]
      /\ \A i \in 1..Len(u) : q[Len(s) + i] = u[i]
  BY Concatenation
<1> HIDE DEF q
<1>2. ASSUME NEW i \in 1..Len(q), i > 1, i <= Len(s) PROVE Follows(q[i - 1], q[i])
  <2>1. i \in 1..Len(s) /\ i - 1 \in 1..Len(s)
    BY <1>1, <1>2
  <2>2. q[i] = s[i] /\ q[i - 1] = s[i - 1]
    BY <1>1, <2>1
  <2> QED
    BY <1>2, <2>1, <2>2 DEF Ordered
<1>3. q[Len(s)] = s[Len(s)] /\ q[Len(s) + 1] = u[1] /\ q[Len(s) + Len(u)] = u[Len(u)]
  <2>1. Len(s) \in 1..Len(s) /\ 1 \in 1..Len(u) /\ Len(u) \in 1..Len(u)
    BY <1>1
  <2> QED
    BY <1>1, <2>1
<1>4. ASSUME NEW i \in 1..Len(q), i = Len(s) + 1 PROVE Follows(q[i - 1], q[i])
  <2>1. i - 1 = Len(s)
    BY <1>1, <1>4
  <2> QED
    BY <1>3, <1>4, <2>1
<1>5. ASSUME NEW i \in 1..Len(q), i > Len(s) + 1 PROVE Follows(q[i - 1], q[i])
  <2> DEFINE j == i - Len(s)
  <2>1. j \in 1..Len(u) /\ j > 1 /\ j - 1 \in 1..Len(u)
        /\ Len(s) + j = i /\ Len(s) + (j - 1) = i - 1
    BY <1>1, <1>5
  <2> HIDE DEF j
  <2>2. q[Len(s) + j] = u[j] /\ q[Len(s) + (j - 1)] = u[j - 1]
    BY <1>1, <2>1
  <2>3. Follows(u[j - 1], u[j])
    BY <2>1 DEF Ordered
  <2> QED
    BY <2>1, <2>2, <2>3
<1>6. \A i \in 1..Len(q) : i <= Len(s) \/ i = Len(s) + 1 \/ i > Len(s) + 1
  BY <1>1
<1>7. Ordered(q)
  BY <1>2, <1>4, <1>5, <1>6 DEF Ordered
<1>8. q[1] = s[1] /\ (Len(s) = 1 => q[2] = u[1]) /\ (Len(s) > 1 => q[2] = s[2])
  <2>1. 1 \in 1..Len(s) /\ (Len(s) > 1 => 2 \in 1..Len(s)) /\ (Len(s) = 1 => 2 = Len(s) + 1)
    BY <1>1
  <2> QED
    BY <1>1, <1>3, <2>1
<1>9. q # <<>> /\ q[Len(q)] = u[Len(u)]
  BY <1>1, <1>3
<1> QED
  BY <1>1, <1>7, <1>8, <1>9 DEF q

\* A call may be made after another one, whatever that ends with.
LEMMA SearchAgain ==
  ASSUME NEW s, NEW u, Searching(s), Searching(u)
  PROVE  Searching(s \o u) /\ (s \o u)[Len(s \o u)] = u[Len(u)]
<1>1. Follows(s[Len(s)], u[1])
  BY DEF Searching, Follows
<1> QED
  BY <1>1, Join DEF Searching

\* The sequences the calls are put together from.
LEMMA Literals ==
  /\ Searching(<< "resolve" >>) /\ Searching(<< "resolve", "require" >>)
  /\ Searching(load_provider_runtime)
  /\ load_provider_runtime[Len(load_provider_runtime)] = "reference"
  /\ << "system" >> \in Seq(PhaseNames) /\ << "system" >> # <<>> /\ Ordered(<< "system" >>)
  /\ << "system" >>[1] = "system" /\ Len(<< "system" >>) = 1
  /\ << "object" >> \in Seq(PhaseNames) /\ << "object" >> # <<>> /\ Ordered(<< "object" >>)
  /\ << "object" >>[1] = "object" /\ Len(<< "object" >>) = 1
  /\ << "system", "type" >> \in Seq(PhaseNames) /\ << "system", "type" >> # <<>>
  /\ Ordered(<< "system", "type" >>)
  /\ << "system", "type" >>[1] = "system" /\ Len(<< "system", "type" >>) = 2
  /\ << "system", "type" >>[2] = "type"
<1>1. ASSUME NEW q \in Seq(PhaseNames), Len(q) = 1 PROVE Ordered(q)
  BY <1>1 DEF Ordered
<1>2. ASSUME NEW q \in Seq(PhaseNames), Len(q) = 2, Follows(q[1], q[2]) PROVE Ordered(q)
  <2>1. \A i \in 1..2 : i > 1 => i = 2 /\ i - 1 = 1
    OBVIOUS
  <2> QED
    BY <1>2, <2>1 DEF Ordered
<1>3. ASSUME NEW q \in Seq(PhaseNames), Len(q) = 4, Follows(q[1], q[2]),
             Follows(q[2], q[3]), Follows(q[3], q[4])
      PROVE  Ordered(q)
  <2>1. \A i \in 1..4 : i > 1 => \/ i = 2 /\ i - 1 = 1
                                 \/ i = 3 /\ i - 1 = 2
                                 \/ i = 4 /\ i - 1 = 3
    OBVIOUS
  <2> QED
    BY <1>3, <2>1 DEF Ordered
<1>4. /\ << "resolve" >> \in Seq(PhaseNames) /\ Len(<< "resolve" >>) = 1
      /\ << "resolve" >> # <<>> /\ << "resolve" >>[1] = "resolve"
  BY DEF PhaseNames
<1>5. /\ << "resolve", "require" >> \in Seq(PhaseNames) /\ Len(<< "resolve", "require" >>) = 2
      /\ << "resolve", "require" >> # <<>>
      /\ << "resolve", "require" >>[1] = "resolve" /\ << "resolve", "require" >>[2] = "require"
  BY DEF PhaseNames
<1>6. Searching(<< "resolve" >>)
  BY <1>1, <1>4 DEF Searching
<1>7. Searching(<< "resolve", "require" >>)
  <2>1. Follows("resolve", "require")
    BY DEF Follows
  <2> QED
    BY <1>2, <1>5, <2>1 DEF Searching
<1>8. /\ << "system", "type" >> \in Seq(PhaseNames) /\ Len(<< "system", "type" >>) = 2
      /\ << "system", "type" >> # <<>>
      /\ << "system", "type" >>[1] = "system" /\ << "system", "type" >>[2] = "type"
  BY DEF PhaseNames
<1>9. Ordered(<< "system", "type" >>)
  <2>1. Follows("system", "type")
    BY DEF Follows
  <2> QED
    BY <1>2, <1>8, <2>1
<1>10. /\ << "system" >> \in Seq(PhaseNames) /\ Len(<< "system" >>) = 1
       /\ << "system" >> # <<>> /\ << "system" >>[1] = "system"
       /\ << "object" >> \in Seq(PhaseNames) /\ Len(<< "object" >>) = 1
       /\ << "object" >> # <<>> /\ << "object" >>[1] = "object"
  BY DEF PhaseNames
<1>11. Ordered(<< "system" >>) /\ Ordered(<< "object" >>)
  BY <1>1, <1>10
<1>12. Searching(load_provider_runtime)
       /\ load_provider_runtime[Len(load_provider_runtime)] = "reference"
  <2> DEFINE q == load_provider_runtime
  <2>1. /\ q \in Seq(PhaseNames) /\ q # <<>> /\ Len(q) = 4
        /\ q[1] = "resolve" /\ q[2] = "require" /\ q[3] = "clr" /\ q[4] = "reference"
    BY DEF load_provider_runtime, PhaseNames
  <2> HIDE DEF q
  <2>2. Follows("resolve", "require") /\ Follows("require", "clr") /\ Follows("clr", "reference")
    BY DEF Follows
  <2>3. Ordered(q)
    BY <1>3, <2>1, <2>2
  <2> QED
    BY <2>1, <2>3 DEF Searching, q
<1> QED
  BY <1>6, <1>7, <1>8, <1>9, <1>10, <1>11, <1>12

\* How each call begins and ends.
LEMMA PartsOfCalls ==
  /\ Searching(managed_type) /\ managed_type[Len(managed_type)] = "type"
  /\ Searching(object_array) /\ object_array[Len(object_array)] = "system"
<1>1. ASSUME NEW u \in Seq(PhaseNames), u # <<>>, Ordered(u), u[1] = "system"
      PROVE  /\ Searching(load_provider_runtime \o u)
             /\ (load_provider_runtime \o u)[Len(load_provider_runtime \o u)] = u[Len(u)]
  <2>1. Follows(load_provider_runtime[Len(load_provider_runtime)], u[1])
    BY <1>1, Literals DEF Follows
  <2> QED
    BY <1>1, <2>1, Join, Literals DEF Searching
<1>2. \A u \in Seq(PhaseNames) : u # <<>> /\ Ordered(u) /\ u[1] = "system" =>
        /\ Searching(load_provider_runtime \o u)
        /\ (load_provider_runtime \o u)[Len(load_provider_runtime \o u)] = u[Len(u)]
  BY <1>1
<1>3. \A u : u = << "system", "type" >> =>
        /\ u \in Seq(PhaseNames) /\ u # <<>> /\ Ordered(u) /\ u[1] = "system" /\ u[Len(u)] = "type"
  BY Literals
<1>4. \A u : u = << "system" >> =>
        /\ u \in Seq(PhaseNames) /\ u # <<>> /\ Ordered(u) /\ u[1] = "system" /\ u[Len(u)] = "system"
  BY Literals
<1>5. \A u : u = << "system", "type" >> =>
        /\ Searching(load_provider_runtime \o u)
        /\ (load_provider_runtime \o u)[Len(load_provider_runtime \o u)] = "type"
  BY <1>2, <1>3
<1>6. \A u : u = << "system" >> =>
        /\ Searching(load_provider_runtime \o u)
        /\ (load_provider_runtime \o u)[Len(load_provider_runtime \o u)] = "system"
  BY <1>2, <1>4
<1> QED
  BY <1>5, <1>6 DEF managed_type, object_array

\* An object is created by a type that is known, or by System alone.
LEMMA ObjectLast ==
  ASSUME NEW s, Searching(s), s[Len(s)] \in {"type", "system"}
  PROVE  Searching(s \o << "object" >>)
<1>1. ASSUME NEW u, u = << "object" >> PROVE Searching(s \o u)
  <2>1. u \in Seq(PhaseNames) /\ u # <<>> /\ Ordered(u) /\ u[1] = "object"
    BY <1>1, Literals
  <2>2. Follows(s[Len(s)], u[1])
    BY <2>1 DEF Follows
  <2> HIDE <1>1
  <2> QED
    BY <2>1, <2>2, Join DEF Searching
<1> QED
  BY <1>1

\* Every call is an ordered sequence that begins with a search; the one that
\* begins with System goes on with a search.
LEMMA CallsAreOrdered ==
  ASSUME NEW p \in DOMAIN Phases
  PROVE  /\ Phases[p] \in Seq(PhaseNames) /\ Phases[p] # <<>> /\ Ordered(Phases[p])
         /\ \/ Phases[p][1] = "resolve"
            \/ /\ p = "create_with_arguments" /\ Phases[p][1] = "system"
               /\ Len(Phases[p]) > 1 /\ Phases[p][2] = "resolve"
<1>1. Searching(create_managed)
  <2>1. create_managed = (object_array \o managed_type) \o << "object" >>
    BY DEF create_managed, object_array
  <2>2. /\ Searching(object_array \o managed_type)
        /\ (object_array \o managed_type)[Len(object_array \o managed_type)] = "type"
    BY PartsOfCalls, SearchAgain
  <2> QED
    BY <2>1, <2>2, ObjectLast
<1>2. Searching(call_static)
  <2>1. /\ Searching(managed_type \o object_array)
        /\ (managed_type \o object_array)[Len(managed_type \o object_array)] = "system"
    BY PartsOfCalls, SearchAgain
  <2> QED
    BY <2>1, ObjectLast DEF call_static
<1>3. Searching(exception_types)
  <2>1. \A s : Searching(s) => Searching(s \o managed_type)
    BY PartsOfCalls, SearchAgain
  <2> QED
    BY <2>1, PartsOfCalls DEF exception_types
<1>4. /\ create_with_arguments \in Seq(PhaseNames) /\ create_with_arguments # <<>>
      /\ Ordered(create_with_arguments) /\ create_with_arguments[1] = "system"
      /\ Len(create_with_arguments) > 1 /\ create_with_arguments[2] = "resolve"
  <2>1. ASSUME NEW s \in Seq(PhaseNames), s # <<>>, Ordered(s), s[1] = "system", Len(s) = 1
        PROVE  /\ s \o managed_type \in Seq(PhaseNames) /\ Ordered(s \o managed_type)
               /\ (s \o managed_type)[1] = "system" /\ (s \o managed_type)[2] = "resolve"
               /\ Len(s \o managed_type) > 1 /\ s \o managed_type # <<>>
               /\ (s \o managed_type)[Len(s \o managed_type)] = "type"
    <3>1. Follows(s[Len(s)], managed_type[1])
      BY PartsOfCalls DEF Follows, Searching
    <3>2. /\ managed_type \in Seq(PhaseNames) /\ managed_type # <<>> /\ Ordered(managed_type)
          /\ Len(managed_type) > 0 /\ managed_type[1] = "resolve"
      BY PartsOfCalls DEF Searching
    <3>3. Len(s \o managed_type) = Len(s) + Len(managed_type)
      BY <2>1, <3>1, <3>2, Join
    <3>4. Len(s \o managed_type) > 1
      <4> HIDE DEF managed_type
      <4> DEFINE m == managed_type
                 q == s \o managed_type
      <4>1. Len(q) = Len(s) + Len(m) /\ m \in Seq(PhaseNames) /\ Len(m) > 0
        BY <3>2, <3>3
      <4> HIDE DEF m, q
      <4>2. Len(q) > 1
        BY <2>1, <4>1
      <4> QED
        BY <4>2 DEF q
    <3> QED
      BY <2>1, <3>1, <3>2, <3>4, Join, PartsOfCalls
  <2>2. ASSUME NEW s \in Seq(PhaseNames), s # <<>>, Ordered(s), Len(s) > 1, s[Len(s)] = "type",
               NEW u \in Seq(PhaseNames), u # <<>>, Ordered(u), Len(u) = 1, u[1] = "object"
        PROVE  /\ s \o u \in Seq(PhaseNames) /\ Ordered(s \o u) /\ s \o u # <<>>
               /\ (s \o u)[1] = s[1] /\ (s \o u)[2] = s[2] /\ Len(s \o u) > 1
    <3>1. Follows(s[Len(s)], u[1])
      BY <2>2 DEF Follows
    <3>2. Len(s \o u) = Len(s) + Len(u)
      BY <2>2, <3>1, Join
    <3>3. Len(s \o u) > 1
      BY <2>2, <3>2
    <3> QED
      BY <2>2, <3>1, <3>3, Join
  <2>3. \A s, u : s = << "system" >> /\ u = << "object" >> =>
          LET q == (s \o managed_type) \o u IN
          /\ q \in Seq(PhaseNames) /\ q # <<>> /\ Ordered(q)
          /\ q[1] = "system" /\ Len(q) > 1 /\ q[2] = "resolve"
    <3>1. \A s : s = << "system" >> =>
            s \in Seq(PhaseNames) /\ s # <<>> /\ Ordered(s) /\ s[1] = "system" /\ Len(s) = 1
      BY Literals
    <3>2. \A u : u = << "object" >> =>
            u \in Seq(PhaseNames) /\ u # <<>> /\ Ordered(u) /\ Len(u) = 1 /\ u[1] = "object"
      BY Literals
    <3>3. ASSUME NEW s \in Seq(PhaseNames), s # <<>>, Ordered(s), s[1] = "system", Len(s) = 1,
                 NEW u \in Seq(PhaseNames), u # <<>>, Ordered(u), Len(u) = 1, u[1] = "object"
          PROVE  LET q == (s \o managed_type) \o u IN
                 /\ q \in Seq(PhaseNames) /\ q # <<>> /\ Ordered(q)
                 /\ q[1] = "system" /\ Len(q) > 1 /\ q[2] = "resolve"
      <4> DEFINE m == s \o managed_type
      <4>1. /\ m \in Seq(PhaseNames) /\ Ordered(m) /\ m # <<>> /\ Len(m) > 1
            /\ m[1] = "system" /\ m[2] = "resolve" /\ m[Len(m)] = "type"
        BY <2>1, <3>3
      <4> HIDE DEF m
      <4>2. /\ m \o u \in Seq(PhaseNames) /\ m \o u # <<>> /\ Ordered(m \o u)
            /\ (m \o u)[1] = m[1] /\ Len(m \o u) > 1 /\ (m \o u)[2] = m[2]
        BY <2>2, <3>3, <4>1
      <4> QED
        BY <4>1, <4>2 DEF m
    <3> QED
      BY <3>1, <3>2, <3>3
  <2> QED
    BY <2>3 DEF create_with_arguments
<1>5. p \in {"provider_assemblies", "require_provider_assemblies", "load_provider_runtime",
             "create_managed", "create_with_arguments", "call_static", "exception_types"}
  BY DEF Phases
<1>6. /\ Phases.provider_assemblies = << "resolve" >>
      /\ Phases.require_provider_assemblies = << "resolve", "require" >>
      /\ Phases.load_provider_runtime = load_provider_runtime
      /\ Phases.create_managed = create_managed
      /\ Phases.create_with_arguments = create_with_arguments
      /\ Phases.call_static = call_static
      /\ Phases.exception_types = exception_types
  BY DEF Phases
<1>7. CASE p = "create_with_arguments"
  BY <1>4, <1>6, <1>7
<1>8. CASE p # "create_with_arguments"
  <2>1. Searching(Phases[p])
    BY <1>1, <1>2, <1>3, <1>5, <1>6, <1>8, Literals
  <2> QED
    BY <2>1 DEF Searching
<1> QED
  BY <1>7, <1>8

\* The next phase may follow the one that is over, and a load is behind if
\* one was, or if that was what is over.
LEMMA NextPhase ==
  ASSUME NEW q \in Seq(PhaseNames), q # <<>>, Ordered(q)
  PROVE  /\ Tail(q) \in Seq(PhaseNames) /\ Ordered(Tail(q))
         /\ Tail(q) # <<>> => Follows(Head(q), Head(Tail(q)))
         /\ Tail(q) = <<>> <=> Len(q) = 1
         /\ LoadPassed(Tail(q)) => LoadPassed(q) \/ Head(q) = "reference"
<1> DEFINE r == Tail(q)
<1>1. /\ r \in Seq(PhaseNames) /\ Len(q) \in Nat /\ Len(q) > 0 /\ Len(r) = Len(q) - 1
      /\ \A i \in 1..Len(r) : r[i] = q[i + 1]
      /\ Head(q) = q[1]
      /\ r # <<>> => Head(r) = r[1] /\ Len(r) > 0
      /\ r = <<>> <=> Len(r) = 0
  <2>1. Len(q) \in Nat /\ Len(q) > 0 /\ Head(q) = q[1]
    OBVIOUS
  <2>2. Tail(q) \in Seq(PhaseNames) /\ Len(Tail(q)) = Len(q) - 1
    BY HeadTailProperties
  <2>3. \A i \in 1..Len(Tail(q)) : Tail(q)[i] = q[i + 1]
    BY HeadTailProperties
  <2>4. ASSUME NEW w \in Seq(PhaseNames)
        PROVE  /\ w = <<>> <=> Len(w) = 0
               /\ w # <<>> => Head(w) = w[1] /\ Len(w) > 0
    OBVIOUS
  <2> QED
    BY <2>1, <2>2, <2>3, <2>4
<1> HIDE DEF r
<1>2. ASSUME NEW i \in 1..Len(r), i > 1 PROVE Follows(r[i - 1], r[i])
  <2>1. i \in 1..Len(r) /\ i - 1 \in 1..Len(r) /\ i + 1 \in 1..Len(q) /\ i + 1 > 1
        /\ (i - 1) + 1 = i /\ (i + 1) - 1 = i
    BY <1>1, <1>2
  <2>2. r[i] = q[i + 1] /\ r[i - 1] = q[i]
    BY <1>1, <2>1
  <2> QED
    BY <2>1, <2>2 DEF Ordered
<1>3. r # <<>> => Head(r) = q[2] /\ Follows(q[1], q[2])
  <2>1. r # <<>> => 1 \in 1..Len(r) /\ 2 \in 1..Len(q) /\ 2 > 1 /\ 2 - 1 = 1 /\ 1 + 1 = 2
    BY <1>1
  <2> QED
    BY <1>1, <2>1 DEF Ordered
<1>4. Len(r) > 1 => r[2] = q[3]
  <2>1. Len(r) > 1 => 2 \in 1..Len(r) /\ 2 + 1 = 3
    BY <1>1
  <2> QED
    BY <1>1, <2>1
<1>5. LoadPassed(r) => LoadPassed(q) \/ Head(q) = "reference"
  BY <1>1, <1>3 DEF LoadPassed, Follows
<1>6. Ordered(r)
  BY <1>2 DEF Ordered
<1> QED
  BY <1>1, <1>3, <1>5, <1>6 DEF r

-----------------------------------------------------------------------------
(* The search path.                                                        *)

\* The place a search for a settles on: the first file of the path, or the
\* package's own folder if there is none.
IsFirst(a, place) ==
  \/ /\ \A j \in DOMAIN SearchPath(a) : ~Exists(a, SearchPath(a)[j])
     /\ place = NativeRoot
  \/ \E j \in DOMAIN SearchPath(a) :
       /\ place = SearchPath(a)[j] /\ Exists(a, place)
       /\ \A k \in 1..(j - 1) : ~Exists(a, SearchPath(a)[k])

\* The assemblies of which no search finds a file.
Absent == {a \in Names : \A j \in DOMAIN SearchPath(a) : ~Exists(a, SearchPath(a)[j])}

LEMMA PathType ==
  ASSUME NEW a \in Names
  PROVE  /\ SearchPath(a) \in Seq(Places)
         /\ 1 \in DOMAIN SearchPath(a) /\ SearchPath(a)[1] = NativeRoot
         /\ DOMAIN SearchPath(a) = 1..Len(SearchPath(a)) /\ Len(SearchPath(a)) \in Nat
<1>1. NativeRoot \in Places /\ << NativeRoot >> \in Seq(Places)
  BY DEF Places
<1>2. AssemblyRoots \in Seq(Places) /\ Len(AssemblyRoots) > 0 /\ AssemblyRoots[1] = NativeRoot
  <2>1. ASSUME NEW r, r = << NativeRoot >>
        PROVE  r \in Seq(Places) /\ Len(r) = 1 /\ r[1] = NativeRoot
    BY <1>1, <2>1
  <2>2. ASSUME NEW r \in Seq(Places), Len(r) = 1, r[1] = NativeRoot
        PROVE  /\ (r \o BuildRoots) \o OverrideRoots \in Seq(Places)
               /\ Len((r \o BuildRoots) \o OverrideRoots) > 0
               /\ ((r \o BuildRoots) \o OverrideRoots)[1] = NativeRoot
    <3>1. \A s, u \in Seq(Places) :
            Len(s) > 0 => s \o u \in Seq(Places) /\ Len(s \o u) > 0 /\ (s \o u)[1] = s[1]
      <4> TAKE s, u \in Seq(Places)
      <4> HAVE Len(s) > 0
      <4>1. 1 \in 1..Len(s) /\ Len(s) \in Nat /\ Len(u) \in Nat
        OBVIOUS
      <4> DEFINE q == s \o u
      <4>2. q \in Seq(Places) /\ Len(q) = Len(s) + Len(u) /\ \A i \in 1..Len(s) : q[i] = s[i]
        BY Concatenation
      <4> HIDE DEF q
      <4>3. q \in Seq(Places) /\ Len(q) > 0 /\ q[1] = s[1]
        BY <4>1, <4>2
      <4> QED
        BY <4>3 DEF q
    <3> DEFINE m == r \o BuildRoots
    <3>0. BuildRoots \in Seq(Places) /\ OverrideRoots \in Seq(Places) /\ Len(r) > 0
      BY <2>2, RuntimeAssumption
    <3>2. m \in Seq(Places) /\ Len(m) > 0 /\ m[1] = NativeRoot
      BY <2>2, <3>0, <3>1, Zenon
    <3> HIDE DEF m
    <3>3. /\ m \o OverrideRoots \in Seq(Places) /\ Len(m \o OverrideRoots) > 0
          /\ (m \o OverrideRoots)[1] = NativeRoot
      BY <3>0, <3>1, <3>2, Zenon
    <3> QED
      BY <3>3 DEF m
  <2> QED
    BY <2>1, <2>2 DEF AssemblyRoots
<1>3. NuGetPlaces(a) \in Seq(Places)
  BY RuntimeAssumption DEF NuGetPlaces
<1> QED
  BY <1>2, <1>3 DEF SearchPath

\* What a search settles on exists unless the assembly is absent.
LEMMA FirstExists ==
  ASSUME NEW a \in Names, NEW place, IsFirst(a, place)
  PROVE  Exists(a, place) <=> a \notin Absent
BY PathType DEF IsFirst, Absent

\* A search settles on one place only.
LEMMA FirstIsOne ==
  ASSUME NEW a \in Names, NEW p1, NEW p2, IsFirst(a, p1), IsFirst(a, p2)
  PROVE  p1 = p2
<1>1. CASE \A j \in DOMAIN SearchPath(a) : ~Exists(a, SearchPath(a)[j])
  BY <1>1 DEF IsFirst
<1>2. CASE ~\A j \in DOMAIN SearchPath(a) : ~Exists(a, SearchPath(a)[j])
  <2>1. PICK i \in DOMAIN SearchPath(a) :
          /\ p1 = SearchPath(a)[i] /\ Exists(a, p1)
          /\ \A k \in 1..(i - 1) : ~Exists(a, SearchPath(a)[k])
    BY <1>2 DEF IsFirst
  <2>2. PICK j \in DOMAIN SearchPath(a) :
          /\ p2 = SearchPath(a)[j] /\ Exists(a, p2)
          /\ \A k \in 1..(j - 1) : ~Exists(a, SearchPath(a)[k])
    BY <1>2 DEF IsFirst
  <2>3. i \in Nat /\ j \in Nat /\ i > 0 /\ j > 0
    BY PathType
  <2>4. ~(i < j) /\ ~(j < i)
    <3>1. i < j => i \in 1..(j - 1)
      BY <2>3
    <3>2. j < i => j \in 1..(i - 1)
      BY <2>3
    <3> QED
      BY <2>1, <2>2, <3>1, <3>2
  <2> QED
    BY <2>1, <2>2, <2>3, <2>4
<1> QED
  BY <1>1, <1>2

-----------------------------------------------------------------------------
(* The inductive invariant.                                                *)

AllLoaded == \A a \in Names : loaded[a] # None

AfterClr(t) ==
  \/ In(t, "reference") \/ In(t, "type") \/ In(t, "object")
  \/ In(t, "system") /\ program[t] # "create_with_arguments"

Settled(t) == In(t, "require") \/ In(t, "missing") \/ In(t, "clr") \/ In(t, "reference")

\* What the phases before have left behind.
KnowsItsPhase(t) ==
  /\ Ordered(todo[t])
  /\ program[t] = "none" => /\ todo[t] = <<>> /\ at[t] = 1 /\ tried[t] = 0
                            /\ found[t] = <<>> /\ result[t] = "none"
  /\ todo[t] = <<>> /\ program[t] # "none" => result[t] # "none"
  /\ todo[t] # <<>> => result[t] = "none"
  /\ missing[t] # {} => In(t, "missing") \/ result[t] = "FileNotFoundError"
  /\ AfterClr(t) => clr
  /\ LoadPassed(todo[t]) => AllLoaded
  /\ In(t, "reference") => \A i \in 1..(at[t] - 1) : loaded[Assemblies[i]] # None
  /\ In(t, "resolve") /\ at[t] > 1 => Len(found[t]) = at[t] - 1
  /\ Settled(t) => Len(found[t]) >= Len(Assemblies)

\* What the files were when the thread looked at them, they still are.
KnowsTheDisk(t) ==
  SeesTheDisk(t) =>
    /\ \A i \in DOMAIN found[t] :
         i \in DOMAIN Assemblies /\ IsFirst(Assemblies[i], found[t][i])
    /\ In(t, "resolve") /\ Looking(t) =>
         \A k \in 1..tried[t] :
           k \in DOMAIN SearchPath(Name(t)) => ~Exists(Name(t), SearchPath(Name(t))[k])
    /\ In(t, "require") => \A i \in 1..(at[t] - 1) : Assemblies[i] \notin Absent
    /\ In(t, "missing") => /\ Absent # {}
                           /\ missing[t] = {Assemblies[i] : i \in 1..(at[t] - 1)} \cap Absent
    /\ In(t, "clr") \/ In(t, "reference") \/ LoadPassed(todo[t]) => Absent = {}
    /\ result[t] = "FileNotFoundError" => missing[t] = Absent /\ Absent # {}

\* As long as nobody has written to the disk, the builds in the process are
\* those the search settles on.
LoadedFirst ==
  changes = 0 =>
    \A a \in Names, place \in Places :
      loaded[a] # None /\ IsFirst(a, place) => loaded[a] = disk[a][place]

Reason(t) ==
  /\ result[t] = "ReferenceFailed" => changes > 0
  /\ result[t] = "RuntimeError" => ~pythonnet
  /\ result[t] = "ModuleNotFoundError" => program[t] = "create_with_arguments"
  /\ result[t] # "Unresolved"

IInv ==
  /\ TypeOK /\ LoadedFirst
  /\ \A t \in Threads : KnowsItsPhase(t) /\ KnowsTheDisk(t) /\ Reason(t)

\* A step leaves the other threads what they know.
LEMMA OthersKeep ==
  ASSUME NEW u \in Threads, TypeOK, KnowsItsPhase(u), KnowsTheDisk(u), Reason(u),
         UNCHANGED <<disk, changes, pythonnet>>,
         clr => clr',
         \A a \in Names : loaded[a] # None => loaded'[a] # None,
         UNCHANGED <<program[u], todo[u], at[u], tried[u], found[u], missing[u], result[u],
                     disturbed[u]>>
  PROVE  KnowsItsPhase(u)' /\ KnowsTheDisk(u)' /\ Reason(u)'
<1>1. KnowsItsPhase(u)'
  <2>1. (\A i \in 1..(at[u] - 1) : loaded[Assemblies[i]] # None) =>
          \A i \in 1..(at[u] - 1) : i \in DOMAIN Assemblies => loaded'[Assemblies[i]] # None
    BY RuntimeAssumption DEF Names
  <2>2. \A i \in 1..(at[u] - 1) : i \in DOMAIN Assemblies
    BY RuntimeAssumption DEF TypeOK
  <2>3. AllLoaded => AllLoaded'
    BY DEF AllLoaded
  <2> QED
    BY <2>1, <2>2, <2>3 DEF KnowsItsPhase, In, AfterClr, Settled
<1>2. KnowsTheDisk(u)'
  <2>1. SeesTheDisk(u)' => SeesTheDisk(u)
    BY DEF SeesTheDisk
  <2>2. Absent' = Absent
    BY DEF Absent, Exists
  <2>3. \A a, place : IsFirst(a, place)' <=> IsFirst(a, place)
    BY DEF IsFirst, Exists
  <2> QED
    BY <2>1, <2>2, <2>3 DEF KnowsTheDisk, In, Looking, Name, Exists
<1>3. Reason(u)'
  BY DEF Reason
<1> QED
  BY <1>1, <1>2, <1>3

\* The other threads stay where they are.
OthersStay(t) ==
  \A u \in Threads \ {t} :
    UNCHANGED <<program[u], todo[u], at[u], tried[u], found[u], missing[u], result[u],
                disturbed[u]>>

LEMMA StepOfOne ==
  ASSUME NEW t \in Threads, IInv, OthersStay(t), UNCHANGED <<disk, changes, pythonnet>>,
         clr => clr',
         \A a \in Names : loaded[a] # None => loaded'[a] # None,
         TypeOK', LoadedFirst', KnowsItsPhase(t)', KnowsTheDisk(t)', Reason(t)'
  PROVE  IInv'
<1>1. ASSUME NEW u \in Threads, u # t
      PROVE  KnowsItsPhase(u)' /\ KnowsTheDisk(u)' /\ Reason(u)'
  <2>1. UNCHANGED <<program[u], todo[u], at[u], tried[u], found[u], missing[u], result[u],
                    disturbed[u]>>
    BY <1>1 DEF OthersStay
  <2>2. TypeOK /\ KnowsItsPhase(u) /\ KnowsTheDisk(u) /\ Reason(u)
    BY DEF IInv
  <2> QED
    BY <2>1, <2>2, OthersKeep
<1> QED
  BY <1>1 DEF IInv

\* With the disk and the process as they were, what the search settles on is
\* what it was.
LEMMA SameDisk ==
  ASSUME UNCHANGED disk
  PROVE  /\ Absent' = Absent
         /\ \A a, place : IsFirst(a, place)' <=> IsFirst(a, place)
         /\ \A a, place : Exists(a, place)' <=> Exists(a, place)
BY DEF Absent, IsFirst, Exists

LEMMA SameBuilds ==
  ASSUME IInv, UNCHANGED <<disk, changes, loaded>>
  PROVE  LoadedFirst'
BY SameDisk DEF IInv, LoadedFirst

\* Going on to the next phase.
LEMMA ProceedKeeps ==
  ASSUME NEW t \in Threads, IInv, todo[t] # <<>>, Proceed(t),
         UNCHANGED <<disk, changes, pythonnet, loaded, program, found, missing, disturbed>>,
         clr' \in BOOLEAN, clr => clr',
         Head(todo[t]) \in {"resolve", "require", "reference"} => ~Looking(t),
         Head(todo[t]) = "clr" => clr',
         Head(todo[t]) = "system" => clr,
         Head(todo[t]) # "missing"
  PROVE  IInv'
<1> DEFINE q == todo[t]
<1>1. /\ TypeOK /\ q \in Seq(PhaseNames) /\ Ordered(q)
      /\ KnowsItsPhase(t) /\ KnowsTheDisk(t) /\ Reason(t)
  BY DEF IInv, TypeOK, KnowsItsPhase
<1>2. /\ todo'[t] = Tail(q) /\ at'[t] = 1 /\ tried'[t] = 0
      /\ result'[t] = IF Len(q) = 1 THEN "ok" ELSE result[t]
      /\ OthersStay(t)
  BY DEF Proceed, OthersStay, IInv, TypeOK
<1>3. /\ Tail(q) \in Seq(PhaseNames) /\ Ordered(Tail(q))
      /\ Tail(q) # <<>> => Follows(Head(q), Head(Tail(q)))
      /\ Tail(q) = <<>> <=> Len(q) = 1
      /\ LoadPassed(Tail(q)) => LoadPassed(q) \/ Head(q) = "reference"
  BY <1>1, NextPhase
<1>4. Len(Assemblies) \in Nat /\ DOMAIN Assemblies = 1..Len(Assemblies)
      /\ at[t] \in 1..(Len(Assemblies) + 1)
  BY <1>1, RuntimeAssumption DEF TypeOK
<1>5. ~Looking(t) => at[t] = Len(Assemblies) + 1
  BY <1>4 DEF Looking
<1>6. \A a \in Names : \E i \in DOMAIN Assemblies : a = Assemblies[i]
  BY DEF Names
<1>7. TypeOK'
  BY <1>1, <1>3, <1>4 DEF TypeOK, Proceed, Results
<1>8. LoadedFirst'
  BY SameBuilds
<1>9. Reason(t)'
  BY <1>1, <1>2 DEF Reason
<1>10. Head(q) = "reference" => AllLoaded
  BY <1>1, <1>4, <1>5, <1>6 DEF KnowsItsPhase, AllLoaded, In
<1>11. KnowsItsPhase(t)'
  <2>1. Ordered(todo'[t])
    BY <1>2, <1>3
  <2>2. program[t] # "none"
    BY <1>1 DEF KnowsItsPhase
  <2>3. (todo[t] = <<>> /\ program[t] # "none" => result[t] # "none")'
    BY <1>2, <1>3
  <2>4. (todo[t] # <<>> => result[t] = "none")'
    BY <1>1, <1>2, <1>3 DEF KnowsItsPhase
  <2>5. (missing[t] # {} => In(t, "missing") \/ result[t] = "FileNotFoundError")'
    BY <1>1 DEF KnowsItsPhase, In
  <2>6. (AfterClr(t) => clr)'
    BY <1>1, <1>2, <1>3 DEF KnowsItsPhase, AfterClr, In, Follows
  <2>7. (LoadPassed(todo[t]) => AllLoaded)'
    BY <1>1, <1>2, <1>3, <1>10 DEF KnowsItsPhase, AllLoaded
  <2>8. at'[t] - 1 = 0 /\ ~(at'[t] > 1) /\ 1..0 = {}
    BY <1>2
  <2>9. (Settled(t) => Len(found[t]) >= Len(Assemblies))'
    <3>1. Head(q) = "resolve" => Len(found[t]) >= Len(Assemblies)
      <4>1. found[t] \in Seq(Places)
        BY <1>1 DEF TypeOK
      <4>2. Len(found[t]) \in Nat
        BY <4>1
      <4>3. Head(q) = "resolve" /\ at[t] > 1 => Len(found[t]) = at[t] - 1
        BY <1>1 DEF KnowsItsPhase, In
      <4> QED
        BY <1>4, <1>5, <4>2, <4>3
    <3>2. Settled(t)' => Settled(t) \/ Head(q) = "resolve"
      BY <1>2, <1>3 DEF Settled, In, Follows
    <3> QED
      BY <1>1, <3>1, <3>2 DEF KnowsItsPhase
  <2> QED
    BY <2>1, <2>2, <2>3, <2>4, <2>5, <2>6, <2>7, <2>8, <2>9 DEF KnowsItsPhase
<1>12. KnowsTheDisk(t)'
  <2>1. Absent' = Absent /\ \A a, place : IsFirst(a, place)' <=> IsFirst(a, place)
    BY SameDisk
  <2>2. SUFFICES ASSUME SeesTheDisk(t)'
                 PROVE  KnowsTheDisk(t)'
    BY DEF KnowsTheDisk
  <2>3. SeesTheDisk(t)
    BY <1>1, <1>2, <2>2 DEF SeesTheDisk, KnowsItsPhase
  <2>4. Head(q) = "require" => Absent = {}
    <3>1. Head(q) = "require" => \A i \in DOMAIN Assemblies : Assemblies[i] \notin Absent
      BY <1>1, <1>4, <1>5, <2>3 DEF KnowsTheDisk, In
    <3>2. Absent \subseteq Names
      BY DEF Absent
    <3> QED
      BY <1>6, <3>1, <3>2
  <2>5. (\A i \in DOMAIN found[t] : i \in DOMAIN Assemblies /\ IsFirst(Assemblies[i], found[t][i]))'
    BY <1>1, <2>1, <2>3 DEF KnowsTheDisk
  <2>6. tried'[t] = 0 /\ at'[t] - 1 = 0 /\ 1..0 = {}
    BY <1>2
  <2>7. ~In(t, "missing")'
    BY <1>2, <1>3 DEF In, Follows
  <2>8. (In(t, "clr") \/ In(t, "reference") \/ LoadPassed(todo[t]) => Absent = {})'
    BY <1>1, <1>2, <1>3, <2>1, <2>3, <2>4 DEF KnowsTheDisk, In, Follows
  <2>9. result'[t] # "FileNotFoundError"
    BY <1>1, <1>2 DEF KnowsItsPhase
  <2> QED
    BY <2>5, <2>6, <2>7, <2>8, <2>9 DEF KnowsTheDisk
<1> QED
  BY <1>2, <1>7, <1>8, <1>9, <1>11, <1>12, StepOfOne

\* Leaving the call with an exception.
LEMMA RaiseKeeps ==
  ASSUME NEW t \in Threads, NEW error \in Results \ {"none"}, IInv, todo[t] # <<>>,
         Raise(t, error),
         UNCHANGED <<disk, changes, pythonnet, clr, loaded, program, found, missing, disturbed>>,
         Head(todo[t]) = "missing" <=> error = "FileNotFoundError",
         error = "FileNotFoundError" => ~Looking(t),
         error = "ReferenceFailed" => changes > 0,
         error = "RuntimeError" => ~pythonnet,
         error = "ModuleNotFoundError" => program[t] = "create_with_arguments",
         error # "Unresolved"
  PROVE  IInv'
<1>1. TypeOK /\ KnowsItsPhase(t) /\ KnowsTheDisk(t) /\ Reason(t)
  BY DEF IInv
<1>2. /\ todo'[t] = <<>> /\ result'[t] = error /\ UNCHANGED <<at, tried>>
      /\ OthersStay(t)
  BY <1>1 DEF Raise, OthersStay, TypeOK
<1>3. TypeOK'
  <2>1. <<>> \in Seq(PhaseNames)
    OBVIOUS
  <2> QED
    BY <1>1, <2>1 DEF TypeOK, Raise
<1>4. LoadedFirst'
  BY SameBuilds
<1>5. Reason(t)'
  BY <1>2 DEF Reason
<1>6. ~LoadPassed(<<>>) /\ Ordered(<<>>)
  BY DEF LoadPassed, Ordered
<1>7. KnowsItsPhase(t)'
  <2>1. program[t] # "none"
    BY <1>1 DEF KnowsItsPhase
  <2>2. (missing[t] # {} => In(t, "missing") \/ result[t] = "FileNotFoundError")'
    BY <1>1, <1>2 DEF KnowsItsPhase, In
  <2> QED
    BY <1>2, <1>6, <2>1, <2>2 DEF KnowsItsPhase, In, AfterClr, Settled
<1>8. KnowsTheDisk(t)'
  <2>1. Absent' = Absent /\ \A a, place : IsFirst(a, place)' <=> IsFirst(a, place)
    BY SameDisk
  <2>2. SUFFICES ASSUME SeesTheDisk(t)'
                 PROVE  KnowsTheDisk(t)'
    BY DEF KnowsTheDisk
  <2>3. SeesTheDisk(t)
    BY <1>2, <2>2 DEF SeesTheDisk
  <2>4. error = "FileNotFoundError" => missing[t] = Absent /\ Absent # {}
    <3>1. SUFFICES ASSUME error = "FileNotFoundError"
                   PROVE  missing[t] = Absent /\ Absent # {}
      OBVIOUS
    <3>2. /\ Absent # {}
          /\ missing[t] = {Assemblies[i] : i \in 1..(at[t] - 1)} \cap Absent
      BY <1>1, <2>3, <3>1 DEF KnowsTheDisk, In
    <3>3. 1..(at[t] - 1) = DOMAIN Assemblies
      BY <1>1, <3>1, RuntimeAssumption DEF Looking, TypeOK
    <3>4. Absent \subseteq {Assemblies[i] : i \in DOMAIN Assemblies}
      BY DEF Absent, Names
    <3> QED
      BY <3>2, <3>3, <3>4
  <2> QED
    BY <1>1, <1>2, <1>6, <2>1, <2>3, <2>4 DEF KnowsTheDisk, In
<1> QED
  BY <1>2, <1>3, <1>4, <1>5, <1>7, <1>8, StepOfOne

LEMMA CallKeeps ==
  ASSUME NEW t \in Threads, NEW p \in Programs, IInv, Call(t, p)
  PROVE  IInv'
<1>1. TypeOK /\ KnowsItsPhase(t) /\ KnowsTheDisk(t) /\ Reason(t) /\ program[t] = "none"
  BY DEF IInv, Call
<1>2. /\ todo'[t] = Phases[p] /\ program'[t] = p
      /\ UNCHANGED <<disk, changes, processVars, at, tried, found, missing, result, disturbed>>
      /\ OthersStay(t)
  BY <1>1 DEF Call, OthersStay, TypeOK
<1>3. UNCHANGED <<pythonnet, clr, loaded>>
  BY <1>2 DEF processVars
<1> DEFINE q == Phases[p]
<1>4. /\ q \in Seq(PhaseNames) /\ q # <<>> /\ Ordered(q)
      /\ \/ q[1] = "resolve"
         \/ p = "create_with_arguments" /\ q[1] = "system" /\ Len(q) > 1 /\ q[2] = "resolve"
  BY CallsAreOrdered, RuntimeAssumption
<1>5. p # "none"
  BY RuntimeAssumption DEF Phases
<1> HIDE DEF q
<1>6. Head(q) = q[1]
  BY <1>4
<1>7. ~LoadPassed(q)
  BY <1>4, <1>6 DEF LoadPassed
<1>8. at[t] = 1 /\ tried[t] = 0 /\ found[t] = <<>> /\ result[t] = "none" /\ missing[t] = {}
      /\ todo[t] = <<>>
  BY <1>1 DEF KnowsItsPhase, In
<1>9. TypeOK'
  BY <1>1, <1>2, <1>3, <1>4 DEF TypeOK, Call, q
<1>10. LoadedFirst'
  BY <1>2, <1>3, SameBuilds
<1>11. Reason(t)'
  BY <1>2, <1>8 DEF Reason
<1>12. KnowsItsPhase(t)'
  <2>1. /\ ~AfterClr(t)' /\ ~In(t, "reference")' /\ ~Settled(t)'
    BY <1>2, <1>4, <1>6 DEF AfterClr, In, Settled, q
  <2> QED
    BY <1>2, <1>4, <1>5, <1>7, <1>8, <2>1 DEF KnowsItsPhase, q
<1>13. KnowsTheDisk(t)'
  <2>1. DOMAIN <<>> = {} /\ 1..0 = {}
    OBVIOUS
  <2>2. ~In(t, "require")' /\ ~In(t, "missing")' /\ ~In(t, "clr")' /\ ~In(t, "reference")'
    BY <1>2, <1>4, <1>6 DEF In, q
  <2> QED
    BY <1>2, <1>7, <1>8, <2>1, <2>2 DEF KnowsTheDisk, q
<1> QED
  BY <1>2, <1>3, <1>9, <1>10, <1>11, <1>12, <1>13, StepOfOne

LEMMA ChangeKeeps ==
  ASSUME NEW a \in Names, NEW place \in Places, NEW build \in Builds \cup {None},
         IInv, ChangeFile(a, place, build)
  PROVE  IInv'
<1>1. TypeOK /\ changes \in Nat
  BY DEF IInv, TypeOK
<1>2. /\ changes' = changes + 1
      /\ disturbed' = [t \in Threads |-> disturbed[t] \/ todo[t] # <<>>]
      /\ UNCHANGED <<pythonnet, clr, loaded, program, todo, at, tried, found, missing, result>>
  BY DEF ChangeFile, processVars, threadVars
<1>3. changes' > 0
  BY <1>1, <1>2
<1>4. TypeOK'
  <2>1. disk' \in Disks
    BY <1>1 DEF ChangeFile, Disks, TypeOK
  <2>2. changes' \in Nat /\ disturbed' \in [Threads -> BOOLEAN]
    BY <1>1, <1>2
  <2> QED
    BY <1>1, <1>2, <2>1, <2>2 DEF TypeOK
<1>5. LoadedFirst'
  BY <1>3 DEF LoadedFirst
<1>6. ASSUME NEW t \in Threads
      PROVE  KnowsItsPhase(t)' /\ KnowsTheDisk(t)' /\ Reason(t)'
  <2>1. KnowsItsPhase(t) /\ KnowsTheDisk(t) /\ Reason(t)
    BY DEF IInv
  <2>2. KnowsItsPhase(t)'
    BY <1>2, <2>1 DEF KnowsItsPhase, In, AfterClr, Settled, AllLoaded
  <2>3. Reason(t)'
    BY <1>2, <1>3, <2>1 DEF Reason
  <2>4. KnowsTheDisk(t)'
    <3>1. SUFFICES ASSUME SeesTheDisk(t)'
                   PROVE  KnowsTheDisk(t)'
      BY DEF KnowsTheDisk
    <3>2. result[t] = "none" /\ todo[t] = <<>>
      <4>1. changes' # 0
        BY <1>1, <1>2
      <4>2. result'[t] = "none" /\ ~disturbed'[t]
        BY <3>1, <4>1 DEF SeesTheDisk
      <4>3. disturbed'[t] = (disturbed[t] \/ todo[t] # <<>>)
        BY <1>2
      <4> QED
        BY <1>2, <4>2, <4>3
    <3>3. found[t] = <<>>
      BY <2>1, <3>2 DEF KnowsItsPhase
    <3>4. ~LoadPassed(todo[t]) /\ DOMAIN found[t] = {}
      BY <3>2, <3>3 DEF LoadPassed
    <3>5. /\ ~In(t, "resolve")' /\ ~In(t, "require")' /\ ~In(t, "missing")'
          /\ ~In(t, "clr")' /\ ~In(t, "reference")' /\ ~LoadPassed(todo[t])'
      BY <1>2, <3>2, <3>4 DEF In
    <3>6. DOMAIN found'[t] = {} /\ result'[t] # "FileNotFoundError"
      BY <1>2, <3>2, <3>4
    <3> QED
      BY <3>5, <3>6 DEF KnowsTheDisk
  <2> QED
    BY <2>2, <2>3, <2>4
<1> QED
  BY <1>4, <1>5, <1>6 DEF IInv

\* Settling on the place of one assembly.
LEMMA SettleKeeps ==
  ASSUME NEW t \in Threads, NEW place \in Places, IInv, In(t, "resolve"), Looking(t),
         Settle(t, place),
         UNCHANGED <<disk, changes, pythonnet, clr, loaded, program, missing, disturbed>>,
         SeesTheDisk(t) => IsFirst(Name(t), place)
  PROVE  IInv'
<1> DEFINE n == at[t]
<1>1. /\ TypeOK /\ KnowsItsPhase(t) /\ KnowsTheDisk(t) /\ Reason(t)
      /\ n \in 1..Len(Assemblies) /\ Len(Assemblies) \in Nat /\ n \in Nat /\ n > 0
      /\ DOMAIN Assemblies = 1..Len(Assemblies) /\ found[t] \in Seq(Places)
      /\ (n > 1 => Len(found[t]) = n - 1)
  <2>1. TypeOK /\ KnowsItsPhase(t) /\ KnowsTheDisk(t) /\ Reason(t)
    BY DEF IInv
  <2>2. Len(Assemblies) \in Nat /\ DOMAIN Assemblies = 1..Len(Assemblies)
    BY RuntimeAssumption
  <2>3. n \in 1..Len(Assemblies) /\ n \in Nat /\ n > 0
    BY <2>2 DEF Looking
  <2>4. found[t] \in Seq(Places)
    BY <2>1 DEF TypeOK
  <2>5. n > 1 => Len(found[t]) = n - 1
    BY <2>1 DEF KnowsItsPhase
  <2> QED
    BY <2>1, <2>2, <2>3, <2>4, <2>5
<1>2. /\ found'[t] = IF n = 1 THEN << place >> ELSE Append(found[t], place)
      /\ at'[t] = n + 1 /\ tried'[t] = 0 /\ UNCHANGED <<todo, result>>
      /\ OthersStay(t)
  BY <1>1 DEF Settle, NextAssembly, OthersStay, TypeOK
<1> HIDE DEF n
<1>3. /\ found'[t] \in Seq(Places) /\ Len(found'[t]) = n /\ DOMAIN found'[t] = 1..n
      /\ \A i \in 1..(n - 1) : found'[t][i] = found[t][i] /\ i \in DOMAIN found[t]
      /\ found'[t][n] = place
  <2>1. CASE n = 1
    <3>1. found'[t] = << place >>
      BY <1>2, <2>1
    <3>2. << place >> \in Seq(Places) /\ Len(<< place >>) = 1 /\ << place >>[1] = place
      OBVIOUS
    <3>3. 1..(n - 1) = {}
      BY <2>1
    <3> QED
      BY <2>1, <3>1, <3>2, <3>3
  <2>2. CASE n > 1
    <3> DEFINE s == found[t]
    <3>1. found'[t] = Append(s, place) /\ s \in Seq(Places) /\ Len(s) = n - 1
      BY <1>1, <1>2, <2>2
    <3> HIDE DEF s
    <3>2. /\ Append(s, place) \in Seq(Places) /\ Len(Append(s, place)) = Len(s) + 1
          /\ \A i \in 1..Len(s) : Append(s, place)[i] = s[i]
          /\ Append(s, place)[Len(s) + 1] = place /\ DOMAIN s = 1..Len(s)
      BY <3>1
    <3>3. (n - 1) + 1 = n
      BY <1>1
    <3> DEFINE r == Append(s, place)
    <3> HIDE DEF r
    <3>4. /\ r \in Seq(Places) /\ Len(r) = n /\ r[n] = place
          /\ \A i \in 1..(n - 1) : r[i] = s[i] /\ i \in DOMAIN s
      BY <3>1, <3>2, <3>3 DEF r
    <3>5. DOMAIN r = 1..n
      BY <3>4
    <3> QED
      BY <3>1, <3>4, <3>5 DEF r, s
  <2> QED
    BY <1>1, <2>1, <2>2
<1>4. TypeOK'
  <2>1. at' \in [Threads -> 1..(Len(Assemblies) + 1)]
    <3>1. n + 1 \in 1..(Len(Assemblies) + 1)
      BY <1>1
    <3> QED
      BY <1>1, <3>1 DEF Settle, NextAssembly, TypeOK, n
  <2>2. tried' \in [Threads -> Nat] /\ UNCHANGED <<todo, result>>
    BY <1>1 DEF Settle, NextAssembly, TypeOK
  <2>3. found' \in [Threads -> Seq(Places)]
    <3>1. found' = [found EXCEPT ![t] = found'[t]]
      BY <1>1 DEF Settle, TypeOK
    <3> QED
      BY <1>1, <1>3, <3>1 DEF TypeOK
  <2> QED
    BY <1>1, <2>1, <2>2, <2>3 DEF TypeOK
<1>5. LoadedFirst'
  BY SameBuilds
<1>6. Reason(t)'
  BY <1>1, <1>2 DEF Reason
<1>7. Head(todo[t]) = "resolve" /\ todo[t] # <<>>
  BY DEF In
<1>8. KnowsItsPhase(t)'
  <2>1. (In(t, "resolve") /\ at[t] > 1 => Len(found[t]) = at[t] - 1)'
    BY <1>1, <1>2, <1>3
  <2> QED
    BY <1>1, <1>2, <1>7, <2>1 DEF KnowsItsPhase, In, AfterClr, AllLoaded, Settled
<1>9. KnowsTheDisk(t)'
  <2>1. Absent' = Absent /\ \A a, p : IsFirst(a, p)' <=> IsFirst(a, p)
    BY SameDisk
  <2>2. SUFFICES ASSUME SeesTheDisk(t)'
                 PROVE  KnowsTheDisk(t)'
    BY DEF KnowsTheDisk
  <2>3. SeesTheDisk(t)
    BY <1>2, <2>2 DEF SeesTheDisk
  <2>4. ASSUME NEW i \in DOMAIN found'[t]
        PROVE  i \in DOMAIN Assemblies /\ IsFirst(Assemblies[i], found'[t][i])
    <3>1. CASE i = n
      BY <1>1, <1>3, <2>3, <3>1 DEF Name, n
    <3>2. CASE i # n
      <4>1. i \in 1..(n - 1)
        BY <1>1, <1>3, <3>2
      <4> QED
        BY <1>1, <1>3, <2>3, <4>1 DEF KnowsTheDisk
    <3> QED
      BY <3>1, <3>2
  <2>5. tried'[t] = 0 /\ 1..0 = {}
    BY <1>2
  <2> QED
    BY <1>1, <1>2, <1>7, <2>1, <2>3, <2>4, <2>5 DEF KnowsTheDisk, In
<1> QED
  BY <1>2, <1>4, <1>5, <1>6, <1>8, <1>9, StepOfOne

LEMMA ProbeKeeps ==
  ASSUME NEW t \in Threads, IInv, Probe(t)
  PROVE  IInv'
<1> DEFINE path == SearchPath(Name(t))
           next == tried[t] + 1
<1>1. /\ TypeOK /\ KnowsItsPhase(t) /\ KnowsTheDisk(t) /\ Reason(t)
      /\ In(t, "resolve") /\ Looking(t)
      /\ UNCHANGED <<disk, changes, pythonnet, clr, loaded, program, missing, disturbed>>
  BY DEF IInv, Probe, processVars
<1>2. Name(t) \in Names
  BY <1>1 DEF Name, Looking, Names
<1>3. /\ path \in Seq(Places) /\ DOMAIN path = 1..Len(path) /\ Len(path) \in Nat
      /\ NativeRoot \in Places
  BY <1>2, PathType DEF Places
<1>4. tried[t] \in Nat /\ next \in Nat /\ next - 1 = tried[t]
  BY <1>1 DEF TypeOK
<1>5. SeesTheDisk(t) =>
        \A k \in 1..tried[t] : k \in DOMAIN path => ~Exists(Name(t), path[k])
  BY <1>1 DEF KnowsTheDisk
<1>6. CASE next \in DOMAIN path /\ Exists(Name(t), path[next]) /\ Settle(t, path[next])
  <2>1. SeesTheDisk(t) => IsFirst(Name(t), path[next])
    <3>1. \A k \in 1..(next - 1) : k \in DOMAIN path
      BY <1>3, <1>4, <1>6
    <3> QED
      BY <1>4, <1>5, <1>6, <3>1 DEF IsFirst
  <2>2. path[next] \in Places
    BY <1>3, <1>6
  <2> QED
    BY <1>1, <1>6, <2>1, <2>2, SettleKeeps
<1>7. CASE next \notin DOMAIN path /\ Settle(t, NativeRoot)
  <2>1. \A k \in DOMAIN path : k \in 1..tried[t]
    BY <1>3, <1>4, <1>7
  <2>2. SeesTheDisk(t) => IsFirst(Name(t), NativeRoot)
    BY <1>5, <2>1 DEF IsFirst
  <2> QED
    BY <1>1, <1>3, <1>7, <2>2, SettleKeeps
<1>8. CASE /\ next \in DOMAIN path /\ ~Exists(Name(t), path[next])
           /\ tried' = [tried EXCEPT ![t] = next]
           /\ UNCHANGED <<todo, at, found, result>>
  <2>1. tried'[t] = next /\ OthersStay(t)
    BY <1>1, <1>8 DEF OthersStay, TypeOK
  <2>2. TypeOK'
    BY <1>1, <1>4, <1>8 DEF TypeOK
  <2>3. LoadedFirst'
    BY <1>1, SameBuilds
  <2>4. Reason(t)'
    BY <1>1, <1>8 DEF Reason
  <2>5. KnowsItsPhase(t)'
    <3>1. Head(todo[t]) = "resolve" /\ todo[t] # <<>>
      BY <1>1 DEF In
    <3> QED
      BY <1>1, <1>8, <3>1 DEF KnowsItsPhase, In, AfterClr, AllLoaded, Settled
  <2>6. KnowsTheDisk(t)'
    <3>1. /\ Absent' = Absent /\ \A a, p : IsFirst(a, p)' <=> IsFirst(a, p)
          /\ \A a, p : Exists(a, p)' <=> Exists(a, p)
      BY <1>1, SameDisk
    <3>2. SUFFICES ASSUME SeesTheDisk(t)'
                   PROVE  KnowsTheDisk(t)'
      BY DEF KnowsTheDisk
    <3>3. SeesTheDisk(t)
      BY <1>1, <1>8, <3>2 DEF SeesTheDisk
    <3>4. Name(t)' = Name(t) /\ Looking(t)' = Looking(t)
      BY <1>8 DEF Name, Looking
    <3>5. \A k \in 1..next : k \in 1..tried[t] \/ k = next
      BY <1>4
    <3>6. \A k \in 1..tried'[t] : k \in DOMAIN path => ~Exists(Name(t), path[k])
      BY <1>5, <1>8, <2>1, <3>3, <3>5
    <3>7. (In(t, "resolve") /\ Looking(t) =>
             \A k \in 1..tried[t] :
               k \in DOMAIN SearchPath(Name(t)) => ~Exists(Name(t), SearchPath(Name(t))[k]))'
      BY <3>1, <3>4, <3>6
    <3>8. Head(todo[t]) = "resolve" /\ todo[t] # <<>>
      BY <1>1 DEF In
    <3>9. (\A i \in DOMAIN found[t] : i \in DOMAIN Assemblies /\ IsFirst(Assemblies[i], found[t][i]))'
      BY <1>1, <1>8, <3>1, <3>3 DEF KnowsTheDisk
    <3>10. /\ ~In(t, "require")' /\ ~In(t, "missing")' /\ ~In(t, "clr")' /\ ~In(t, "reference")'
           /\ LoadPassed(todo[t])' <=> LoadPassed(todo[t])
           /\ UNCHANGED <<result, missing>>
      BY <1>1, <1>8, <3>8 DEF In
    <3> QED
      BY <1>1, <3>1, <3>3, <3>7, <3>9, <3>10 DEF KnowsTheDisk
  <2> QED
    BY <1>1, <2>1, <2>2, <2>3, <2>4, <2>5, <2>6, StepOfOne
<1> QED
  BY <1>6, <1>7, <1>8 DEF Probe

\* What a settled thread sees of one assembly tells whether it is absent.
LEMMA SettledSees ==
  ASSUME NEW t \in Threads, IInv, Settled(t), Looking(t)
  PROVE  /\ at[t] \in DOMAIN found[t] /\ found[t][at[t]] \in Places /\ Name(t) \in Names
         /\ SeesTheDisk(t) => /\ IsFirst(Name(t), found[t][at[t]])
                              /\ Exists(Name(t), found[t][at[t]]) <=> Name(t) \notin Absent
<1>1. /\ TypeOK /\ KnowsItsPhase(t) /\ KnowsTheDisk(t) /\ found[t] \in Seq(Places)
      /\ Len(found[t]) >= Len(Assemblies) /\ Len(Assemblies) \in Nat
      /\ DOMAIN Assemblies = 1..Len(Assemblies) /\ at[t] \in DOMAIN Assemblies
  BY RuntimeAssumption DEF IInv, TypeOK, KnowsItsPhase, Looking
<1>2. at[t] \in DOMAIN found[t]
  BY <1>1
<1>3. Name(t) \in Names
  BY <1>1 DEF Name, Names
<1>4. SeesTheDisk(t) => IsFirst(Name(t), found[t][at[t]])
  BY <1>1, <1>2 DEF KnowsTheDisk, Name
<1> QED
  BY <1>1, <1>2, <1>3, <1>4, FirstExists

LEMMA RequireKeeps ==
  ASSUME NEW t \in Threads, IInv, Require(t)
  PROVE  IInv'
<1>1. /\ TypeOK /\ KnowsItsPhase(t) /\ KnowsTheDisk(t) /\ Reason(t)
      /\ todo[t] # <<>> /\ Head(todo[t]) = "require" /\ Settled(t)
      /\ UNCHANGED <<disk, changes, pythonnet, clr, loaded, program, found, missing, disturbed>>
      /\ Len(Assemblies) \in Nat /\ DOMAIN Assemblies = 1..Len(Assemblies)
      /\ at[t] \in 1..(Len(Assemblies) + 1)
  BY RuntimeAssumption DEF IInv, TypeOK, Require, processVars, In, Settled
<1>2. LoadedFirst'
  BY <1>1, SameBuilds
<1>3. /\ Absent' = Absent /\ \A a, p : IsFirst(a, p)' <=> IsFirst(a, p)
      /\ \A a, p : Exists(a, p)' <=> Exists(a, p)
  BY <1>1, SameDisk
<1>4. CASE Looking(t) /\ Exists(Name(t), found[t][at[t]]) /\ NextAssembly(t)
  <2>1. /\ at'[t] = at[t] + 1 /\ UNCHANGED <<todo, result>> /\ OthersStay(t)
        /\ at[t] \in DOMAIN Assemblies
    BY <1>1, <1>4 DEF NextAssembly, OthersStay, TypeOK, Looking
  <2>2. TypeOK'
    BY <1>1, <1>4, <2>1 DEF TypeOK, NextAssembly
  <2>3. Reason(t)'
    BY <1>1, <2>1 DEF Reason
  <2>4. KnowsItsPhase(t)'
    BY <1>1, <2>1 DEF KnowsItsPhase, In, AfterClr, AllLoaded, Settled
  <2>5. KnowsTheDisk(t)'
    <3>1. SUFFICES ASSUME SeesTheDisk(t)'
                   PROVE  KnowsTheDisk(t)'
      BY DEF KnowsTheDisk
    <3>2. SeesTheDisk(t)
      BY <1>1, <2>1, <3>1 DEF SeesTheDisk
    <3>3. Name(t) \notin Absent
      BY <1>1, <1>4, <3>2, SettledSees
    <3>4. \A i \in 1..(at'[t] - 1) : i \in 1..(at[t] - 1) \/ i = at[t]
      BY <1>1, <2>1
    <3>5. \A i \in 1..(at[t] - 1) : Assemblies[i] \notin Absent
      BY <1>1, <3>2 DEF KnowsTheDisk, In
    <3>6. \A i \in 1..(at'[t] - 1) : Assemblies[i] \notin Absent
      BY <3>3, <3>4, <3>5 DEF Name
    <3> QED
      BY <1>1, <1>3, <2>1, <3>2, <3>6 DEF KnowsTheDisk, In
  <2> QED
    BY <1>1, <1>2, <2>1, <2>2, <2>3, <2>4, <2>5, StepOfOne
<1>5. CASE /\ Looking(t) /\ ~Exists(Name(t), found[t][at[t]])
           /\ todo' = [todo EXCEPT ![t] = << "missing" >>]
           /\ at' = [at EXCEPT ![t] = 1]
           /\ UNCHANGED <<tried, result>>
  <2> DEFINE m == << "missing" >>
  <2>1. /\ m \in Seq(PhaseNames) /\ m # <<>> /\ Len(m) = 1 /\ Head(m) = "missing" /\ m[1] = "missing"
    BY DEF PhaseNames
  <2>2. todo' = [todo EXCEPT ![t] = m]
    BY <1>5
  <2> HIDE DEF m
  <2>3. todo'[t] = m /\ at'[t] = 1 /\ OthersStay(t)
    BY <1>1, <1>5, <2>2 DEF OthersStay, TypeOK
  <2>4. TypeOK'
    <3>1. 1 \in 1..(Len(Assemblies) + 1)
      BY <1>1
    <3> QED
      BY <1>1, <1>5, <2>1, <2>2, <3>1 DEF TypeOK
  <2>5. Reason(t)'
    BY <1>1, <1>5 DEF Reason
  <2>6. Ordered(m) /\ ~LoadPassed(m)
    BY <2>1 DEF Ordered, LoadPassed
  <2>7. missing[t] = {} /\ result[t] = "none" /\ program[t] # "none"
    BY <1>1 DEF KnowsItsPhase, In
  <2>8. KnowsItsPhase(t)'
    BY <1>1, <1>5, <2>1, <2>3, <2>6, <2>7 DEF KnowsItsPhase, In, AfterClr, Settled
  <2>9. KnowsTheDisk(t)'
    <3>1. SUFFICES ASSUME SeesTheDisk(t)'
                   PROVE  KnowsTheDisk(t)'
      BY DEF KnowsTheDisk
    <3>2. SeesTheDisk(t)
      BY <1>1, <1>5, <3>1 DEF SeesTheDisk
    <3>3. Absent # {}
      BY <1>1, <1>5, <3>2, SettledSees
    <3>4. 1..(at'[t] - 1) = {}
      BY <2>3
    <3>5. missing'[t] = {Assemblies[i] : i \in 1..(at'[t] - 1)} \cap Absent
      BY <1>1, <2>7, <3>4
    <3> QED
      BY <1>1, <1>3, <1>5, <2>1, <2>3, <2>6, <2>7, <3>2, <3>3, <3>5 DEF KnowsTheDisk, In
  <2> QED
    BY <1>1, <1>2, <2>3, <2>4, <2>5, <2>8, <2>9, StepOfOne
<1>6. CASE ~Looking(t) /\ Proceed(t)
  <2>1. clr' \in BOOLEAN
    BY <1>1 DEF TypeOK
  <2> QED
    BY <1>1, <1>6, <2>1, ProceedKeeps
<1> QED
  BY <1>4, <1>5, <1>6 DEF Require

LEMMA NameMissingKeeps ==
  ASSUME NEW t \in Threads, IInv, NameMissing(t)
  PROVE  IInv'
<1>1. /\ TypeOK /\ KnowsItsPhase(t) /\ KnowsTheDisk(t) /\ Reason(t)
      /\ todo[t] # <<>> /\ Head(todo[t]) = "missing" /\ Settled(t)
      /\ UNCHANGED <<disk, changes, pythonnet, clr, loaded, program, found, disturbed>>
      /\ Len(Assemblies) \in Nat /\ DOMAIN Assemblies = 1..Len(Assemblies)
      /\ at[t] \in 1..(Len(Assemblies) + 1)
  BY RuntimeAssumption DEF IInv, TypeOK, NameMissing, processVars, In, Settled
<1>2. CASE /\ Looking(t) /\ NextAssembly(t)
           /\ missing' = IF Exists(Name(t), found[t][at[t]]) THEN missing
                         ELSE [missing EXCEPT ![t] = @ \cup {Name(t)}]
  <2>1. /\ at'[t] = at[t] + 1 /\ UNCHANGED <<todo, result>> /\ OthersStay(t)
        /\ at[t] \in DOMAIN Assemblies /\ Name(t) \in Names
        /\ missing'[t] = IF Exists(Name(t), found[t][at[t]]) THEN missing[t]
                         ELSE missing[t] \cup {Name(t)}
    BY <1>1, <1>2 DEF NextAssembly, OthersStay, TypeOK, Looking, Name, Names
  <2>2. TypeOK'
    BY <1>1, <1>2, <2>1 DEF TypeOK, NextAssembly
  <2>3. LoadedFirst'
    BY <1>1, SameBuilds
  <2>4. Reason(t)'
    BY <1>1, <2>1 DEF Reason
  <2>5. KnowsItsPhase(t)'
    BY <1>1, <2>1 DEF KnowsItsPhase, In, AfterClr, AllLoaded, Settled
  <2>6. KnowsTheDisk(t)'
    <3>1. /\ Absent' = Absent /\ \A a, p : IsFirst(a, p)' <=> IsFirst(a, p)
      BY <1>1, SameDisk
    <3>2. SUFFICES ASSUME SeesTheDisk(t)'
                   PROVE  KnowsTheDisk(t)'
      BY DEF KnowsTheDisk
    <3>3. SeesTheDisk(t)
      BY <1>1, <2>1, <3>2 DEF SeesTheDisk
    <3>4. Exists(Name(t), found[t][at[t]]) <=> Name(t) \notin Absent
      BY <1>1, <1>2, <3>3, SettledSees
    <3>5. /\ Absent # {}
          /\ missing[t] = {Assemblies[i] : i \in 1..(at[t] - 1)} \cap Absent
      BY <1>1, <3>3 DEF KnowsTheDisk, In
    <3>6. 1..(at'[t] - 1) = 1..(at[t] - 1) \cup {at[t]}
      BY <1>1, <2>1
    <3>7. missing'[t] = {Assemblies[i] : i \in 1..(at'[t] - 1)} \cap Absent
      BY <2>1, <3>4, <3>5, <3>6 DEF Name
    <3>8. result'[t] # "FileNotFoundError"
      BY <1>1, <2>1 DEF KnowsItsPhase
    <3> QED
      BY <1>1, <2>1, <3>1, <3>3, <3>5, <3>7, <3>8 DEF KnowsTheDisk, In
  <2> QED
    BY <1>1, <2>1, <2>2, <2>3, <2>4, <2>5, <2>6, StepOfOne
<1>3. CASE ~Looking(t) /\ Raise(t, "FileNotFoundError") /\ UNCHANGED missing
  BY <1>1, <1>3, RaiseKeeps DEF Results
<1> QED
  BY <1>2, <1>3 DEF NameMissing

LEMMA AddReferenceKeeps ==
  ASSUME NEW t \in Threads, IInv, AddReference(t)
  PROVE  IInv'
<1> DEFINE build == disk[Name(t)][found[t][at[t]]]
<1>1. /\ TypeOK /\ LoadedFirst /\ KnowsItsPhase(t) /\ KnowsTheDisk(t) /\ Reason(t)
      /\ todo[t] # <<>> /\ Head(todo[t]) = "reference" /\ Settled(t) /\ In(t, "reference")
      /\ UNCHANGED <<disk, changes, pythonnet, clr, program, found, missing, disturbed>>
      /\ Len(Assemblies) \in Nat /\ DOMAIN Assemblies = 1..Len(Assemblies)
      /\ at[t] \in 1..(Len(Assemblies) + 1) /\ changes \in Nat
  BY RuntimeAssumption DEF IInv, TypeOK, AddReference, In, Settled
<1>2. Looking(t) => /\ Name(t) \in Names /\ found[t][at[t]] \in Places
                    /\ build \in Builds \cup {None}
                    /\ SeesTheDisk(t) => IsFirst(Name(t), found[t][at[t]])
                    /\ SeesTheDisk(t) => build # None
  <2>1. SUFFICES ASSUME Looking(t)
                 PROVE  /\ Name(t) \in Names /\ found[t][at[t]] \in Places
                        /\ build \in Builds \cup {None}
                        /\ SeesTheDisk(t) => IsFirst(Name(t), found[t][at[t]])
                        /\ SeesTheDisk(t) => build # None
    OBVIOUS
  <2>2. /\ Name(t) \in Names /\ found[t][at[t]] \in Places
        /\ SeesTheDisk(t) => /\ IsFirst(Name(t), found[t][at[t]])
                             /\ Exists(Name(t), found[t][at[t]]) <=> Name(t) \notin Absent
    BY <1>1, <2>1, SettledSees
  <2>3. build \in Builds \cup {None}
    BY <1>1, <2>2 DEF TypeOK, Disks
  <2>4. SeesTheDisk(t) => Absent = {}
    BY <1>1 DEF KnowsTheDisk
  <2> QED
    BY <2>2, <2>3, <2>4 DEF Exists
<1>3. changes = 0 => SeesTheDisk(t)
  BY DEF SeesTheDisk
<1>4. Looking(t) /\ changes = 0 => loaded[Name(t)] \in {None, build}
  BY <1>1, <1>2, <1>3 DEF LoadedFirst
<1>5. ASSUME Looking(t), NextAssembly(t),
             \/ UNCHANGED loaded /\ loaded[Name(t)] # None
             \/ /\ build # None /\ loaded[Name(t)] \in {None, build}
                /\ loaded' = [loaded EXCEPT ![Name(t)] = build]
      PROVE  IInv'
  <2>1. /\ at'[t] = at[t] + 1 /\ UNCHANGED <<todo, result>> /\ OthersStay(t)
        /\ at[t] \in DOMAIN Assemblies
    BY <1>1, <1>5 DEF NextAssembly, OthersStay, TypeOK, Looking
  <2>2. /\ loaded' \in [Names -> Builds \cup {None}]
        /\ \A a \in Names : loaded[a] # None => loaded'[a] # None
        /\ loaded'[Name(t)] # None
    BY <1>1, <1>2, <1>5 DEF TypeOK
  <2>3. TypeOK'
    BY <1>1, <1>5, <2>1, <2>2 DEF TypeOK, NextAssembly
  <2>4. LoadedFirst'
    <3>1. SUFFICES ASSUME changes = 0, NEW a \in Names, NEW place \in Places,
                          loaded'[a] # None, IsFirst(a, place)
                   PROVE  loaded'[a] = disk[a][place]
      BY <1>1, SameDisk DEF LoadedFirst
    <3>2. CASE loaded'[a] = loaded[a]
      BY <1>1, <3>1, <3>2 DEF LoadedFirst
    <3>3. CASE loaded'[a] # loaded[a]
      <4>1. a = Name(t) /\ loaded'[a] = build
        BY <1>1, <1>2, <1>5, <3>3 DEF TypeOK
      <4>2. found[t][at[t]] = place
        BY <1>2, <1>3, <1>5, <3>1, <4>1, FirstIsOne
      <4> QED
        BY <4>1, <4>2
    <3> QED
      BY <3>2, <3>3
  <2>5. Reason(t)'
    BY <1>1, <2>1 DEF Reason
  <2>6. KnowsItsPhase(t)'
    <3>1. ASSUME NEW i \in 1..(at'[t] - 1) PROVE loaded'[Assemblies[i]] # None
      <4>1. CASE i = at[t]
        BY <2>2, <4>1 DEF Name
      <4>2. CASE i # at[t]
        <5>1. i \in 1..(at[t] - 1) /\ i \in DOMAIN Assemblies
          BY <1>1, <2>1, <4>2
        <5>2. Assemblies[i] \in Names /\ loaded[Assemblies[i]] # None
          BY <1>1, <5>1 DEF KnowsItsPhase, Names
        <5> QED
          BY <2>2, <5>2
      <4> QED
        BY <4>1, <4>2
    <3>2. AllLoaded => AllLoaded'
      BY <2>2 DEF AllLoaded
    <3> QED
      BY <1>1, <2>1, <3>1, <3>2 DEF KnowsItsPhase, In, AfterClr, Settled
  <2>7. KnowsTheDisk(t)'
    <3>1. /\ Absent' = Absent /\ \A a, p : IsFirst(a, p)' <=> IsFirst(a, p)
      BY <1>1, SameDisk
    <3>2. SUFFICES ASSUME SeesTheDisk(t)'
                   PROVE  KnowsTheDisk(t)'
      BY DEF KnowsTheDisk
    <3>3. SeesTheDisk(t)
      BY <1>1, <2>1, <3>2 DEF SeesTheDisk
    <3> QED
      BY <1>1, <2>1, <3>1, <3>3 DEF KnowsTheDisk, In
  <2> QED
    BY <1>1, <2>1, <2>2, <2>3, <2>4, <2>5, <2>6, <2>7, StepOfOne
<1>6. ASSUME Looking(t), Raise(t, "ReferenceFailed"), UNCHANGED loaded,
             build = None \/ loaded[Name(t)] \notin {None, build}
      PROVE  IInv'
  <2>1. changes > 0
    <3>1. changes # 0
      BY <1>2, <1>3, <1>4, <1>6
    <3> QED
      BY <1>1, <3>1
  <2>2. "ReferenceFailed" \in Results \ {"none"}
    BY DEF Results
  <2> QED
    BY <1>1, <1>6, <2>1, <2>2, RaiseKeeps
<1>7. ASSUME ~Looking(t), Proceed(t), UNCHANGED loaded
      PROVE  IInv'
  <2>1. clr' \in BOOLEAN
    BY <1>1 DEF TypeOK
  <2> QED
    BY <1>1, <1>7, <2>1, ProceedKeeps
<1>8. \/ Looking(t) /\ build # None /\ loaded[Name(t)] \in {None, build}
         /\ loaded' = [loaded EXCEPT ![Name(t)] = build] /\ NextAssembly(t)
      \/ Looking(t) /\ build # None /\ loaded[Name(t)] \notin {None, build}
         /\ UNCHANGED loaded /\ (NextAssembly(t) \/ Raise(t, "ReferenceFailed"))
      \/ Looking(t) /\ build = None /\ Raise(t, "ReferenceFailed") /\ UNCHANGED loaded
      \/ ~Looking(t) /\ Proceed(t) /\ UNCHANGED loaded
  BY DEF AddReference
<1> HIDE DEF build
<1> QED
  BY <1>5, <1>6, <1>7, <1>8

\* The steps that look at no file.
LEMMA OtherStepsKeep ==
  ASSUME NEW t \in Threads, IInv,
         \/ Resolved(t) \/ ImportClr(t) \/ ImportSystem(t) \/ GetType(t) \/ CreateObject(t)
  PROVE  IInv'
<1>1. /\ TypeOK /\ KnowsItsPhase(t) /\ clr \in BOOLEAN /\ pythonnet \in BOOLEAN
  BY DEF IInv, TypeOK
<1>2. CASE Resolved(t)
  BY <1>1, <1>2, ProceedKeeps DEF Resolved, In, processVars
<1>3. CASE ImportClr(t)
  <2>1. CASE pythonnet /\ clr' = TRUE /\ Proceed(t)
    BY <1>1, <1>3, <2>1, ProceedKeeps DEF ImportClr, In
  <2>2. CASE ~pythonnet /\ UNCHANGED clr /\ Raise(t, "RuntimeError")
    <3>1. "RuntimeError" \in Results \ {"none"}
      BY DEF Results
    <3> QED
      BY <1>1, <1>3, <2>2, <3>1, RaiseKeeps DEF ImportClr, In
  <2> QED
    BY <1>3, <2>1, <2>2 DEF ImportClr
<1>4. CASE ImportSystem(t)
  <2>1. CASE clr /\ Proceed(t)
    BY <1>1, <1>4, <2>1, ProceedKeeps DEF ImportSystem, In, processVars
  <2>2. CASE ~clr /\ Raise(t, "ModuleNotFoundError")
    <3>1. "ModuleNotFoundError" \in Results \ {"none"}
      BY DEF Results
    <3>2. program[t] = "create_with_arguments"
      BY <1>1, <1>4, <2>2 DEF KnowsItsPhase, AfterClr, ImportSystem
    <3> QED
      BY <1>1, <1>4, <2>2, <3>1, <3>2, RaiseKeeps DEF ImportSystem, In, processVars
  <2> QED
    BY <1>4, <2>1, <2>2 DEF ImportSystem
<1>5. CASE GetType(t)
  <2>1. loaded[Target] # None
    <3>1. LoadPassed(todo[t])
      BY <1>5 DEF GetType, In, LoadPassed
    <3> QED
      BY <1>1, <3>1, RuntimeAssumption DEF KnowsItsPhase, AllLoaded
  <2> QED
    BY <1>1, <1>5, <2>1, ProceedKeeps DEF GetType, In, processVars
<1>6. CASE CreateObject(t)
  BY <1>1, <1>6, ProceedKeeps DEF CreateObject, In, processVars
<1> QED
  BY <1>2, <1>3, <1>4, <1>5, <1>6

-----------------------------------------------------------------------------
(* The theorems.                                                           *)

LEMMA InvInit == Init => IInv
<1> SUFFICES ASSUME Init PROVE IInv
  OBVIOUS
<1>1. Len(Assemblies) \in Nat /\ 1 \in 1..(Len(Assemblies) + 1)
  BY RuntimeAssumption
<1>2. TypeOK
  <2>1. <<>> \in Seq(PhaseNames) /\ <<>> \in Seq(Places)
    OBVIOUS
  <2>2. todo \in [Threads -> Seq(PhaseNames)] /\ found \in [Threads -> Seq(Places)]
    BY <2>1 DEF Init
  <2>3. at \in [Threads -> 1..(Len(Assemblies) + 1)]
    BY <1>1 DEF Init
  <2>4. /\ disk \in Disks /\ changes \in Nat /\ pythonnet \in BOOLEAN /\ clr \in BOOLEAN
        /\ loaded \in [Names -> Builds \cup {None}]
        /\ program \in [Threads -> Programs \cup {"none"}]
        /\ tried \in [Threads -> Nat] /\ missing \in [Threads -> SUBSET Names]
        /\ result \in [Threads -> Results] /\ disturbed \in [Threads -> BOOLEAN]
    BY RuntimeAssumption DEF Init, Results
  <2> QED
    BY <2>2, <2>3, <2>4 DEF TypeOK
<1>3. LoadedFirst
  BY DEF Init, LoadedFirst
<1>4. ASSUME NEW t \in Threads
      PROVE  KnowsItsPhase(t) /\ KnowsTheDisk(t) /\ Reason(t)
  <2>1. /\ todo[t] = <<>> /\ found[t] = <<>> /\ at[t] = 1 /\ tried[t] = 0 /\ missing[t] = {}
        /\ result[t] = "none" /\ program[t] = "none"
    BY DEF Init
  <2>2. \A p \in PhaseNames : ~In(t, p)
    BY <2>1 DEF In
  <2>3. ~LoadPassed(todo[t]) /\ Ordered(todo[t]) /\ DOMAIN found[t] = {}
    BY <2>1 DEF LoadPassed, Ordered
  <2>4. KnowsItsPhase(t)
    BY <2>1, <2>3 DEF KnowsItsPhase, In, AfterClr, Settled
  <2>5. KnowsTheDisk(t)
    BY <2>1, <2>3 DEF KnowsTheDisk, In
  <2> QED
    BY <2>1, <2>4, <2>5 DEF Reason
<1> QED
  BY <1>2, <1>3, <1>4 DEF IInv

LEMMA InvStep == IInv /\ [Next]_vars => IInv'
<1> SUFFICES ASSUME IInv, [Next]_vars PROVE IInv'
  OBVIOUS
<1>1. CASE UNCHANGED vars
  <2>1. /\ UNCHANGED <<disk, changes, pythonnet, clr, loaded>>
        /\ UNCHANGED <<program, todo, at, tried, found, missing, result, disturbed>>
    BY <1>1 DEF vars, processVars, threadVars
  <2>2. TypeOK'
    BY <2>1 DEF IInv, TypeOK
  <2>3. LoadedFirst'
    BY <2>1, SameBuilds
  <2>4. ASSUME NEW t \in Threads PROVE KnowsItsPhase(t)' /\ KnowsTheDisk(t)' /\ Reason(t)'
    <3>1. TypeOK /\ KnowsItsPhase(t) /\ KnowsTheDisk(t) /\ Reason(t)
      BY DEF IInv
    <3> QED
      BY <2>1, <3>1, OthersKeep
  <2> QED
    BY <2>2, <2>3, <2>4 DEF IInv
<1>2. ASSUME NEW t \in Threads, NEW p \in Programs, Call(t, p) PROVE IInv'
  BY <1>2, CallKeeps
<1>3. ASSUME NEW t \in Threads, Step(t) PROVE IInv'
  BY <1>3, ProbeKeeps, RequireKeeps, NameMissingKeeps, AddReferenceKeeps, OtherStepsKeep DEF Step
<1>4. ASSUME NEW a \in Names, NEW place \in Places, NEW build \in Builds \cup {None},
             ChangeFile(a, place, build)
      PROVE  IInv'
  BY <1>4, ChangeKeeps
<1> QED
  BY <1>1, <1>2, <1>3, <1>4 DEF Next

LEMMA Invariant == Spec => []IInv
BY InvInit, InvStep, PTL DEF Spec

\* Every call is made of known phases and settles on known places, however
\* many threads call and whatever happens to the files
\* (native/__init__.py).
THEOREM TypeCorrect == Spec => []TypeOK
<1>1. IInv => TypeOK
  BY DEF IInv
<1> QED
  BY <1>1, Invariant, PTL

\* A call fails only for the reason it gives: no reference is refused unless
\* somebody wrote to the files, System is missing only to the calls that
\* import it before they load, and a type resolves after every load
\* (native/__init__.py, managed.py, standard.py, microsoft_ai.py).
THEOREM FailuresHaveAReasonCorrect == Spec => []FailuresHaveAReason
<1>1. IInv => FailuresHaveAReason
  BY DEF IInv, Reason, FailuresHaveAReason
<1> QED
  BY <1>1, Invariant, PTL

-----------------------------------------------------------------------------
(* The search path and the kinds of source.                                *)

\* The last index of the search path that is of kind k.
EndOf(k) ==
  CASE k = 0 -> 0
    [] k = 1 -> 1
    [] k = 2 -> 1 + Len(BuildRoots)
    [] k = 3 -> 1 + Len(BuildRoots) + Len(OverrideRoots)
    [] k = 4 -> 1 + Len(BuildRoots) + Len(OverrideRoots) + Len(Frameworks)
    [] k = 5 -> 1 + Len(BuildRoots) + Len(OverrideRoots) + Len(Frameworks) + Len(PackageFolders)

\* The indices of kind k.
OfKind(k) == (EndOf(k - 1) + 1)..EndOf(k)

LEMMA KindsInOrder ==
  /\ \A k \in 0..5 : EndOf(k) \in Nat
  /\ \A k \in 1..5 : EndOf(k - 1) <= EndOf(k)
<1>1. /\ Len(BuildRoots) \in Nat /\ Len(OverrideRoots) \in Nat
      /\ Len(Frameworks) \in Nat /\ Len(PackageFolders) \in Nat
  BY RuntimeAssumption
<1>2. /\ EndOf(0) = 0 /\ EndOf(1) = 1 /\ EndOf(2) = EndOf(1) + Len(BuildRoots)
      /\ EndOf(3) = EndOf(2) + Len(OverrideRoots) /\ EndOf(4) = EndOf(3) + Len(Frameworks)
      /\ EndOf(5) = EndOf(4) + Len(PackageFolders)
  <2>1. /\ EndOf(0) = 0 /\ EndOf(1) = 1 /\ EndOf(2) = 1 + Len(BuildRoots)
        /\ EndOf(3) = 1 + Len(BuildRoots) + Len(OverrideRoots)
        /\ EndOf(4) = 1 + Len(BuildRoots) + Len(OverrideRoots) + Len(Frameworks)
        /\ EndOf(5) = 1 + Len(BuildRoots) + Len(OverrideRoots) + Len(Frameworks)
                        + Len(PackageFolders)
    BY DEF EndOf
  <2> QED
    BY <1>1, <2>1
<1>3. \A k \in 0..5 : k = 0 \/ k = 1 \/ k = 2 \/ k = 3 \/ k = 4 \/ k = 5
  OBVIOUS
<1>4. \A k \in 0..5 : EndOf(k) \in Nat
  BY <1>1, <1>2, <1>3
<1>5. \A k \in 1..5 : k = 1 \/ k = 2 \/ k = 3 \/ k = 4 \/ k = 5
  OBVIOUS
<1>6. ASSUME NEW k \in 1..5 PROVE EndOf(k - 1) <= EndOf(k)
  <2>1. /\ EndOf(0) \in Nat /\ EndOf(1) \in Nat /\ EndOf(2) \in Nat
        /\ EndOf(3) \in Nat /\ EndOf(4) \in Nat /\ EndOf(5) \in Nat
    BY <1>4
  <2>2. /\ EndOf(0) <= EndOf(1) /\ EndOf(1) <= EndOf(2) /\ EndOf(2) <= EndOf(3)
        /\ EndOf(3) <= EndOf(4) /\ EndOf(4) <= EndOf(5)
    <3>1. \A x, n \in Nat : x <= x + n
      OBVIOUS
    <3>2. EndOf(0) <= EndOf(1)
      BY <1>2
    <3>3. EndOf(1) <= EndOf(2)
      BY <1>1, <1>2, <2>1, <3>1, Zenon
    <3>4. EndOf(2) <= EndOf(3)
      BY <1>1, <1>2, <2>1, <3>1, Zenon
    <3>5. EndOf(3) <= EndOf(4)
      BY <1>1, <1>2, <2>1, <3>1, Zenon
    <3>6. EndOf(4) <= EndOf(5)
      BY <1>1, <1>2, <2>1, <3>1, Zenon
    <3> QED
      BY <3>2, <3>3, <3>4, <3>5, <3>6
  <2>3. 1 - 1 = 0 /\ 2 - 1 = 1 /\ 3 - 1 = 2 /\ 4 - 1 = 3 /\ 5 - 1 = 4
    OBVIOUS
  <2>4. CASE k = 1
    BY <2>2, <2>3, <2>4
  <2>5. CASE k = 2
    BY <2>2, <2>3, <2>5
  <2>6. CASE k = 3
    BY <2>2, <2>3, <2>6
  <2>7. CASE k = 4
    BY <2>2, <2>3, <2>7
  <2>8. CASE k = 5
    BY <2>2, <2>3, <2>8
  <2> QED
    BY <1>5, <2>4, <2>5, <2>6, <2>7, <2>8
<1> QED
  BY <1>4, <1>6

\* An index of an earlier kind comes before one of a later kind.
LEMMA EarlierKind ==
  ASSUME NEW k \in 1..5, NEW l \in 1..5, k < l, NEW i \in OfKind(k), NEW j \in OfKind(l)
  PROVE  i < j
<1>1. \A m, n \in 0..5 : m <= n => EndOf(m) <= EndOf(n)
  <2>1. /\ EndOf(0) \in Nat /\ EndOf(1) \in Nat /\ EndOf(2) \in Nat
        /\ EndOf(3) \in Nat /\ EndOf(4) \in Nat /\ EndOf(5) \in Nat
    BY KindsInOrder
  <2>2. /\ EndOf(0) <= EndOf(1) /\ EndOf(1) <= EndOf(2) /\ EndOf(2) <= EndOf(3)
        /\ EndOf(3) <= EndOf(4) /\ EndOf(4) <= EndOf(5)
    <3>1. 1 - 1 = 0 /\ 2 - 1 = 1 /\ 3 - 1 = 2 /\ 4 - 1 = 3 /\ 5 - 1 = 4
      OBVIOUS
    <3>2. /\ EndOf(1 - 1) <= EndOf(1) /\ EndOf(2 - 1) <= EndOf(2) /\ EndOf(3 - 1) <= EndOf(3)
          /\ EndOf(4 - 1) <= EndOf(4) /\ EndOf(5 - 1) <= EndOf(5)
      BY KindsInOrder
    <3> QED
      BY <3>1, <3>2
  <2>3. \A m \in 0..5 : m = 0 \/ m = 1 \/ m = 2 \/ m = 3 \/ m = 4 \/ m = 5
    OBVIOUS
  <2> QED
    BY <2>1, <2>2, <2>3
<1>2. k \in 0..5 /\ l - 1 \in 0..5 /\ k <= l - 1
  OBVIOUS
<1>3. EndOf(k) <= EndOf(l - 1) /\ EndOf(k) \in Nat /\ EndOf(l - 1) \in Nat
      /\ EndOf(k - 1) \in Nat /\ EndOf(l) \in Nat
  <2>1. k - 1 \in 0..5 /\ l \in 0..5
    OBVIOUS
  <2> QED
    BY <1>1, <1>2, <2>1, KindsInOrder
<1> QED
  BY <1>3 DEF OfKind

\* The places of kind k.
Kind(k) ==
  CASE k = 1 -> {NativeRoot}
    [] k = 2 -> Elements(BuildRoots)
    [] k = 3 -> Elements(OverrideRoots)
    [] k = 4 -> Elements(Frameworks)
    [] k = 5 -> Elements(PackageFolders)

\* s goes through the first n kinds in their order.
GoesThrough(s, n) ==
  /\ s \in Seq(Places) /\ Len(s) = EndOf(n)
  /\ \A k \in 1..n : /\ \A p \in Kind(k) : \E i \in OfKind(k) : s[i] = p
                     /\ \A i \in OfKind(k) : i \in 1..EndOf(n) /\ s[i] \in Kind(k)
  /\ \A i \in 1..EndOf(n) : \E k \in 1..n : i \in OfKind(k)

LEMMA GoesFurther ==
  ASSUME NEW n \in 1..4, NEW s, NEW u \in Seq(Places), GoesThrough(s, n),
         Kind(n + 1) = Elements(u), EndOf(n + 1) = EndOf(n) + Len(u)
  PROVE  GoesThrough(s \o u, n + 1)
<1> DEFINE q == s \o u
           m == n + 1
<1>1. /\ s \in Seq(Places) /\ Len(s) = EndOf(n) /\ EndOf(n) \in Nat /\ Len(u) \in Nat
      /\ q \in Seq(Places) /\ Len(q) = EndOf(n) + Len(u)
      /\ \A i \in 1..EndOf(n) : q[i] = s[i]
      /\ \A i \in 1..Len(u) : q[EndOf(n) + i] = u[i]
      /\ DOMAIN u = 1..Len(u)
  <2>1. s \in Seq(Places) /\ Len(s) = EndOf(n)
    BY DEF GoesThrough
  <2>2. /\ Len(s) \in Nat /\ Len(u) \in Nat /\ DOMAIN u = 1..Len(u)
        /\ q \in Seq(Places) /\ Len(q) = Len(s) + Len(u)
        /\ \A i \in 1..Len(s) : q[i] = s[i]
        /\ \A i \in 1..Len(u) : q[Len(s) + i] = u[i]
    <3>1. s \in Seq(Places)
      BY <2>1
    <3> QED
      BY <3>1, Concatenation
  <2> HIDE DEF q
  <2> DEFINE e == EndOf(n)
  <2>3. e \in Nat /\ Len(s) = e
    BY <2>1, <2>2
  <2> HIDE DEF e
  <2>4. /\ Len(q) = e + Len(u)
        /\ \A i \in 1..e : q[i] = s[i]
        /\ \A i \in 1..Len(u) : q[e + i] = u[i]
    BY <2>2, <2>3
  <2> QED
    BY <2>1, <2>2, <2>3, <2>4 DEF e
<1> HIDE DEF q
<1>2. m \in 2..5 /\ m - 1 = n /\ \A k \in 1..m : k \in 1..n \/ k = m
  OBVIOUS
<1>3. OfKind(m) = (EndOf(n) + 1)..(EndOf(n) + Len(u))
  BY <1>2 DEF OfKind
<1>4. ASSUME NEW k \in 1..n
      PROVE  /\ \A p \in Kind(k) : \E i \in OfKind(k) : q[i] = p
             /\ \A i \in OfKind(k) : i \in 1..EndOf(m) /\ q[i] \in Kind(k)
  <2>1. /\ \A p \in Kind(k) : \E i \in OfKind(k) : s[i] = p
        /\ \A i \in OfKind(k) : i \in 1..EndOf(n) /\ s[i] \in Kind(k)
    BY DEF GoesThrough
  <2>2. \A i \in OfKind(k) : q[i] = s[i] /\ i \in 1..EndOf(m)
    BY <1>1, <2>1
  <2> QED
    BY <2>1, <2>2
<1>5. /\ \A p \in Kind(m) : \E i \in OfKind(m) : q[i] = p
      /\ \A i \in OfKind(m) : i \in 1..EndOf(m) /\ q[i] \in Kind(m)
  <2>1. ASSUME NEW p \in Kind(m) PROVE \E i \in OfKind(m) : q[i] = p
    <3>1. PICK j \in 1..Len(u) : u[j] = p
      BY <1>1 DEF Elements
    <3>2. EndOf(n) + j \in OfKind(m) /\ q[EndOf(n) + j] = p
      BY <1>1, <1>3, <3>1
    <3> QED
      BY <3>2
  <2>2. ASSUME NEW i \in OfKind(m) PROVE i \in 1..EndOf(m) /\ q[i] \in Kind(m)
    <3> DEFINE j == i - EndOf(n)
    <3>1. i \in 1..EndOf(m) /\ j \in 1..Len(u) /\ EndOf(n) + j = i
      BY <1>1, <1>3
    <3> HIDE DEF j
    <3>2. q[EndOf(n) + j] = u[j] /\ u[j] \in Kind(m)
      BY <1>1, <3>1 DEF Elements
    <3> QED
      BY <3>1, <3>2
  <2> QED
    BY <2>1, <2>2
<1>6. ASSUME NEW i \in 1..EndOf(m) PROVE \E k \in 1..m : i \in OfKind(k)
  <2>1. CASE i <= EndOf(n)
    <3>1. i \in 1..EndOf(n)
      BY <1>1, <2>1
    <3>2. PICK k \in 1..n : i \in OfKind(k)
      BY <3>1 DEF GoesThrough
    <3> QED
      BY <3>2
  <2>2. CASE i > EndOf(n)
    <3>1. i \in OfKind(m) /\ m \in 1..m
      BY <1>1, <1>3, <2>2
    <3> QED
      BY <3>1
  <2>3. i <= EndOf(n) \/ i > EndOf(n)
    BY <1>1
  <2> QED
    BY <2>1, <2>2, <2>3
<1>7. q \in Seq(Places) /\ Len(q) = EndOf(m)
  BY <1>1
<1> HIDE DEF m
<1>8. GoesThrough(q, m)
  BY <1>2, <1>4, <1>5, <1>6, <1>7 DEF GoesThrough
<1> QED
  BY <1>8 DEF q, m

\* The search path goes through the kinds of source an assembly has.
LEMMA PathGoesThrough ==
  ASSUME NEW a \in Names
  PROVE  GoesThrough(SearchPath(a), IF a \in Unpublished THEN 3 ELSE 5)
<1>1. /\ BuildRoots \in Seq(Places) /\ OverrideRoots \in Seq(Places)
      /\ Frameworks \in Seq(Places) /\ PackageFolders \in Seq(Places)
      /\ NativeRoot \in Places
  BY RuntimeAssumption DEF Places
<1>2. /\ Kind(1) = {NativeRoot} /\ Kind(2) = Elements(BuildRoots)
      /\ Kind(3) = Elements(OverrideRoots) /\ Kind(4) = Elements(Frameworks)
      /\ Kind(5) = Elements(PackageFolders)
  BY DEF Kind
<1>3. /\ EndOf(0) = 0 /\ EndOf(1) = 1 /\ EndOf(2) = EndOf(1) + Len(BuildRoots)
      /\ EndOf(3) = EndOf(2) + Len(OverrideRoots) /\ EndOf(4) = EndOf(3) + Len(Frameworks)
      /\ EndOf(5) = EndOf(4) + Len(PackageFolders)
  <2>1. /\ EndOf(0) = 0 /\ EndOf(1) = 1 /\ EndOf(2) = 1 + Len(BuildRoots)
        /\ EndOf(3) = 1 + Len(BuildRoots) + Len(OverrideRoots)
        /\ EndOf(4) = 1 + Len(BuildRoots) + Len(OverrideRoots) + Len(Frameworks)
        /\ EndOf(5) = 1 + Len(BuildRoots) + Len(OverrideRoots) + Len(Frameworks)
                        + Len(PackageFolders)
    BY DEF EndOf
  <2> QED
    BY <1>1, <2>1
<1>4. GoesThrough(<< NativeRoot >>, 1)
  <2> DEFINE s == << NativeRoot >>
  <2>1. s \in Seq(Places) /\ Len(s) = 1 /\ s[1] = NativeRoot
    BY <1>1
  <2> HIDE DEF s
  <2>2. 1 - 1 = 0 /\ 0 + 1 = 1 /\ \A i \in 1..1 : i = 1
    OBVIOUS
  <2>3. OfKind(1) = 1..1
    BY <1>3, <2>2 DEF OfKind
  <2>4. \A k \in 1..1 : /\ \A p \in Kind(k) : \E i \in OfKind(k) : s[i] = p
                        /\ \A i \in OfKind(k) : i \in 1..EndOf(1) /\ s[i] \in Kind(k)
    BY <1>2, <1>3, <2>1, <2>2, <2>3
  <2>5. \A i \in 1..EndOf(1) : \E k \in 1..1 : i \in OfKind(k)
    BY <1>3, <2>3
  <2>6. GoesThrough(s, 1)
    BY <1>3, <2>1, <2>4, <2>5 DEF GoesThrough
  <2> QED
    BY <2>6 DEF s
<1>5. 1 + 1 = 2 /\ 2 + 1 = 3 /\ 3 + 1 = 4 /\ 4 + 1 = 5
  OBVIOUS
<1>6. GoesThrough(<< NativeRoot >> \o BuildRoots, 2)
  <2>1. GoesThrough(<< NativeRoot >> \o BuildRoots, 1 + 1)
    BY <1>1, <1>2, <1>3, <1>4, <1>5, GoesFurther
  <2> QED
    BY <1>5, <2>1
<1>7. GoesThrough(AssemblyRoots, 3)
  <2>1. GoesThrough((<< NativeRoot >> \o BuildRoots) \o OverrideRoots, 2 + 1)
    BY <1>1, <1>2, <1>3, <1>5, <1>6, GoesFurther
  <2> QED
    BY <1>5, <2>1 DEF AssemblyRoots
<1>8. GoesThrough(AssemblyRoots \o Frameworks, 4)
  <2>1. GoesThrough(AssemblyRoots \o Frameworks, 3 + 1)
    BY <1>1, <1>2, <1>3, <1>5, <1>7, GoesFurther
  <2> QED
    BY <1>5, <2>1
<1>9. GoesThrough((AssemblyRoots \o Frameworks) \o PackageFolders, 5)
  <2>1. GoesThrough((AssemblyRoots \o Frameworks) \o PackageFolders, 4 + 1)
    BY <1>1, <1>2, <1>3, <1>5, <1>8, GoesFurther
  <2> QED
    BY <1>5, <2>1
<1>10. AssemblyRoots \in Seq(Places)
  BY <1>7 DEF GoesThrough
<1>11. CASE a \in Unpublished
  <2>1. SearchPath(a) = AssemblyRoots \o <<>>
    BY <1>11 DEF SearchPath, NuGetPlaces
  <2>2. SearchPath(a) = AssemblyRoots
    BY <1>10, <2>1, ConcatEmptySeq
  <2> QED
    BY <1>7, <1>11, <2>2
<1>12. CASE a \notin Unpublished
  <2>1. SearchPath(a) = AssemblyRoots \o (Frameworks \o PackageFolders)
    BY <1>12 DEF SearchPath, NuGetPlaces
  <2>2. SearchPath(a) = (AssemblyRoots \o Frameworks) \o PackageFolders
    <3>1. \A r, f, g \in Seq(Places) : (r \o f) \o g = r \o (f \o g)
      BY ConcatAssociative
    <3> QED
      BY <1>1, <1>10, <2>1, <3>1, Zenon
  <2> QED
    BY <1>9, <1>12, <2>2
<1> QED
  BY <1>11, <1>12

LEMMA SourcesAreKinds ==
  ASSUME NEW a \in Names
  PROVE  /\ DOMAIN Sources(a) = 1..(IF a \in Unpublished THEN 2 ELSE 4)
         /\ Sources(a)[1] = Kind(1) /\ Sources(a)[2] = Kind(2) \cup Kind(3)
         /\ a \notin Unpublished => Sources(a)[3] = Kind(4) /\ Sources(a)[4] = Kind(5)
<1>1. /\ Kind(1) = {NativeRoot} /\ Kind(2) = Elements(BuildRoots)
      /\ Kind(3) = Elements(OverrideRoots) /\ Kind(4) = Elements(Frameworks)
      /\ Kind(5) = Elements(PackageFolders)
  BY DEF Kind
<1> DEFINE S == SUBSET Places
           f == << {NativeRoot}, Elements(BuildRoots) \cup Elements(OverrideRoots) >>
           g == << Elements(Frameworks), Elements(PackageFolders) >>
<1>2. /\ {NativeRoot} \in S /\ Elements(BuildRoots) \cup Elements(OverrideRoots) \in S
      /\ Elements(Frameworks) \in S /\ Elements(PackageFolders) \in S
  BY DEF Places
<1> HIDE DEF S
<1>3. /\ f \in Seq(S) /\ Len(f) = 2 /\ DOMAIN f = 1..2
      /\ f[1] = Kind(1) /\ f[2] = Kind(2) \cup Kind(3)
  BY <1>1, <1>2
<1>4. g \in Seq(S) /\ Len(g) = 2 /\ g[1] = Kind(4) /\ g[2] = Kind(5)
  BY <1>1, <1>2
<1>5. Sources(a) = f \o (IF a \in Unpublished THEN <<>> ELSE g)
  BY DEF Sources
<1> HIDE DEF f, g
<1>6. CASE a \in Unpublished
  <2>1. Sources(a) = f
    BY <1>3, <1>5, <1>6, ConcatEmptySeq
  <2> QED
    BY <1>3, <1>6, <2>1
<1>7. CASE a \notin Unpublished
  <2> DEFINE q == f \o g
  <2>1. Sources(a) = q
    BY <1>5, <1>7
  <2>2. /\ Len(q) = Len(f) + Len(g) /\ DOMAIN q = 1..Len(q)
        /\ \A i \in 1..Len(f) : q[i] = f[i]
        /\ \A i \in 1..Len(g) : q[Len(f) + i] = g[i]
    <3>1. f \in Seq(S) /\ g \in Seq(S)
      BY <1>3, <1>4
    <3> QED
      BY <3>1, Concatenation
  <2> HIDE DEF q
  <2>3. 1 \in 1..2 /\ 2 \in 1..2 /\ 2 + 1 = 3 /\ 2 + 2 = 4
    OBVIOUS
  <2>4. q[2 + 1] = g[1] /\ q[2 + 2] = g[2] /\ q[1] = f[1] /\ q[2] = f[2]
    BY <1>3, <1>4, <2>2, <2>3
  <2>5. DOMAIN q = 1..4
    BY <1>3, <1>4, <2>2, <2>3
  <2> QED
    BY <1>3, <1>4, <1>7, <2>1, <2>3, <2>4, <2>5
<1> QED
  BY <1>6, <1>7

\* The number of kinds of place that are searched for an assembly.
Final(a) == IF a \in Unpublished THEN 3 ELSE 5

\* Some place of kind k has the assembly.
KindHas(a, k) == \E p \in Kind(k) : Exists(a, p)

\* What comes from the first kind of place comes from the first source.
LEMMA FirstKindIsFirstSource ==
  ASSUME NEW a \in Names
  PROVE  /\ a \in Nowhere <=> \A k \in 1..Final(a) : ~KindHas(a, k)
         /\ \A place : \A k \in 1..Final(a) :
              /\ place \in Kind(k) /\ Exists(a, place)
              /\ \A earlier \in 1..(k - 1) : ~KindHas(a, earlier)
              => ComesFromTheFirst(a, place)
<1>1. /\ Has(a, 1) <=> KindHas(a, 1)
      /\ Has(a, 2) <=> KindHas(a, 2) \/ KindHas(a, 3)
      /\ a \notin Unpublished => /\ Has(a, 3) <=> KindHas(a, 4)
                                 /\ Has(a, 4) <=> KindHas(a, 5)
  BY SourcesAreKinds DEF Has, KindHas
<1>2. CASE a \in Unpublished
  <2>1. /\ DOMAIN Sources(a) = 1..2 /\ Final(a) = 3
        /\ \A k \in 1..2 : k = 1 \/ k = 2
        /\ \A k \in 1..3 : k = 1 \/ k = 2 \/ k = 3
        /\ 1 \in 1..2 /\ 2 \in 1..2 /\ 1 \in 1..3 /\ 2 \in 1..3 /\ 3 \in 1..3
    <3>1. DOMAIN Sources(a) = 1..2 /\ Final(a) = 3
      BY <1>2, SourcesAreKinds DEF Final
    <3> QED
      BY <3>1
  <2>2. a \in Nowhere <=> ~Has(a, 1) /\ ~Has(a, 2)
    BY <2>1 DEF Nowhere
  <2>3. (\A k \in 1..3 : ~KindHas(a, k)) <=> ~KindHas(a, 1) /\ ~KindHas(a, 2) /\ ~KindHas(a, 3)
    BY <2>1
  <2>4. ASSUME NEW place, NEW k \in 1..3, place \in Kind(k), Exists(a, place),
               \A earlier \in 1..(k - 1) : ~KindHas(a, earlier)
        PROVE  ComesFromTheFirst(a, place)
    <3>1. CASE k = 1
      BY <1>1, <2>1, <2>4, <3>1, SourcesAreKinds DEF ComesFromTheFirst
    <3>2. CASE k \in {2, 3}
      <4>1. ~KindHas(a, 1) /\ place \in Sources(a)[2]
        BY <2>4, <3>2, SourcesAreKinds
      <4>2. \A earlier \in 1..(2 - 1) : ~Has(a, earlier)
        BY <1>1, <4>1
      <4> QED
        BY <2>1, <2>4, <4>1, <4>2 DEF ComesFromTheFirst
    <3> QED
      BY <2>1, <3>1, <3>2
  <2> QED
    BY <1>1, <2>1, <2>2, <2>3, <2>4
<1>3. CASE a \notin Unpublished
  <2>1. /\ DOMAIN Sources(a) = 1..4 /\ Final(a) = 5
        /\ \A k \in 1..4 : k = 1 \/ k = 2 \/ k = 3 \/ k = 4
        /\ \A k \in 1..5 : k = 1 \/ k = 2 \/ k = 3 \/ k = 4 \/ k = 5
        /\ 1 \in 1..4 /\ 2 \in 1..4 /\ 3 \in 1..4 /\ 4 \in 1..4
        /\ 1 \in 1..5 /\ 2 \in 1..5 /\ 3 \in 1..5 /\ 4 \in 1..5 /\ 5 \in 1..5
    BY <1>3, SourcesAreKinds DEF Final
  <2>2. a \in Nowhere <=> ~Has(a, 1) /\ ~Has(a, 2) /\ ~Has(a, 3) /\ ~Has(a, 4)
    BY <2>1 DEF Nowhere
  <2>3. (\A k \in 1..5 : ~KindHas(a, k))
          <=> /\ ~KindHas(a, 1) /\ ~KindHas(a, 2) /\ ~KindHas(a, 3)
              /\ ~KindHas(a, 4) /\ ~KindHas(a, 5)
    BY <2>1
  <2>4. ASSUME NEW place, NEW k \in 1..5, place \in Kind(k), Exists(a, place),
               \A earlier \in 1..(k - 1) : ~KindHas(a, earlier)
        PROVE  ComesFromTheFirst(a, place)
    <3>1. CASE k = 1
      BY <1>1, <2>1, <2>4, <3>1, SourcesAreKinds DEF ComesFromTheFirst
    <3>2. CASE k \in {2, 3}
      <4>1. ~KindHas(a, 1) /\ place \in Sources(a)[2]
        BY <2>4, <3>2, SourcesAreKinds
      <4>2. \A earlier \in 1..(2 - 1) : ~Has(a, earlier)
        BY <1>1, <4>1
      <4> QED
        BY <2>1, <2>4, <4>1, <4>2 DEF ComesFromTheFirst
    <3>3. CASE k = 4
      <4>1. /\ ~KindHas(a, 1) /\ ~KindHas(a, 2) /\ ~KindHas(a, 3)
            /\ place \in Sources(a)[3]
        BY <1>3, <2>4, <3>3, SourcesAreKinds
      <4>2. \A earlier \in 1..(3 - 1) : ~Has(a, earlier)
        BY <1>1, <4>1
      <4> QED
        BY <2>1, <2>4, <4>1, <4>2 DEF ComesFromTheFirst
    <3>4. CASE k = 5
      <4>1. /\ ~KindHas(a, 1) /\ ~KindHas(a, 2) /\ ~KindHas(a, 3) /\ ~KindHas(a, 4)
            /\ place \in Sources(a)[4]
        BY <1>3, <2>4, <3>4, SourcesAreKinds
      <4>2. \A earlier \in 1..(4 - 1) : ~Has(a, earlier)
        BY <1>1, <1>3, <4>1
      <4> QED
        BY <2>1, <2>4, <4>1, <4>2 DEF ComesFromTheFirst
    <3> QED
      BY <2>1, <3>1, <3>2, <3>3, <3>4
  <2> QED
    BY <1>1, <1>3, <2>1, <2>2, <2>3, <2>4
<1> QED
  BY <1>2, <1>3

\* What a search settles on comes from the first kind of source that has it.
LEMMA FirstComesFromTheFirst ==
  ASSUME NEW a \in Names
  PROVE  /\ Absent = Nowhere
         /\ \A place : IsFirst(a, place) => ComesFromTheFirst(a, place)
<1> DEFINE path(b) == SearchPath(b)
<1>1. ASSUME NEW b \in Names
      PROVE  /\ Final(b) \in {3, 5}
             /\ DOMAIN path(b) = 1..Len(path(b))
             /\ \A k \in 1..Final(b) :
                  /\ \A p \in Kind(k) :
                       \E i \in OfKind(k) : i \in DOMAIN path(b) /\ path(b)[i] = p
                  /\ \A i \in OfKind(k) : i \in DOMAIN path(b) /\ path(b)[i] \in Kind(k)
             /\ \A i \in DOMAIN path(b) : \E k \in 1..Final(b) : i \in OfKind(k)
  <2>1. GoesThrough(path(b), Final(b)) /\ DOMAIN path(b) = 1..Len(path(b))
    BY PathGoesThrough, PathType DEF Final
  <2>2. Final(b) \in {3, 5}
    BY DEF Final
  <2> HIDE DEF path
  <2>3. DOMAIN path(b) = 1..EndOf(Final(b))
    BY <2>1 DEF GoesThrough
  <2>4. ASSUME NEW k \in 1..Final(b)
        PROVE  /\ \A p \in Kind(k) :
                    \E i \in OfKind(k) : i \in DOMAIN path(b) /\ path(b)[i] = p
               /\ \A i \in OfKind(k) : i \in DOMAIN path(b) /\ path(b)[i] \in Kind(k)
    <3>1. /\ \A p \in Kind(k) : \E i \in OfKind(k) : path(b)[i] = p
          /\ \A i \in OfKind(k) : i \in 1..EndOf(Final(b)) /\ path(b)[i] \in Kind(k)
      BY <2>1 DEF GoesThrough
    <3> QED
      BY <2>3, <3>1, Zenon
  <2>5. \A i \in DOMAIN path(b) : \E k \in 1..Final(b) : i \in OfKind(k)
    BY <2>1, <2>3 DEF GoesThrough
  <2> QED
    BY <2>1, <2>2, <2>4, <2>5
<1>2. ASSUME NEW b \in Names PROVE b \in Absent <=> b \in Nowhere
  <2>1. b \in Absent <=> \A i \in DOMAIN path(b) : ~Exists(b, path(b)[i])
    BY DEF Absent
  <2>2. b \in Nowhere <=> \A k \in 1..Final(b) : \A p \in Kind(k) : ~Exists(b, p)
    BY FirstKindIsFirstSource DEF KindHas
  <2> HIDE DEF path
  <2>3. /\ \A k \in 1..Final(b) : \A p \in Kind(k) : \E i \in DOMAIN path(b) : path(b)[i] = p
        /\ \A i \in DOMAIN path(b) : \E k \in 1..Final(b) : path(b)[i] \in Kind(k)
    BY <1>1
  <2> QED
    BY <2>1, <2>2, <2>3, Zenon
<1>3. Absent = Nowhere
  BY <1>2 DEF Absent, Nowhere
<1>4. ASSUME NEW place, IsFirst(a, place) PROVE ComesFromTheFirst(a, place)
  <2>1. CASE \A j \in DOMAIN path(a) : ~Exists(a, path(a)[j])
    <3>1. a \in Absent /\ place = NativeRoot
      BY <1>4, <2>1 DEF Absent, IsFirst
    <3> QED
      BY <1>3, <3>1 DEF ComesFromTheFirst
  <2>2. CASE ~\A j \in DOMAIN path(a) : ~Exists(a, path(a)[j])
    <3>1. PICK j \in DOMAIN path(a) :
            /\ place = path(a)[j] /\ Exists(a, place)
            /\ \A i \in 1..(j - 1) : ~Exists(a, path(a)[i])
      BY <1>4, <2>2 DEF IsFirst
    <3>2. PICK k \in 1..Final(a) : j \in OfKind(k)
      BY <1>1
    <3>3. place \in Kind(k) /\ k \in 1..5 /\ j \in Nat
      <4>1. Final(a) \in {3, 5} /\ DOMAIN path(a) = 1..Len(path(a))
        BY <1>1
      <4>2. place \in Kind(k)
        BY <1>1, <3>1, <3>2
      <4> HIDE DEF path
      <4> QED
        BY <3>1, <3>2, <4>1, <4>2
    <3>4. ASSUME NEW earlier \in 1..(k - 1) PROVE ~KindHas(a, earlier)
      <4>1. SUFFICES ASSUME NEW p \in Kind(earlier)
                     PROVE  ~Exists(a, p)
        BY DEF KindHas
      <4>2. earlier \in 1..Final(a) /\ earlier \in 1..5 /\ earlier < k
        <5>1. Final(a) \in Nat /\ k \in Nat /\ earlier \in Nat /\ k <= Final(a) /\ k <= 5
          <6>1. Final(a) \in {3, 5}
            BY <1>1
          <6>2. Final(a) \in Nat
            BY <6>1
          <6> QED
            BY <3>2, <3>3, <6>2
        <5> QED
          BY <5>1
      <4>3. PICK i \in OfKind(earlier) : i \in DOMAIN path(a) /\ path(a)[i] = p
        BY <1>1, <4>2
      <4>4. i < j
        BY <3>2, <3>3, <4>2, EarlierKind
      <4>5. i \in 1..(j - 1)
        BY <1>1, <3>3, <4>3, <4>4
      <4> QED
        BY <3>1, <4>3, <4>5
    <3> QED
      BY <3>1, <3>3, <3>4, FirstKindIsFirstSource
  <2> QED
    BY <2>1, <2>2
<1> QED
  BY <1>3, <1>4

\* As long as the disk stays as a thread has seen it, the search has settled
\* for every assembly on the first source that has it, the package, a folder
\* of the machine, a package of NuGet (native/__init__.py); a call that ends for want of files names exactly the
\* assemblies that are nowhere, and one that goes on misses none.
THEOREM SearchCorrect == Spec => []UndisturbedSearchFindsAll
<1>1. IInv => UndisturbedSearchFindsAll
  <2>1. SUFFICES ASSUME IInv, NEW t \in Threads, SeesTheDisk(t)
                 PROVE  /\ \A i \in DOMAIN found[t] :
                             ComesFromTheFirst(Assemblies[i], found[t][i])
                        /\ result[t] = "FileNotFoundError" =>
                             missing[t] = Nowhere /\ Nowhere # {}
                        /\ todo[t] # <<>> /\ Head(todo[t]) \in {"clr", "reference", "type", "object"}
                             => Nowhere = {}
    BY DEF UndisturbedSearchFindsAll
  <2>2. KnowsTheDisk(t)
    BY <2>1 DEF IInv
  <2>3. Absent = Nowhere
    BY FirstComesFromTheFirst, RuntimeAssumption
  <2>4. ASSUME NEW i \in DOMAIN found[t]
        PROVE  ComesFromTheFirst(Assemblies[i], found[t][i])
    <3>1. Assemblies[i] \in Names /\ IsFirst(Assemblies[i], found[t][i])
      BY <2>1, <2>2 DEF KnowsTheDisk, Names
    <3> QED
      BY <3>1, FirstComesFromTheFirst
  <2>5. todo[t] # <<>> /\ Head(todo[t]) \in {"type", "object"} => LoadPassed(todo[t])
    BY DEF LoadPassed
  <2> QED
    BY <2>1, <2>2, <2>3, <2>4, <2>5 DEF KnowsTheDisk, In
<1> QED
  BY <1>1, Invariant, PTL

-----------------------------------------------------------------------------
(* The catalogue of types: what it lists, and what a lookup answers.       *)

\* s is a sequence of exactly the elements of S.
Listed(s, S) == s \in Seq(S) /\ ToSet(s) = S

\* A concatenation lists what its parts list.
LEMMA ListedConcat ==
  ASSUME NEW s, NEW t, NEW S, NEW T, Listed(s, S), Listed(t, T)
  PROVE  Listed(s \o t, S \cup T)
<1>1. /\ s \in Seq(S \cup T) /\ t \in Seq(S \cup T)
  BY DEF Listed
<1>2. s \o t \in Seq(S \cup T) /\ Len(s \o t) = Len(s) + Len(t)
  BY <1>1
<1>3. \A x \in S \cup T : \E i \in DOMAIN (s \o t) : (s \o t)[i] = x
  <2>1. ASSUME NEW x \in S PROVE \E i \in DOMAIN (s \o t) : (s \o t)[i] = x
    BY <1>1, <2>1 DEF Listed, ToSet
  <2>2. ASSUME NEW x \in T PROVE \E i \in DOMAIN (s \o t) : (s \o t)[i] = x
    <3>1. PICK j \in DOMAIN t : t[j] = x
      BY DEF Listed, ToSet
    <3>2. (s \o t)[Len(s) + j] = x /\ Len(s) + j \in DOMAIN (s \o t)
      BY <1>1, <1>2, <3>1
    <3>3. QED BY <3>2
  <2>3. QED BY <2>1, <2>2
<1>4. \A i \in DOMAIN (s \o t) : (s \o t)[i] \in S \cup T
  BY <1>2
<1>5. ToSet(s \o t) = S \cup T
  BY <1>3, <1>4 DEF ToSet
<1>6. QED BY <1>2, <1>5 DEF Listed

\* Types of one kind, made from their names.
LEMMA ListedNamed ==
  ASSUME NEW kind, NEW names, NEW N, Listed(names, N)
  PROVE  Listed(Named(kind, names), {Type(kind, n, << >>) : n \in N})
BY DEF Listed, ToSet, Named

\* An entry of the catalogue.
Entry(assembly, namespace, type) ==
  [assembly |-> assembly, namespace |-> namespace, kind |-> type.kind,
   name |-> type.name, members |-> type.members]

\* The entries of the types of one namespace.
LEMMA ListedIn ==
  ASSUME NEW assembly, NEW namespace, NEW types, NEW T, Listed(types, T)
  PROVE  Listed(InAssembly(assembly, namespace, types), {Entry(assembly, namespace, t) : t \in T})
BY DEF Listed, ToSet, InAssembly, Entry

\* s is a sequence.
Listing(s) == \E S : Listed(s, S)

\* Concatenations, and the sequences of the file.
LEMMA Listings ==
  /\ \A s, t : Listing(s) /\ Listing(t) => Listing(s \o t)
  /\ \A kind, names : Listing(names) => Listing(Named(kind, names))
  /\ \A a : Listing(<< a >>)
  /\ \A a, b : Listing(<< a, b >>)
  /\ \A a, b, c : Listing(<< a, b, c >>)
  /\ \A a, b, c, d : Listing(<< a, b, c, d >>)
  /\ \A a, b, c, d, e : Listing(<< a, b, c, d, e >>)
  /\ \A a, b, c, d, e, f : Listing(<< a, b, c, d, e, f >>)
  /\ \A a, b, c, d, e, f, g, h : Listing(<< a, b, c, d, e, f, g, h >>)
  /\ \A a, b, c, d, e, f, g, h, i, j : Listing(<< a, b, c, d, e, f, g, h, i, j >>)
<1>1. ASSUME NEW s, NEW t, Listing(s), Listing(t) PROVE Listing(s \o t)
  BY <1>1, ListedConcat DEF Listing
<1>2. ASSUME NEW kind, NEW names, Listing(names) PROVE Listing(Named(kind, names))
  BY <1>2, ListedNamed DEF Listing
<1>3. ASSUME NEW a PROVE Listing(<< a >>)
  <2>1. Listed(<< a >>, {a})
    BY DEF Listed, ToSet
  <2>2. QED BY <2>1 DEF Listing
<1>4. ASSUME NEW a, NEW b PROVE Listing(<< a, b >>)
  <2>1. Listed(<< a, b >>, {a, b})
    BY DEF Listed, ToSet
  <2>2. QED BY <2>1 DEF Listing
<1>5. ASSUME NEW a, NEW b, NEW c PROVE Listing(<< a, b, c >>)
  <2>1. Listed(<< a, b, c >>, {a, b, c})
    BY DEF Listed, ToSet
  <2>2. QED BY <2>1 DEF Listing
<1>6. ASSUME NEW a, NEW b, NEW c, NEW d PROVE Listing(<< a, b, c, d >>)
  <2>1. Listed(<< a, b, c, d >>, {a, b, c, d})
    BY DEF Listed, ToSet
  <2>2. QED BY <2>1 DEF Listing
<1>7. ASSUME NEW a, NEW b, NEW c, NEW d, NEW e PROVE Listing(<< a, b, c, d, e >>)
  <2>1. Listed(<< a, b, c, d, e >>, {a, b, c, d, e})
    BY DEF Listed, ToSet
  <2>2. QED BY <2>1 DEF Listing
<1>8. ASSUME NEW a, NEW b, NEW c, NEW d, NEW e, NEW f PROVE Listing(<< a, b, c, d, e, f >>)
  <2>1. Listed(<< a, b, c, d, e, f >>, {a, b, c, d, e, f})
    BY DEF Listed, ToSet
  <2>2. QED BY <2>1 DEF Listing
<1>9. ASSUME NEW a, NEW b, NEW c, NEW d, NEW e, NEW f, NEW g, NEW h PROVE Listing(<< a, b, c, d, e, f, g, h >>)
  <2>1. Listed(<< a, b, c, d, e, f, g, h >>, {a, b, c, d, e, f, g, h})
    BY DEF Listed, ToSet
  <2>2. QED BY <2>1 DEF Listing
<1>10. ASSUME NEW a, NEW b, NEW c, NEW d, NEW e, NEW f, NEW g, NEW h, NEW i, NEW j PROVE Listing(<< a, b, c, d,
      e, f, g, h, i, j >>)
  <2>1. Listed(<< a, b, c, d, e, f, g, h, i, j >>, {a, b, c, d, e, f, g, h, i, j})
    BY DEF Listed, ToSet
  <2>2. QED BY <2>1 DEF Listing
<1>11. QED BY <1>1, <1>2, <1>3, <1>4, <1>5, <1>6, <1>7, <1>8, <1>9, <1>10

\* The entries of p say that they are of this assembly and namespace.
Located(p, assembly, namespace) ==
  /\ Listing(p)
  /\ \A e \in ToSet(p) : e.assembly = assembly /\ e.namespace = namespace

\* The entries of one namespace name its assembly and the namespace.
LEMMA LocatedIn ==
  ASSUME NEW assembly, NEW namespace, NEW types, Listing(types)
  PROVE  Located(InAssembly(assembly, namespace, types), assembly, namespace)
<1>1. PICK T : Listed(types, T)
  BY DEF Listing
<1>2. Listed(InAssembly(assembly, namespace, types), {Entry(assembly, namespace, t) : t \in T})
  BY <1>1, ListedIn
<1>3. QED BY <1>2 DEF Located, Listing, Listed, Entry

\* Every part of the catalogue is of one assembly and one namespace.
LEMMA Parts ==
  /\ Located(Audio_Base, "AIKernel.Providers.Audio", "AIKernel.Providers.Audio.Base")
  /\ Located(Audio_Capabilities, "AIKernel.Providers.Audio", "AIKernel.Providers.Audio.Capabilities")
  /\ Located(Audio_DependencyInjection, "AIKernel.Providers.Audio",
       "AIKernel.Providers.Audio.DependencyInjection")
  /\ Located(Audio_Diagnostics, "AIKernel.Providers.Audio", "AIKernel.Providers.Audio.Diagnostics")
  /\ Located(Audio_Routing, "AIKernel.Providers.Audio", "AIKernel.Providers.Audio.Routing")
  /\ Located(Audio_Validation, "AIKernel.Providers.Audio", "AIKernel.Providers.Audio.Validation")
  /\ Located(Compute, "AIKernel.Providers.Compute", "AIKernel.Providers.Compute")
  /\ Located(Council_Concepts, "AIKernel.Providers.Council", "AIKernel.Providers.Council.Concepts")
  /\ Located(Council_Contracts, "AIKernel.Providers.Council", "AIKernel.Providers.Council.Contracts")
  /\ Located(Council_DependencyInjection, "AIKernel.Providers.Council",
       "AIKernel.Providers.Council.DependencyInjection")
  /\ Located(Council_Dimensions, "AIKernel.Providers.Council", "AIKernel.Providers.Council.Dimensions")
  /\ Located(Council_Envelopes, "AIKernel.Providers.Council", "AIKernel.Providers.Council.Envelopes")
  /\ Located(Council_Providers, "AIKernel.Providers.Council", "AIKernel.Providers.Council.Providers")
  /\ Located(Council_Routing, "AIKernel.Providers.Council", "AIKernel.Providers.Council.Routing")
  /\ Located(MicrosoftAI, "AIKernel.Providers.MicrosoftAI", "AIKernel.Providers.MicrosoftAI")
  /\ Located(MicrosoftAI_DependencyInjection, "AIKernel.Providers.MicrosoftAI",
       "AIKernel.Providers.MicrosoftAI.DependencyInjection")
  /\ Located(Perception, "AIKernel.Providers.Perception", "AIKernel.Providers.Perception")
  /\ Located(Perception_DependencyInjection, "AIKernel.Providers.Perception",
       "AIKernel.Providers.Perception.DependencyInjection")
  /\ Located(Perception_Routing, "AIKernel.Providers.Perception", "AIKernel.Providers.Perception.Routing")
  /\ Located(Standard, "AIKernel.Providers.Standard", "AIKernel.Providers.Standard")
  /\ Located(Standard_Abstractions, "AIKernel.Providers.Standard", "AIKernel.Providers.Standard.Abstractions")
  /\ Located(Standard_Compute, "AIKernel.Providers.Standard", "AIKernel.Providers.Standard.Compute")
  /\ Located(Standard_DependencyInjection, "AIKernel.Providers.Standard",
       "AIKernel.Providers.Standard.DependencyInjection")
  /\ Located(Standard_EventBus, "AIKernel.Providers.Standard", "AIKernel.Providers.Standard.EventBus")
  /\ Located(Standard_FileSystem, "AIKernel.Providers.Standard", "AIKernel.Providers.Standard.FileSystem")
  /\ Located(Standard_Logging, "AIKernel.Providers.Standard", "AIKernel.Providers.Standard.Logging")
  /\ Located(Standard_Network, "AIKernel.Providers.Standard", "AIKernel.Providers.Standard.Network")
  /\ Located(Standard_Processes, "AIKernel.Providers.Standard", "AIKernel.Providers.Standard.Processes")
  /\ Located(Standard_Profiler, "AIKernel.Providers.Standard", "AIKernel.Providers.Standard.Profiler")
  /\ Located(Standard_Scheduler, "AIKernel.Providers.Standard", "AIKernel.Providers.Standard.Scheduler")
  /\ Located(Substrate, "AIKernel.Providers.Substrate", "AIKernel.Providers.Substrate")
  /\ Located(ChatHistory, "ChatHistoryProvider", "AIKernel.Providers.ChatHistory")
  /\ Located(ChatHistory_Models, "ChatHistoryProvider", "AIKernel.Providers.ChatHistory.Models")
  /\ Located(ChatOpenAI, "ChatOpenAIProvider", "AIKernel.Providers.ChatOpenAI")
  /\ Located(CudaCompute, "CudaComputeProvider", "AIKernel.Providers.CudaCompute")
  /\ Located(CudaCompute_DependencyInjection, "CudaComputeProvider",
       "AIKernel.Providers.CudaCompute.DependencyInjection")
  /\ Located(DynamicPipelineCompiler, "DynamicPipelineCompilerProvider",
       "AIKernel.Providers.DynamicPipelineCompiler")
  /\ Located(LocalLlm, "LocalLlmProvider", "AIKernel.Providers.LocalLlm")
<1>1. Located(Audio_Base, "AIKernel.Providers.Audio", "AIKernel.Providers.Audio.Base")
  BY Listings, LocatedIn DEF Audio_Base, Classes, Records
<1>2. Located(Audio_Capabilities, "AIKernel.Providers.Audio", "AIKernel.Providers.Audio.Capabilities")
  BY Listings, LocatedIn DEF Audio_Capabilities, Records
<1>3. Located(Audio_DependencyInjection, "AIKernel.Providers.Audio",
      "AIKernel.Providers.Audio.DependencyInjection")
  BY Listings, LocatedIn DEF Audio_DependencyInjection, Classes
<1>4. Located(Audio_Diagnostics, "AIKernel.Providers.Audio", "AIKernel.Providers.Audio.Diagnostics")
  BY Listings, LocatedIn DEF Audio_Diagnostics, Classes
<1>5. Located(Audio_Routing, "AIKernel.Providers.Audio", "AIKernel.Providers.Audio.Routing")
  BY Listings, LocatedIn DEF Audio_Routing, Classes
<1>6. Located(Audio_Validation, "AIKernel.Providers.Audio", "AIKernel.Providers.Audio.Validation")
  BY Listings, LocatedIn DEF Audio_Validation, Classes, Records
<1>7. Located(Compute, "AIKernel.Providers.Compute", "AIKernel.Providers.Compute")
  BY Listings, LocatedIn DEF Compute, Classes, Records, Enums
<1>8. Located(Council_Concepts, "AIKernel.Providers.Council", "AIKernel.Providers.Council.Concepts")
  BY Listings, LocatedIn DEF Council_Concepts, Classes
<1>9. Located(Council_Contracts, "AIKernel.Providers.Council", "AIKernel.Providers.Council.Contracts")
  BY Listings, LocatedIn DEF Council_Contracts, Interfaces
<1>10. Located(Council_DependencyInjection, "AIKernel.Providers.Council",
      "AIKernel.Providers.Council.DependencyInjection")
  BY Listings, LocatedIn DEF Council_DependencyInjection, Classes
<1>11. Located(Council_Dimensions, "AIKernel.Providers.Council", "AIKernel.Providers.Council.Dimensions")
  BY Listings, LocatedIn DEF Council_Dimensions, Classes
<1>12. Located(Council_Envelopes, "AIKernel.Providers.Council", "AIKernel.Providers.Council.Envelopes")
  BY Listings, LocatedIn DEF Council_Envelopes, Records, Enums
<1>13. Located(Council_Providers, "AIKernel.Providers.Council", "AIKernel.Providers.Council.Providers")
  BY Listings, LocatedIn DEF Council_Providers, Classes
<1>14. Located(Council_Routing, "AIKernel.Providers.Council", "AIKernel.Providers.Council.Routing")
  BY Listings, LocatedIn DEF Council_Routing, Classes
<1>15. Located(MicrosoftAI, "AIKernel.Providers.MicrosoftAI", "AIKernel.Providers.MicrosoftAI")
  BY Listings, LocatedIn, ZenonT(60) DEF MicrosoftAI, Classes, Interfaces, OpenAICompatibleCredentialType,
      OpenAICompatibleProviderType, OpenAICompatibleProviderCapabilitiesType,
          OpenAICompatibleProviderHealthContextType, OpenAICompatibleProviderOptionsType,
              OpenAICompatibleProviderOptionsValidatorType, OpenAICompatibleResponseMapperType,
                  OpenAICompatibleResponseProjectionType
<1>16. Located(MicrosoftAI_DependencyInjection, "AIKernel.Providers.MicrosoftAI",
      "AIKernel.Providers.MicrosoftAI.DependencyInjection")
  BY Listings, LocatedIn DEF MicrosoftAI_DependencyInjection, Classes
<1>17. Located(Perception, "AIKernel.Providers.Perception", "AIKernel.Providers.Perception")
  <2> DEFINE first == Records(<< "AudioSpectrumRequest", "AudioSpectrumResult",
        "AuditoryPerceptionRequest", "AuditoryPerceptionResult",
        "BinauralDirectionQuantizationRequest",
        "BinauralDirectionQuantizationResult" >>)
      \o Classes(<< "DefaultPerceptionAlgorithmKernel",
        "DefaultResidentPerceptionAlgorithmKernel",
        "DefaultSpatialSensorFusionKernel" >>)
      \o Records(<< "DenseOpticalFlowRequest", "DenseOpticalFlowResult",
        "EmaFilterRequest", "EmaFilterResult",
        "FramePerceptionProviderRequest", "FramePerceptionProviderResult",
        "FrequencyBandEnergyResult", "FrequencyBandRequest" >>)
      \o Classes(<< "HealthRetryIntentResolver" >>)
      \o Records(<< "HsvThresholdMaskRequest", "HsvThresholdMaskResult" >>)
      \o Interfaces(<< "IAuditoryPerceptionProvider", "IFramePerceptionProvider",
        "IPerceptionAlgorithmKernel", "IResidentPerceptionAlgorithmKernel",
        "IRetryIntentResolver", "ISensorStateNormalizer",
        "ISpatialCognitionProvider", "ISpatialSensorFusionKernel" >>)
      \o Records(<< "KalmanFilterRequest", "KalmanFilterResult" >>)
      \o Structs(<< "KalmanFilterState" >>)
      \o Records(<< "LaplacianEdgeRequest", "LaplacianEdgeResult",
        "LeakyIntegratorRequest", "LeakyIntegratorResult",
        "MaxPoolingRequest", "MaxPoolingResult", "MorphologyRequest",
        "MorphologyResult" >>)
      \o Structs(<< "OpticalFlowVector" >>)
             types == first
      \o Classes(<< "PerceptionAlgorithmKernel" >>)
      \o Records(<< "PerceptionCapabilityDescriptor", "PerceptionDiagnosticDescriptor",
        "PerceptionSignalDescriptor" >>)
      \o Classes(<< "ResidentPerceptionAlgorithmKernel" >>)
      \o Records(<< "RetryIntentCarrier", "SemanticPaletteColorDescriptor",
        "SemanticPaletteQuantizationRequest",
        "SemanticPaletteQuantizationResult", "SensorStateDescriptor" >>)
      \o Classes(<< "SensorStateNormalizer" >>)
      \o Records(<< "SpatialCognitionRequest", "SpatialCognitionSnapshot" >>)
      \o Structs(<< "SpatialFusionVector", "SpatialHashCell" >>)
      \o Records(<< "SpatialHashRequest", "SpatialHashResult" >>)
      \o Classes(<< "SpatialSensorFusionKernel" >>)
      \o Records(<< "TemporalDifferenceRequest", "TemporalDifferenceResult" >>)
  <2>1. Listing(first)
    BY Listings, ZenonT(60) DEF Classes, Records, Interfaces, Structs
  <2>2. Listing(types)
    <3> HIDE DEF first
    <3>1. QED BY <2>1, Listings DEF Classes, Records, Interfaces, Structs
  <2>3. Perception = InAssembly("AIKernel.Providers.Perception", "AIKernel.Providers.Perception", types)
    BY DEF Perception
  <2> HIDE DEF types
  <2>4. QED BY <2>2, <2>3, LocatedIn
<1>18. Located(Perception_DependencyInjection, "AIKernel.Providers.Perception",
      "AIKernel.Providers.Perception.DependencyInjection")
  BY Listings, LocatedIn DEF Perception_DependencyInjection, Classes
<1>19. Located(Perception_Routing, "AIKernel.Providers.Perception", "AIKernel.Providers.Perception.Routing")
  BY Listings, LocatedIn DEF Perception_Routing, Classes
<1>20. Located(Standard, "AIKernel.Providers.Standard", "AIKernel.Providers.Standard")
  BY Listings, LocatedIn DEF Standard, Classes
<1>21. Located(Standard_Abstractions, "AIKernel.Providers.Standard", "AIKernel.Providers.Standard.Abstractions")
  BY Listings, LocatedIn DEF Standard_Abstractions, Interfaces
<1>22. Located(Standard_Compute, "AIKernel.Providers.Standard", "AIKernel.Providers.Standard.Compute")
  BY Listings, LocatedIn DEF Standard_Compute, Classes
<1>23. Located(Standard_DependencyInjection, "AIKernel.Providers.Standard",
      "AIKernel.Providers.Standard.DependencyInjection")
  BY Listings, LocatedIn DEF Standard_DependencyInjection, Classes
<1>24. Located(Standard_EventBus, "AIKernel.Providers.Standard", "AIKernel.Providers.Standard.EventBus")
  BY Listings, LocatedIn DEF Standard_EventBus, Classes
<1>25. Located(Standard_FileSystem, "AIKernel.Providers.Standard", "AIKernel.Providers.Standard.FileSystem")
  BY Listings, LocatedIn DEF Standard_FileSystem, Classes
<1>26. Located(Standard_Logging, "AIKernel.Providers.Standard", "AIKernel.Providers.Standard.Logging")
  BY Listings, LocatedIn DEF Standard_Logging, Classes
<1>27. Located(Standard_Network, "AIKernel.Providers.Standard", "AIKernel.Providers.Standard.Network")
  BY Listings, LocatedIn DEF Standard_Network, Classes, Records
<1>28. Located(Standard_Processes, "AIKernel.Providers.Standard", "AIKernel.Providers.Standard.Processes")
  BY Listings, LocatedIn DEF Standard_Processes, Classes, Records, Enums
<1>29. Located(Standard_Profiler, "AIKernel.Providers.Standard", "AIKernel.Providers.Standard.Profiler")
  BY Listings, LocatedIn DEF Standard_Profiler, Classes, Records
<1>30. Located(Standard_Scheduler, "AIKernel.Providers.Standard", "AIKernel.Providers.Standard.Scheduler")
  BY Listings, LocatedIn DEF Standard_Scheduler, Classes, Records
<1>31. Located(Substrate, "AIKernel.Providers.Substrate", "AIKernel.Providers.Substrate")
  BY Listings, LocatedIn DEF Substrate, Classes, Records, Interfaces, Enums
<1>32. Located(ChatHistory, "ChatHistoryProvider", "AIKernel.Providers.ChatHistory")
  BY Listings, LocatedIn DEF ChatHistory, Classes, Records, PythonBridgeType, ChatHistoryRecordType,
      ChatHistorySettingsType
<1>33. Located(ChatHistory_Models, "ChatHistoryProvider", "AIKernel.Providers.ChatHistory.Models")
  BY Listings, LocatedIn DEF ChatHistory_Models, Records, ChatHistoryType
<1>34. Located(ChatOpenAI, "ChatOpenAIProvider", "AIKernel.Providers.ChatOpenAI")
  BY Listings, LocatedIn DEF ChatOpenAI, Classes, Records, PythonBridgeType, ChatOpenAISettingsType
<1>35. Located(CudaCompute, "CudaComputeProvider", "AIKernel.Providers.CudaCompute")
  BY Listings, LocatedIn DEF CudaCompute, Classes, Records, PythonBridgeType, CudaComputeSettingsType
<1>36. Located(CudaCompute_DependencyInjection, "CudaComputeProvider",
      "AIKernel.Providers.CudaCompute.DependencyInjection")
  BY Listings, LocatedIn DEF CudaCompute_DependencyInjection, Classes
<1>37. Located(DynamicPipelineCompiler, "DynamicPipelineCompilerProvider",
      "AIKernel.Providers.DynamicPipelineCompiler")
  BY Listings, LocatedIn DEF DynamicPipelineCompiler, Classes, Records, PythonBridgeType,
      DynamicPipelineCompilerSettingsType
<1>38. Located(LocalLlm, "LocalLlmProvider", "AIKernel.Providers.LocalLlm")
  BY Listings, LocatedIn DEF LocalLlm, Classes, Records, PythonBridgeType, LocalLlmSettingsType
<1>99. QED BY <1>1, <1>2, <1>3, <1>4, <1>5, <1>6, <1>7, <1>8, <1>9, <1>10, <1>11, <1>12, <1>13, <1>14, <1>15,
      <1>16, <1>17, <1>18, <1>19, <1>20, <1>21, <1>22, <1>23, <1>24, <1>25, <1>26, <1>27, <1>28, <1>29, <1>30,
            <1>31, <1>32, <1>33, <1>34, <1>35, <1>36, <1>37, <1>38

\* What a concatenation of two listings holds.
LEMMA Concatenated ==
  ASSUME NEW s, NEW t, Listing(s), Listing(t)
  PROVE  Listing(s \o t) /\ ToSet(s \o t) = ToSet(s) \cup ToSet(t)
<1>1. PICK S : Listed(s, S)
  BY DEF Listing
<1>2. PICK T : Listed(t, T)
  BY DEF Listing
<1>3. Listed(s \o t, S \cup T)
  BY <1>1, <1>2, ListedConcat
<1>4. QED BY <1>1, <1>2, <1>3 DEF Listed, Listing

\* The catalogue lists the entries of its parts.
LEMMA WholeCatalogue ==
  /\ Listing(managed_api_catalog)
  /\ ToSet(managed_api_catalog) =
       ToSet(Audio_Base) \cup ToSet(Audio_Capabilities)
         \cup ToSet(Audio_DependencyInjection) \cup ToSet(Audio_Diagnostics)
         \cup ToSet(Audio_Routing) \cup ToSet(Audio_Validation) \cup ToSet(Compute)
         \cup ToSet(Council_Concepts) \cup ToSet(Council_Contracts)
         \cup ToSet(Council_DependencyInjection) \cup ToSet(Council_Dimensions)
         \cup ToSet(Council_Envelopes) \cup ToSet(Council_Providers)
         \cup ToSet(Council_Routing) \cup ToSet(MicrosoftAI)
         \cup ToSet(MicrosoftAI_DependencyInjection) \cup ToSet(Perception)
         \cup ToSet(Perception_DependencyInjection) \cup ToSet(Perception_Routing)
         \cup ToSet(Standard) \cup ToSet(Standard_Abstractions)
         \cup ToSet(Standard_Compute) \cup ToSet(Standard_DependencyInjection)
         \cup ToSet(Standard_EventBus) \cup ToSet(Standard_FileSystem)
         \cup ToSet(Standard_Logging) \cup ToSet(Standard_Network)
         \cup ToSet(Standard_Processes) \cup ToSet(Standard_Profiler)
         \cup ToSet(Standard_Scheduler) \cup ToSet(Substrate) \cup ToSet(ChatHistory)
         \cup ToSet(ChatHistory_Models) \cup ToSet(ChatOpenAI) \cup ToSet(CudaCompute)
         \cup ToSet(CudaCompute_DependencyInjection) \cup ToSet(DynamicPipelineCompiler)
         \cup ToSet(LocalLlm)
<1> DEFINE p1 == Audio_Base \o Audio_Capabilities \o Audio_DependencyInjection \o Audio_Diagnostics
                \o Audio_Routing \o Audio_Validation \o Compute \o Council_Concepts
           p2 == p1 \o Council_Contracts \o Council_DependencyInjection \o Council_Dimensions
                \o Council_Envelopes \o Council_Providers \o Council_Routing
                \o MicrosoftAI \o MicrosoftAI_DependencyInjection
           p3 == p2 \o Perception \o Perception_DependencyInjection \o Perception_Routing \o Standard
                \o Standard_Abstractions \o Standard_Compute
                \o Standard_DependencyInjection \o Standard_EventBus
           p4 == p3 \o Standard_FileSystem \o Standard_Logging \o Standard_Network
                \o Standard_Processes \o Standard_Profiler \o Standard_Scheduler
                \o Substrate \o ChatHistory
           p5 == p4 \o ChatHistory_Models \o ChatOpenAI \o CudaCompute
                \o CudaCompute_DependencyInjection \o DynamicPipelineCompiler \o LocalLlm
<1>1. /\ Listing(p1)
      /\ ToSet(p1) =
           ToSet(Audio_Base) \cup ToSet(Audio_Capabilities)
             \cup ToSet(Audio_DependencyInjection) \cup ToSet(Audio_Diagnostics)
             \cup ToSet(Audio_Routing) \cup ToSet(Audio_Validation) \cup ToSet(Compute)
             \cup ToSet(Council_Concepts)
  BY Parts, Concatenated DEF Located
<1>2. /\ Listing(p2)
      /\ ToSet(p2) =
           ToSet(p1) \cup ToSet(Council_Contracts) \cup ToSet(Council_DependencyInjection)
             \cup ToSet(Council_Dimensions) \cup ToSet(Council_Envelopes)
             \cup ToSet(Council_Providers) \cup ToSet(Council_Routing)
             \cup ToSet(MicrosoftAI) \cup ToSet(MicrosoftAI_DependencyInjection)
  <2> HIDE DEF p1
  <2>1. QED BY <1>1, Parts, Concatenated DEF Located
<1>3. /\ Listing(p3)
      /\ ToSet(p3) =
           ToSet(p2) \cup ToSet(Perception) \cup ToSet(Perception_DependencyInjection)
             \cup ToSet(Perception_Routing) \cup ToSet(Standard)
             \cup ToSet(Standard_Abstractions) \cup ToSet(Standard_Compute)
             \cup ToSet(Standard_DependencyInjection) \cup ToSet(Standard_EventBus)
  <2> HIDE DEF p2
  <2>1. QED BY <1>2, Parts, Concatenated DEF Located
<1>4. /\ Listing(p4)
      /\ ToSet(p4) =
           ToSet(p3) \cup ToSet(Standard_FileSystem) \cup ToSet(Standard_Logging)
             \cup ToSet(Standard_Network) \cup ToSet(Standard_Processes)
             \cup ToSet(Standard_Profiler) \cup ToSet(Standard_Scheduler)
             \cup ToSet(Substrate) \cup ToSet(ChatHistory)
  <2> HIDE DEF p3
  <2>1. QED BY <1>3, Parts, Concatenated DEF Located
<1>5. /\ Listing(p5)
      /\ ToSet(p5) =
           ToSet(p4) \cup ToSet(ChatHistory_Models) \cup ToSet(ChatOpenAI)
             \cup ToSet(CudaCompute) \cup ToSet(CudaCompute_DependencyInjection)
             \cup ToSet(DynamicPipelineCompiler) \cup ToSet(LocalLlm)
  <2> HIDE DEF p4
  <2>1. QED BY <1>4, Parts, Concatenated DEF Located
<1>6. managed_api_catalog = p5
  BY DEF managed_api_catalog
<1> HIDE DEF p1, p2, p3, p4, p5
<1>7. QED BY <1>1, <1>2, <1>3, <1>4, <1>5, <1>6

\* A set of naturals that is not empty has a least element.
LEMMA NatMinimum ==
  ASSUME NEW S \in SUBSET Nat, S # {}
  PROVE  \E m \in S : \A n \in S : m <= n
<1> DEFINE R == {ss \in Nat \X Nat : ss[1] < ss[2]}
<1>1. IsWellFoundedOn(R, Nat)
  BY NatLessThanWellFounded DEF OpToRel
<1>2. \E m \in S : \A n \in S : << n, m >> \notin R
  <2> HIDE DEF R
  <2>1. QED BY <1>1, WFMin
<1>3. PICK m \in S : \A n \in S : << n, m >> \notin R
  BY <1>2
<1>4. ASSUME NEW n \in S PROVE m <= n
  <2>1. << n, m >> \notin R /\ << n, m >> \in Nat \X Nat
    BY <1>3
  <2>2. ~(n < m)
    BY <2>1
  <2>3. QED BY <2>2
<1>5. QED BY <1>4

\* find_managed_type finds an entry for the name of every entry.
LEMMA Found ==
  ASSUME NEW e \in ToSet(managed_api_catalog)
  PROVE  /\ full_name(e) \in DOMAIN Catalogue
         /\ Catalogue[full_name(e)] \in ToSet(managed_api_catalog)
         /\ full_name(Catalogue[full_name(e)]) = full_name(e)
         /\ find_managed_type(full_name(e)) = << Catalogue[full_name(e)] >>
<1> DEFINE cat == managed_api_catalog
           same == {i \in DOMAIN cat : full_name(cat[i]) = full_name(e)}
<1>1. PICK S : cat \in Seq(S)
  BY WholeCatalogue DEF Listing, Listed
<1>2. PICK i \in DOMAIN cat : cat[i] = e
  BY DEF ToSet
<1>3. same \in SUBSET Nat /\ i \in same
  BY <1>1, <1>2
<1>4. Min(same) \in same
  <2> HIDE DEF same
  <2>1. QED BY <1>3, NatMinimum DEF Min
<1>5. find_managed_type(full_name(e)) = << cat[Min(same)] >>
  BY <1>3 DEF find_managed_type
<1>6. full_name(e) \in ToSet(managed_type_names)
  BY <1>2 DEF managed_type_names, ToSet
<1>7. Catalogue[full_name(e)] = cat[Min(same)]
  BY <1>5, <1>6 DEF Catalogue
<1> HIDE DEF cat, same
<1>8. cat[Min(same)] \in ToSet(cat) /\ full_name(cat[Min(same)]) = full_name(e)
  BY <1>4 DEF same, ToSet
<1>9. QED BY <1>5, <1>6, <1>7, <1>8 DEF Catalogue, cat

\* The namespace of an entry tells its part.
LEMMA PartOfNamespace ==
  ASSUME NEW e \in ToSet(managed_api_catalog)
  PROVE  /\ e.namespace = "AIKernel.Providers.MicrosoftAI" => e \in ToSet(MicrosoftAI)
         /\ e.namespace = "AIKernel.Providers.Standard.Compute" => e \in ToSet(Standard_Compute)
         /\ e.namespace = "AIKernel.Providers.Standard.EventBus" => e \in ToSet(Standard_EventBus)
         /\ e.namespace = "AIKernel.Providers.Standard.FileSystem" => e \in ToSet(Standard_FileSystem)
         /\ e.namespace = "AIKernel.Providers.Standard.Logging" => e \in ToSet(Standard_Logging)
         /\ e.namespace = "AIKernel.Providers.Standard.Network" => e \in ToSet(Standard_Network)
         /\ e.namespace = "AIKernel.Providers.Standard.Processes" => e \in ToSet(Standard_Processes)
         /\ e.namespace = "AIKernel.Providers.Standard.Profiler" => e \in ToSet(Standard_Profiler)
         /\ e.namespace = "AIKernel.Providers.Standard.Scheduler" => e \in ToSet(Standard_Scheduler)
         /\ e.namespace = "AIKernel.Providers.ChatHistory" => e \in ToSet(ChatHistory)
         /\ e.namespace = "AIKernel.Providers.ChatHistory.Models" => e \in ToSet(ChatHistory_Models)
         /\ e.namespace = "AIKernel.Providers.ChatOpenAI" => e \in ToSet(ChatOpenAI)
         /\ e.namespace = "AIKernel.Providers.CudaCompute" => e \in ToSet(CudaCompute)
         /\ e.namespace = "AIKernel.Providers.DynamicPipelineCompiler" => e \in ToSet(DynamicPipelineCompiler)
         /\ e.namespace = "AIKernel.Providers.LocalLlm" => e \in ToSet(LocalLlm)
BY WholeCatalogue, Parts DEF Located

\* The elements of concatenations and of the sequences of the file.
LEMMA ListedElements ==
  /\ \A s, t : Listing(s) /\ Listing(t) => ToSet(s \o t) = ToSet(s) \cup ToSet(t)
  /\ \A assembly, namespace, types : Listing(types) =>
        ToSet(InAssembly(assembly, namespace, types)) = {Entry(assembly, namespace, t) : t \in ToSet(types)}
  /\ \A a : ToSet(<< a >>) = {a}
  /\ \A a, b : ToSet(<< a, b >>) = {a, b}
  /\ \A a, b, c : ToSet(<< a, b, c >>) = {a, b, c}
  /\ \A a, b, c, d : ToSet(<< a, b, c, d >>) = {a, b, c, d}
  /\ \A a, b, c, d, e : ToSet(<< a, b, c, d, e >>) = {a, b, c, d, e}
  /\ \A a, b, c, d, e, f : ToSet(<< a, b, c, d, e, f >>) = {a, b, c, d, e, f}
  /\ \A a, b, c, d, e, f, g, h : ToSet(<< a, b, c, d, e, f, g, h >>) = {a, b, c, d, e, f, g, h}
  /\ \A kind, names : Listing(names) => ToSet(Named(kind, names)) = {Type(kind, n, << >>) : n \in ToSet(names)}
<1>1. ASSUME NEW s, NEW t, Listing(s), Listing(t) PROVE ToSet(s \o t) = ToSet(s) \cup ToSet(t)
  BY <1>1, Concatenated
<1>2. ASSUME NEW assembly, NEW namespace, NEW types, Listing(types)
      PROVE  ToSet(InAssembly(assembly, namespace, types)) = {Entry(assembly, namespace,
          t) : t \in ToSet(types)}
  <2>1. Listed(types, ToSet(types))
    BY <1>2 DEF Listing, Listed
  <2>2. Listed(InAssembly(assembly, namespace, types), {Entry(assembly, namespace, t) : t \in ToSet(types)})
    BY <2>1, ListedIn
  <2>3. QED BY <2>2 DEF Listed
<1>3. ASSUME NEW kind, NEW names, Listing(names)
      PROVE  ToSet(Named(kind, names)) = {Type(kind, n, << >>) : n \in ToSet(names)}
  BY <1>3, ListedNamed DEF Listing, Listed
<1>4. ASSUME NEW a PROVE ToSet(<< a >>) = {a}
  BY DEF ToSet
<1>5. ASSUME NEW a, NEW b PROVE ToSet(<< a, b >>) = {a, b}
  BY DEF ToSet
<1>6. ASSUME NEW a, NEW b, NEW c PROVE ToSet(<< a, b, c >>) = {a, b, c}
  BY DEF ToSet
<1>7. ASSUME NEW a, NEW b, NEW c, NEW d PROVE ToSet(<< a, b, c, d >>) = {a, b, c, d}
  BY DEF ToSet
<1>8. ASSUME NEW a, NEW b, NEW c, NEW d, NEW e PROVE ToSet(<< a, b, c, d, e >>) = {a, b, c, d, e}
  BY DEF ToSet
<1>9. ASSUME NEW a, NEW b, NEW c, NEW d, NEW e, NEW f PROVE ToSet(<< a, b, c, d, e, f >>) = {a, b, c, d, e, f}
  BY DEF ToSet
<1>10. ASSUME NEW a, NEW b, NEW c, NEW d, NEW e, NEW f, NEW g, NEW h PROVE ToSet(<< a, b, c, d, e, f, g,
      h >>) = {a, b, c, d, e, f, g, h}
  BY DEF ToSet
<1>11. QED BY <1>1, <1>2, <1>3, <1>4, <1>5, <1>6, <1>7, <1>8, <1>9, <1>10

\* type is in the catalogue, in this assembly and with these members.
Known(type, assembly, members) ==
  /\ type \in DOMAIN Catalogue
  /\ find_managed_type(type) = << Catalogue[type] >>
  /\ Catalogue[type] \in ToSet(managed_api_catalog)
  /\ Catalogue[type].assembly = assembly
  /\ Catalogue[type].members = members

\* A part without two types of one name is found by name.
LEMMA Lookup ==
  ASSUME NEW part, NEW assembly, NEW namespace, NEW types,
         ToSet(part) = {Entry(assembly, namespace, t) : t \in types},
         ToSet(part) \subseteq ToSet(managed_api_catalog),
         \A e \in ToSet(managed_api_catalog) : e.namespace = namespace => e \in ToSet(part),
         \A t, u \in types : t.name = u.name => t = u
  PROVE  \A t \in types : Known(<< namespace, t.name >>, assembly, t.members)
<1>1. TAKE t \in types
<1> DEFINE e == Entry(assembly, namespace, t)
           type == << namespace, t.name >>
<1>2. e \in ToSet(managed_api_catalog)
  OBVIOUS
<1>3. full_name(e) = type
  BY DEF full_name, Entry
<1>4. /\ type \in DOMAIN Catalogue
      /\ Catalogue[type] \in ToSet(managed_api_catalog)
      /\ full_name(Catalogue[type]) = type
      /\ find_managed_type(type) = << Catalogue[type] >>
  BY <1>2, <1>3, Found
<1>5. Catalogue[type] \in ToSet(part) /\ Catalogue[type].name = t.name
  BY <1>4 DEF full_name
<1>6. PICK u \in types : Catalogue[type] = Entry(assembly, namespace, u)
  BY <1>5
<1>7. u = t
  BY <1>5, <1>6 DEF Entry
<1>8. QED BY <1>4, <1>6, <1>7 DEF Known, Entry

\* Names of types.
LEMMA TypeNames ==
  /\ \A kind, name, members : Type(kind, name, members).name = name
  /\ \A name : PythonBridgeType(name).name = name
  /\ OpenAICompatibleCredentialType.name = "OpenAICompatibleCredential"
  /\ OpenAICompatibleProviderType.name = "OpenAICompatibleProvider"
  /\ OpenAICompatibleProviderCapabilitiesType.name = "OpenAICompatibleProviderCapabilities"
  /\ OpenAICompatibleProviderHealthContextType.name = "OpenAICompatibleProviderHealthContext"
  /\ OpenAICompatibleProviderOptionsType.name = "OpenAICompatibleProviderOptions"
  /\ OpenAICompatibleProviderOptionsValidatorType.name = "OpenAICompatibleProviderOptionsValidator"
  /\ OpenAICompatibleResponseMapperType.name = "OpenAICompatibleResponseMapper"
  /\ OpenAICompatibleResponseProjectionType.name = "OpenAICompatibleResponseProjection"
  /\ ChatHistoryRecordType.name = "ChatHistoryRecord"
  /\ ChatHistorySettingsType.name = "ChatHistorySettings"
  /\ ChatHistoryType.name = "ChatHistory"
  /\ ChatOpenAISettingsType.name = "ChatOpenAISettings"
  /\ CudaComputeSettingsType.name = "CudaComputeSettings"
  /\ DynamicPipelineCompilerSettingsType.name = "DynamicPipelineCompilerSettings"
  /\ LocalLlmSettingsType.name = "LocalLlmSettings"
BY DEF Type, PythonBridgeType, OpenAICompatibleCredentialType, OpenAICompatibleProviderType,
    OpenAICompatibleProviderCapabilitiesType, OpenAICompatibleProviderHealthContextType,
        OpenAICompatibleProviderOptionsType, OpenAICompatibleProviderOptionsValidatorType,
            OpenAICompatibleResponseMapperType, OpenAICompatibleResponseProjectionType, ChatHistoryRecordType,
                ChatHistorySettingsType, ChatHistoryType, ChatOpenAISettingsType, CudaComputeSettingsType,
                    DynamicPipelineCompilerSettingsType, LocalLlmSettingsType

\* The types of AIKernel.Providers.MicrosoftAI.
MicrosoftAI_Types ==
  {Type("interface", n, << >>) : n \in {"IOpenAICompatibleResponseMapper"}}
  \cup {OpenAICompatibleCredentialType, OpenAICompatibleProviderType,
      OpenAICompatibleProviderCapabilitiesType, OpenAICompatibleProviderHealthContextType,
      OpenAICompatibleProviderOptionsType, OpenAICompatibleProviderOptionsValidatorType,
      OpenAICompatibleResponseMapperType, OpenAICompatibleResponseProjectionType}
  \cup {Type("class", n, << >>) : n \in {"ProviderApiException",
      "ProviderCapabilityMismatchException", "ProviderExecutionException",
      "ProviderExecutionTimeoutException", "ProviderInvalidResponseException",
      "ProviderRateLimitException"}}

\* The types of MicrosoftAI are found in the catalogue, each in its assembly.
LEMMA MicrosoftAI_Lookup ==
  \A t \in MicrosoftAI_Types : Known(<< "AIKernel.Providers.MicrosoftAI", t.name >>,
      "AIKernel.Providers.MicrosoftAI", t.members)
<1>1. ToSet(MicrosoftAI) = {Entry("AIKernel.Providers.MicrosoftAI", "AIKernel.Providers.MicrosoftAI",
      t) : t \in MicrosoftAI_Types}
  BY Listings, ListedElements DEF MicrosoftAI_Types, MicrosoftAI, Interfaces, Classes
<1>2. \A t, u \in MicrosoftAI_Types : t.name = u.name => t = u
  BY TypeNames DEF MicrosoftAI_Types
<1>3. ToSet(MicrosoftAI) \subseteq ToSet(managed_api_catalog)
  BY WholeCatalogue
<1>4. \A e \in ToSet(managed_api_catalog) : e.namespace = "AIKernel.Providers.MicrosoftAI" =>
      e \in ToSet(MicrosoftAI)
  BY PartOfNamespace
<1>5. QED BY <1>1, <1>2, <1>3, <1>4, Lookup

\* The types of AIKernel.Providers.Standard.Compute.
Standard_Compute_Types ==
  {Type("class", n, << >>) : n \in {"CpuComputeProvider"}}

\* The types of Standard_Compute are found in the catalogue, each in its assembly.
LEMMA Standard_Compute_Lookup ==
  \A t \in Standard_Compute_Types : Known(<< "AIKernel.Providers.Standard.Compute", t.name >>,
      "AIKernel.Providers.Standard", t.members)
<1>1. ToSet(Standard_Compute) = {Entry("AIKernel.Providers.Standard", "AIKernel.Providers.Standard.Compute",
      t) : t \in Standard_Compute_Types}
  BY Listings, ListedElements DEF Standard_Compute_Types, Standard_Compute, Classes
<1>2. \A t, u \in Standard_Compute_Types : t.name = u.name => t = u
  BY TypeNames DEF Standard_Compute_Types
<1>3. ToSet(Standard_Compute) \subseteq ToSet(managed_api_catalog)
  BY WholeCatalogue
<1>4. \A e \in ToSet(managed_api_catalog) : e.namespace = "AIKernel.Providers.Standard.Compute" =>
      e \in ToSet(Standard_Compute)
  BY PartOfNamespace
<1>5. QED BY <1>1, <1>2, <1>3, <1>4, Lookup

\* The types of AIKernel.Providers.Standard.EventBus.
Standard_EventBus_Types ==
  {Type("class", n, << >>) : n \in {"EventBusProvider"}}

\* The types of Standard_EventBus are found in the catalogue, each in its assembly.
LEMMA Standard_EventBus_Lookup ==
  \A t \in Standard_EventBus_Types : Known(<< "AIKernel.Providers.Standard.EventBus", t.name >>,
      "AIKernel.Providers.Standard", t.members)
<1>1. ToSet(Standard_EventBus) = {Entry("AIKernel.Providers.Standard", "AIKernel.Providers.Standard.EventBus",
      t) : t \in Standard_EventBus_Types}
  BY Listings, ListedElements DEF Standard_EventBus_Types, Standard_EventBus, Classes
<1>2. \A t, u \in Standard_EventBus_Types : t.name = u.name => t = u
  BY TypeNames DEF Standard_EventBus_Types
<1>3. ToSet(Standard_EventBus) \subseteq ToSet(managed_api_catalog)
  BY WholeCatalogue
<1>4. \A e \in ToSet(managed_api_catalog) : e.namespace = "AIKernel.Providers.Standard.EventBus" =>
      e \in ToSet(Standard_EventBus)
  BY PartOfNamespace
<1>5. QED BY <1>1, <1>2, <1>3, <1>4, Lookup

\* The types of AIKernel.Providers.Standard.FileSystem.
Standard_FileSystem_Types ==
  {Type("class", n, << >>) : n \in {"FileSystemProviderBase", "MemoryFileSystemProvider",
      "PhysicalFileSystemProvider", "ZipFileSystemProvider"}}

\* The types of Standard_FileSystem are found in the catalogue, each in its assembly.
LEMMA Standard_FileSystem_Lookup ==
  \A t \in Standard_FileSystem_Types : Known(<< "AIKernel.Providers.Standard.FileSystem", t.name >>,
      "AIKernel.Providers.Standard", t.members)
<1>1. ToSet(Standard_FileSystem) = {Entry("AIKernel.Providers.Standard",
      "AIKernel.Providers.Standard.FileSystem", t) : t \in Standard_FileSystem_Types}
  BY Listings, ListedElements DEF Standard_FileSystem_Types, Standard_FileSystem, Classes
<1>2. \A t, u \in Standard_FileSystem_Types : t.name = u.name => t = u
  BY TypeNames DEF Standard_FileSystem_Types
<1>3. ToSet(Standard_FileSystem) \subseteq ToSet(managed_api_catalog)
  BY WholeCatalogue
<1>4. \A e \in ToSet(managed_api_catalog) : e.namespace = "AIKernel.Providers.Standard.FileSystem" =>
      e \in ToSet(Standard_FileSystem)
  BY PartOfNamespace
<1>5. QED BY <1>1, <1>2, <1>3, <1>4, Lookup

\* The types of AIKernel.Providers.Standard.Logging.
Standard_Logging_Types ==
  {Type("class", n, << >>) : n \in {"ConsoleLoggingProvider", "FileLoggingProvider",
      "LoggingProviderBase"}}

\* The types of Standard_Logging are found in the catalogue, each in its assembly.
LEMMA Standard_Logging_Lookup ==
  \A t \in Standard_Logging_Types : Known(<< "AIKernel.Providers.Standard.Logging", t.name >>,
      "AIKernel.Providers.Standard", t.members)
<1>1. ToSet(Standard_Logging) = {Entry("AIKernel.Providers.Standard", "AIKernel.Providers.Standard.Logging",
      t) : t \in Standard_Logging_Types}
  BY Listings, ListedElements DEF Standard_Logging_Types, Standard_Logging, Classes
<1>2. \A t, u \in Standard_Logging_Types : t.name = u.name => t = u
  BY TypeNames DEF Standard_Logging_Types
<1>3. ToSet(Standard_Logging) \subseteq ToSet(managed_api_catalog)
  BY WholeCatalogue
<1>4. \A e \in ToSet(managed_api_catalog) : e.namespace = "AIKernel.Providers.Standard.Logging" =>
      e \in ToSet(Standard_Logging)
  BY PartOfNamespace
<1>5. QED BY <1>1, <1>2, <1>3, <1>4, Lookup

\* The types of AIKernel.Providers.Standard.Network.
Standard_Network_Types ==
  {Type("class", n, << >>) : n \in {"HttpNetworkProvider"}}
  \cup {Type("record", n, << >>) : n \in {"HttpNetworkResponse"}}
  \cup {Type("class", n, << >>) : n \in {"NetworkProvider", "WebSocketNetworkProvider"}}

\* The types of Standard_Network are found in the catalogue, each in its assembly.
LEMMA Standard_Network_Lookup ==
  \A t \in Standard_Network_Types : Known(<< "AIKernel.Providers.Standard.Network", t.name >>,
      "AIKernel.Providers.Standard", t.members)
<1>1. ToSet(Standard_Network) = {Entry("AIKernel.Providers.Standard", "AIKernel.Providers.Standard.Network",
      t) : t \in Standard_Network_Types}
  BY Listings, ListedElements DEF Standard_Network_Types, Standard_Network, Classes, Records
<1>2. \A t, u \in Standard_Network_Types : t.name = u.name => t = u
  BY TypeNames DEF Standard_Network_Types
<1>3. ToSet(Standard_Network) \subseteq ToSet(managed_api_catalog)
  BY WholeCatalogue
<1>4. \A e \in ToSet(managed_api_catalog) : e.namespace = "AIKernel.Providers.Standard.Network" =>
      e \in ToSet(Standard_Network)
  BY PartOfNamespace
<1>5. QED BY <1>1, <1>2, <1>3, <1>4, Lookup

\* The types of AIKernel.Providers.Standard.Processes.
Standard_Processes_Types ==
  {Type("class", n, << >>) : n \in {"DefaultProcessSupervisorProvider"}}
  \cup {Type("record", n, << >>) : n \in {"ProcessInfo"}}
  \cup {Type("enum", n, << >>) : n \in {"ProcessState"}}
  \cup {Type("class", n, << >>) : n \in {"ProcessSupervisorProvider", "StandardManagedProcess"}}

\* The types of Standard_Processes are found in the catalogue, each in its assembly.
LEMMA Standard_Processes_Lookup ==
  \A t \in Standard_Processes_Types : Known(<< "AIKernel.Providers.Standard.Processes", t.name >>,
      "AIKernel.Providers.Standard", t.members)
<1>1. ToSet(Standard_Processes) = {Entry("AIKernel.Providers.Standard", "AIKernel.Providers.Standard.Processes",
      t) : t \in Standard_Processes_Types}
  BY Listings, ListedElements DEF Standard_Processes_Types, Standard_Processes, Classes, Records, Enums
<1>2. \A t, u \in Standard_Processes_Types : t.name = u.name => t = u
  BY TypeNames DEF Standard_Processes_Types
<1>3. ToSet(Standard_Processes) \subseteq ToSet(managed_api_catalog)
  BY WholeCatalogue
<1>4. \A e \in ToSet(managed_api_catalog) : e.namespace = "AIKernel.Providers.Standard.Processes" =>
      e \in ToSet(Standard_Processes)
  BY PartOfNamespace
<1>5. QED BY <1>1, <1>2, <1>3, <1>4, Lookup

\* The types of AIKernel.Providers.Standard.Profiler.
Standard_Profiler_Types ==
  {Type("class", n, << >>) : n \in {"ProfilerProvider"}}
  \cup {Type("record", n, << >>) : n \in {"ResourceSnapshot"}}

\* The types of Standard_Profiler are found in the catalogue, each in its assembly.
LEMMA Standard_Profiler_Lookup ==
  \A t \in Standard_Profiler_Types : Known(<< "AIKernel.Providers.Standard.Profiler", t.name >>,
      "AIKernel.Providers.Standard", t.members)
<1>1. ToSet(Standard_Profiler) = {Entry("AIKernel.Providers.Standard", "AIKernel.Providers.Standard.Profiler",
      t) : t \in Standard_Profiler_Types}
  BY Listings, ListedElements DEF Standard_Profiler_Types, Standard_Profiler, Classes, Records
<1>2. \A t, u \in Standard_Profiler_Types : t.name = u.name => t = u
  BY TypeNames DEF Standard_Profiler_Types
<1>3. ToSet(Standard_Profiler) \subseteq ToSet(managed_api_catalog)
  BY WholeCatalogue
<1>4. \A e \in ToSet(managed_api_catalog) : e.namespace = "AIKernel.Providers.Standard.Profiler" =>
      e \in ToSet(Standard_Profiler)
  BY PartOfNamespace
<1>5. QED BY <1>1, <1>2, <1>3, <1>4, Lookup

\* The types of AIKernel.Providers.Standard.Scheduler.
Standard_Scheduler_Types ==
  {Type("record", n, << >>) : n \in {"ScheduledJob"}}
  \cup {Type("class", n, << >>) : n \in {"SchedulerProvider"}}

\* The types of Standard_Scheduler are found in the catalogue, each in its assembly.
LEMMA Standard_Scheduler_Lookup ==
  \A t \in Standard_Scheduler_Types : Known(<< "AIKernel.Providers.Standard.Scheduler", t.name >>,
      "AIKernel.Providers.Standard", t.members)
<1>1. ToSet(Standard_Scheduler) = {Entry("AIKernel.Providers.Standard", "AIKernel.Providers.Standard.Scheduler",
      t) : t \in Standard_Scheduler_Types}
  BY Listings, ListedElements DEF Standard_Scheduler_Types, Standard_Scheduler, Records, Classes
<1>2. \A t, u \in Standard_Scheduler_Types : t.name = u.name => t = u
  BY TypeNames DEF Standard_Scheduler_Types
<1>3. ToSet(Standard_Scheduler) \subseteq ToSet(managed_api_catalog)
  BY WholeCatalogue
<1>4. \A e \in ToSet(managed_api_catalog) : e.namespace = "AIKernel.Providers.Standard.Scheduler" =>
      e \in ToSet(Standard_Scheduler)
  BY PartOfNamespace
<1>5. QED BY <1>1, <1>2, <1>3, <1>4, Lookup

\* The types of AIKernel.Providers.ChatHistory.
ChatHistory_Types ==
  {Type("class", n, << >>) : n \in {"ChatHistoryCapabilityContracts"}}
  \cup {Type("record", n, << >>) : n \in {"ChatHistoryCapabilityDescriptor"}}
  \cup {Type("class", n, << >>) : n \in {"ChatHistoryInvoker", "ChatHistoryProvider"}}
  \cup {PythonBridgeType("ChatHistoryPythonBridge"), ChatHistoryRecordType,
      ChatHistorySettingsType}

\* The types of ChatHistory are found in the catalogue, each in its assembly.
LEMMA ChatHistory_Lookup ==
  \A t \in ChatHistory_Types : Known(<< "AIKernel.Providers.ChatHistory", t.name >>, "ChatHistoryProvider",
      t.members)
<1>1. ToSet(ChatHistory) = {Entry("ChatHistoryProvider", "AIKernel.Providers.ChatHistory",
      t) : t \in ChatHistory_Types}
  BY Listings, ListedElements DEF ChatHistory_Types, ChatHistory, Classes, Records
<1>2. \A t, u \in ChatHistory_Types : t.name = u.name => t = u
  BY TypeNames DEF ChatHistory_Types
<1>3. ToSet(ChatHistory) \subseteq ToSet(managed_api_catalog)
  BY WholeCatalogue
<1>4. \A e \in ToSet(managed_api_catalog) : e.namespace = "AIKernel.Providers.ChatHistory" =>
      e \in ToSet(ChatHistory)
  BY PartOfNamespace
<1>5. QED BY <1>1, <1>2, <1>3, <1>4, Lookup

\* The types of AIKernel.Providers.ChatHistory.Models.
ChatHistory_Models_Types ==
  {ChatHistoryType}
  \cup {Type("record", n, << >>) : n \in {"ChatMessage"}}

\* The types of ChatHistory_Models are found in the catalogue, each in its assembly.
LEMMA ChatHistory_Models_Lookup ==
  \A t \in ChatHistory_Models_Types : Known(<< "AIKernel.Providers.ChatHistory.Models", t.name >>,
      "ChatHistoryProvider", t.members)
<1>1. ToSet(ChatHistory_Models) = {Entry("ChatHistoryProvider", "AIKernel.Providers.ChatHistory.Models",
      t) : t \in ChatHistory_Models_Types}
  BY Listings, ListedElements DEF ChatHistory_Models_Types, ChatHistory_Models, Records
<1>2. \A t, u \in ChatHistory_Models_Types : t.name = u.name => t = u
  BY TypeNames DEF ChatHistory_Models_Types
<1>3. ToSet(ChatHistory_Models) \subseteq ToSet(managed_api_catalog)
  BY WholeCatalogue
<1>4. \A e \in ToSet(managed_api_catalog) : e.namespace = "AIKernel.Providers.ChatHistory.Models" =>
      e \in ToSet(ChatHistory_Models)
  BY PartOfNamespace
<1>5. QED BY <1>1, <1>2, <1>3, <1>4, Lookup

\* The types of AIKernel.Providers.ChatOpenAI.
ChatOpenAI_Types ==
  {Type("class", n, << >>) : n \in {"ChatOpenAICapabilityContracts"}}
  \cup {Type("record", n, << >>) : n \in {"ChatOpenAICapabilityDescriptor"}}
  \cup {Type("class", n, << >>) : n \in {"ChatOpenAIClient", "ChatOpenAIInvoker",
      "ChatOpenAIProvider"}}
  \cup {PythonBridgeType("ChatOpenAIPythonBridge"), ChatOpenAISettingsType}

\* The types of ChatOpenAI are found in the catalogue, each in its assembly.
LEMMA ChatOpenAI_Lookup ==
  \A t \in ChatOpenAI_Types : Known(<< "AIKernel.Providers.ChatOpenAI", t.name >>, "ChatOpenAIProvider",
      t.members)
<1>1. ToSet(ChatOpenAI) = {Entry("ChatOpenAIProvider", "AIKernel.Providers.ChatOpenAI",
      t) : t \in ChatOpenAI_Types}
  BY Listings, ListedElements DEF ChatOpenAI_Types, ChatOpenAI, Classes, Records
<1>2. \A t, u \in ChatOpenAI_Types : t.name = u.name => t = u
  BY TypeNames DEF ChatOpenAI_Types
<1>3. ToSet(ChatOpenAI) \subseteq ToSet(managed_api_catalog)
  BY WholeCatalogue
<1>4. \A e \in ToSet(managed_api_catalog) : e.namespace = "AIKernel.Providers.ChatOpenAI" =>
      e \in ToSet(ChatOpenAI)
  BY PartOfNamespace
<1>5. QED BY <1>1, <1>2, <1>3, <1>4, Lookup

\* The types of AIKernel.Providers.CudaCompute.
CudaCompute_Types ==
  {Type("record", n, << >>) : n \in {"CudaBackendDescriptor", "CudaBackendResolutionPolicy",
      "CudaBackendResolutionResult"}}
  \cup {Type("class", n, << >>) : n \in {"CudaBackendResolver", "CudaComputeCapabilityContracts"}}
  \cup {Type("record", n, << >>) : n \in {"CudaComputeCapabilityDescriptor"}}
  \cup {Type("class", n, << >>) : n \in {"CudaComputeInvoker", "CudaComputeProvider"}}
  \cup {PythonBridgeType("CudaComputePythonBridge"), CudaComputeSettingsType}
  \cup {Type("record", n, << >>) : n \in {"NativeModuleDescriptor"}}

\* The types of CudaCompute are found in the catalogue, each in its assembly.
LEMMA CudaCompute_Lookup ==
  \A t \in CudaCompute_Types : Known(<< "AIKernel.Providers.CudaCompute", t.name >>, "CudaComputeProvider",
      t.members)
<1>1. ToSet(CudaCompute) = {Entry("CudaComputeProvider", "AIKernel.Providers.CudaCompute",
      t) : t \in CudaCompute_Types}
  BY Listings, ListedElements DEF CudaCompute_Types, CudaCompute, Records, Classes
<1>2. \A t, u \in CudaCompute_Types : t.name = u.name => t = u
  BY TypeNames DEF CudaCompute_Types
<1>3. ToSet(CudaCompute) \subseteq ToSet(managed_api_catalog)
  BY WholeCatalogue
<1>4. \A e \in ToSet(managed_api_catalog) : e.namespace = "AIKernel.Providers.CudaCompute" =>
      e \in ToSet(CudaCompute)
  BY PartOfNamespace
<1>5. QED BY <1>1, <1>2, <1>3, <1>4, Lookup

\* The types of AIKernel.Providers.DynamicPipelineCompiler.
DynamicPipelineCompiler_Types ==
  {Type("class", n, << >>) : n \in {"DynamicPipelineCompilerCapabilityContracts"}}
  \cup {Type("record", n, << >>) : n \in {"DynamicPipelineCompilerCapabilityDescriptor"}}
  \cup {Type("class", n, << >>) : n \in {"DynamicPipelineCompilerInvoker",
      "DynamicPipelineCompilerProvider"}}
  \cup {PythonBridgeType("DynamicPipelineCompilerPythonBridge"),
      DynamicPipelineCompilerSettingsType}

\* The types of DynamicPipelineCompiler are found in the catalogue, each in its assembly.
LEMMA DynamicPipelineCompiler_Lookup ==
  \A t \in DynamicPipelineCompiler_Types : Known(<< "AIKernel.Providers.DynamicPipelineCompiler", t.name >>,
      "DynamicPipelineCompilerProvider", t.members)
<1>1. ToSet(DynamicPipelineCompiler) = {Entry("DynamicPipelineCompilerProvider",
      "AIKernel.Providers.DynamicPipelineCompiler", t) : t \in DynamicPipelineCompiler_Types}
  BY Listings, ListedElements DEF DynamicPipelineCompiler_Types, DynamicPipelineCompiler, Classes, Records
<1>2. \A t, u \in DynamicPipelineCompiler_Types : t.name = u.name => t = u
  BY TypeNames DEF DynamicPipelineCompiler_Types
<1>3. ToSet(DynamicPipelineCompiler) \subseteq ToSet(managed_api_catalog)
  BY WholeCatalogue
<1>4. \A e \in ToSet(managed_api_catalog) : e.namespace = "AIKernel.Providers.DynamicPipelineCompiler" =>
      e \in ToSet(DynamicPipelineCompiler)
  BY PartOfNamespace
<1>5. QED BY <1>1, <1>2, <1>3, <1>4, Lookup

\* The types of AIKernel.Providers.LocalLlm.
LocalLlm_Types ==
  {Type("class", n, << >>) : n \in {"LocalLlmCapabilityContracts"}}
  \cup {Type("record", n, << >>) : n \in {"LocalLlmCapabilityDescriptor"}}
  \cup {Type("class", n, << >>) : n \in {"LocalLlmInvoker", "LocalLlmProvider"}}
  \cup {PythonBridgeType("LocalLlmPythonBridge"), LocalLlmSettingsType}

\* The types of LocalLlm are found in the catalogue, each in its assembly.
LEMMA LocalLlm_Lookup ==
  \A t \in LocalLlm_Types : Known(<< "AIKernel.Providers.LocalLlm", t.name >>, "LocalLlmProvider", t.members)
<1>1. ToSet(LocalLlm) = {Entry("LocalLlmProvider", "AIKernel.Providers.LocalLlm", t) : t \in LocalLlm_Types}
  BY Listings, ListedElements DEF LocalLlm_Types, LocalLlm, Classes, Records
<1>2. \A t, u \in LocalLlm_Types : t.name = u.name => t = u
  BY TypeNames DEF LocalLlm_Types
<1>3. ToSet(LocalLlm) \subseteq ToSet(managed_api_catalog)
  BY WholeCatalogue
<1>4. \A e \in ToSet(managed_api_catalog) : e.namespace = "AIKernel.Providers.LocalLlm" => e \in ToSet(LocalLlm)
  BY PartOfNamespace
<1>5. QED BY <1>1, <1>2, <1>3, <1>4, Lookup

\* The wrappers by name.
LEMMA WrapperTable ==
  /\ DOMAIN Drivers =
       {"CpuComputeProvider", "MemoryFileSystemProvider", "PhysicalFileSystemProvider",
        "ZipFileSystemProvider", "ConsoleLoggingProvider", "FileLoggingProvider",
        "NetworkProvider", "HttpNetworkProvider", "WebSocketNetworkProvider",
        "ProcessSupervisorProvider", "DefaultProcessSupervisorProvider", "EventBusProvider",
        "SchedulerProvider", "ProfilerProvider"}
  /\ DOMAIN Wrappers = DOMAIN Drivers \cup
       {"ChatOpenAIClient", "ChatOpenAIInvoker", "ChatOpenAIProvider", "ChatOpenAISettings",
        "ChatHistory", "ChatHistoryInvoker", "ChatHistoryProvider", "ChatHistoryRecord",
        "ChatHistorySettings", "CudaComputeInvoker", "CudaComputeProvider",
        "CudaComputeSettings", "DynamicPipelineCompilerInvoker",
        "DynamicPipelineCompilerProvider", "DynamicPipelineCompilerSettings",
        "LocalLlmInvoker", "LocalLlmProvider", "LocalLlmSettings", "MicrosoftAICredential",
        "MicrosoftAIHealthContext", "MicrosoftAIProvider", "MicrosoftAIProviderCapabilities",
        "MicrosoftAIProviderOptions", "MicrosoftAIProviderOptionsValidator",
        "MicrosoftAIResponseMapper", "MicrosoftAIResponseProjection"}
  /\ \A w \in DOMAIN Drivers : Wrappers[w] = Drivers[w]
  /\ Drivers["CpuComputeProvider"] = CpuComputeProvider
  /\ Drivers["MemoryFileSystemProvider"] = MemoryFileSystemProvider
  /\ Drivers["PhysicalFileSystemProvider"] = PhysicalFileSystemProvider
  /\ Drivers["ZipFileSystemProvider"] = ZipFileSystemProvider
  /\ Drivers["ConsoleLoggingProvider"] = ConsoleLoggingProvider
  /\ Drivers["FileLoggingProvider"] = FileLoggingProvider
  /\ Drivers["NetworkProvider"] = NetworkProvider
  /\ Drivers["HttpNetworkProvider"] = HttpNetworkProvider
  /\ Drivers["WebSocketNetworkProvider"] = WebSocketNetworkProvider
  /\ Drivers["ProcessSupervisorProvider"] = ProcessSupervisorProvider
  /\ Drivers["DefaultProcessSupervisorProvider"] = DefaultProcessSupervisorProvider
  /\ Drivers["EventBusProvider"] = EventBusProvider
  /\ Drivers["SchedulerProvider"] = SchedulerProvider
  /\ Drivers["ProfilerProvider"] = ProfilerProvider
  /\ Wrappers["ChatOpenAIClient"] = ChatOpenAIClient
  /\ Wrappers["ChatOpenAIInvoker"] = ChatOpenAIInvoker
  /\ Wrappers["ChatOpenAIProvider"] = ChatOpenAIProvider
  /\ Wrappers["ChatOpenAISettings"] = ChatOpenAISettings
  /\ Wrappers["ChatHistory"] = ChatHistoryMessages
  /\ Wrappers["ChatHistoryInvoker"] = ChatHistoryInvoker
  /\ Wrappers["ChatHistoryProvider"] = ChatHistoryProvider
  /\ Wrappers["ChatHistoryRecord"] = ChatHistoryRecord
  /\ Wrappers["ChatHistorySettings"] = ChatHistorySettings
  /\ Wrappers["CudaComputeInvoker"] = CudaComputeInvoker
  /\ Wrappers["CudaComputeProvider"] = CudaComputeProvider
  /\ Wrappers["CudaComputeSettings"] = CudaComputeSettings
  /\ Wrappers["DynamicPipelineCompilerInvoker"] = DynamicPipelineCompilerInvoker
  /\ Wrappers["DynamicPipelineCompilerProvider"] = DynamicPipelineCompilerProvider
  /\ Wrappers["DynamicPipelineCompilerSettings"] = DynamicPipelineCompilerSettings
  /\ Wrappers["LocalLlmInvoker"] = LocalLlmInvoker
  /\ Wrappers["LocalLlmProvider"] = LocalLlmProvider
  /\ Wrappers["LocalLlmSettings"] = LocalLlmSettings
  /\ Wrappers["MicrosoftAICredential"] = MicrosoftAICredential
  /\ Wrappers["MicrosoftAIHealthContext"] = MicrosoftAIHealthContext
  /\ Wrappers["MicrosoftAIProvider"] = MicrosoftAIProvider
  /\ Wrappers["MicrosoftAIProviderCapabilities"] = MicrosoftAIProviderCapabilities
  /\ Wrappers["MicrosoftAIProviderOptions"] = MicrosoftAIProviderOptions
  /\ Wrappers["MicrosoftAIProviderOptionsValidator"] = MicrosoftAIProviderOptionsValidator
  /\ Wrappers["MicrosoftAIResponseMapper"] = MicrosoftAIResponseMapper
  /\ Wrappers["MicrosoftAIResponseProjection"] = MicrosoftAIResponseProjection
BY ZenonT(60) DEF Drivers, Wrappers, ++

-----------------------------------------------------------------------------
(* Wrappers and the types they are for.                                    *)

\* A conversion suits a declared type: it is the one for values of that kind,
\* and it minds null where null may be.
Suits(as, declared) ==
  /\ declared \in Nullable => as \in {"str | None", "int | None"}
  /\ \/ /\ KindOf(declared) \in {"string", "Uri", "DateTimeOffset", "enum"}
        /\ as \in {"str", "str | None"}
     \/ KindOf(declared) = "int" /\ as \in {"int", "int | None"}
     \/ KindOf(declared) = "bool" /\ as = "bool"
     \/ KindOf(declared) = "list" /\ as = "tuple"
     \/ KindOf(declared) = "map" /\ as = "dict"
     \/ KindOf(declared) = "messages" /\ as = "messages"
     \/ KindOf(declared) = "object" /\ as \in {"wrapper", "managed"}

\* A value that a member of the declared type may have.
Fits(v, declared) ==
  \/ v.kind = KindOf(declared)
  \/ declared \in Nullable /\ IsNull(v)

\* An attribute reads a member there is, as what it is.
Fitting(read, members) ==
  /\ read.member \in DOMAIN members
  /\ Suits(read.as, members[read.member])
  /\ read.member = "ToMetadata" =>
       members[read.member] = "IReadOnlyDictionary<string, string>"

FitsMembers(reads, members) == \A a \in DOMAIN reads : Fitting(reads[a], members)

\* A suitable conversion shows every value the declared type may have.
LEMMA Conversion ==
  ASSUME NEW as, NEW declared, NEW v, Suits(as, declared), Fits(v, declared)
  PROVE  Shows(Convert(as, v), v)
<1> USE DEF Shows, Convert, AsStr, AsInt, AsBool, AsTuple, to_python_dict, Python, IsNull, Expected, ChatMessage
<1>1. CASE IsNull(v)
  <2>1. KindOf(declared) # "null"
    BY DEF KindOf
  <2>2. as \in {"str | None", "int | None"}
    BY <1>1, <2>1 DEF Suits, Fits
  <2>3. QED BY <1>1, <2>2
<1>2. CASE ~IsNull(v)
  <2>1. v.kind = KindOf(declared)
    BY <1>2 DEF Fits
  <2>2. QED BY <1>2, <2>1 DEF Suits
<1>3. QED BY <1>1, <1>2

\* The kinds of the declared types that occur.
LEMMA Kinds ==
  /\ KindOf("string") = "string" /\ KindOf("string?") = "string"
  /\ KindOf("Uri") = "Uri" /\ KindOf("Uri?") = "Uri"
  /\ KindOf("DateTimeOffset") = "DateTimeOffset" /\ KindOf("DateTimeOffset?") = "DateTimeOffset"
  /\ KindOf("int") = "int" /\ KindOf("int?") = "int" /\ KindOf("bool") = "bool"
  /\ KindOf("enum") = "enum"
  /\ KindOf("IReadOnlyList<string>") = "list"
  /\ KindOf("IReadOnlyList<ChatMessage>") = "messages"
  /\ KindOf("IReadOnlyDictionary<string, string>") = "map"
  /\ KindOf("ImmutableDictionary<string, string>") = "map"
  /\ KindOf("ValidateOptionsResult") = "object"
  /\ KindOf("OpenAICompatibleResponseProjection") = "object"
BY DEF KindOf

\* Conversions that suit the declared types that occur.
LEMMA Suitable ==
  /\ \A as \in {"str", "str | None"} : \A d \in {"string", "Uri", "DateTimeOffset", "enum"} : Suits(as, d)
  /\ \A d \in {"string?", "Uri?", "DateTimeOffset?"} : Suits("str | None", d)
  /\ Suits("int", "int") /\ Suits("int | None", "int?") /\ Suits("bool", "bool")
  /\ Suits("tuple", "IReadOnlyList<string>")
  /\ Suits("dict", "IReadOnlyDictionary<string, string>")
  /\ Suits("dict", "ImmutableDictionary<string, string>")
  /\ Suits("messages", "IReadOnlyList<ChatMessage>")
  /\ Suits("managed", "ValidateOptionsResult")
  /\ Suits("wrapper", "OpenAICompatibleResponseProjection")
<1> USE Kinds DEF Suits, Nullable
<1>1. ASSUME NEW as \in {"str", "str | None"}, NEW d \in {"string", "Uri", "DateTimeOffset", "enum"}
      PROVE  Suits(as, d)
  OBVIOUS
<1>2. \A d \in {"string?", "Uri?", "DateTimeOffset?"} : Suits("str | None", d)
  BY ZenonT(60)
<1>3. Suits("int", "int") /\ Suits("int | None", "int?") /\ Suits("bool", "bool")
  OBVIOUS
<1>4. /\ Suits("tuple", "IReadOnlyList<string>")
      /\ Suits("dict", "IReadOnlyDictionary<string, string>")
      /\ Suits("dict", "ImmutableDictionary<string, string>")
      /\ Suits("messages", "IReadOnlyList<ChatMessage>")
  OBVIOUS
<1>5. /\ Suits("managed", "ValidateOptionsResult")
      /\ Suits("wrapper", "OpenAICompatibleResponseProjection")
  OBVIOUS
<1>6. QED BY <1>1, <1>2, <1>3, <1>4, <1>5

\* Attributes that fit, by what is declared of the member they read.
LEMMA FittingReads ==
  ASSUME NEW members, NEW m \in DOMAIN members,
         m = "ToMetadata" => members[m] = "IReadOnlyDictionary<string, string>"
  PROVE  /\ members[m] \in {"string", "Uri", "DateTimeOffset", "enum"}
              => Fitting(Str(m), members) /\ Fitting(StrOrNone(m), members)
         /\ members[m] \in {"string?", "Uri?", "DateTimeOffset?"} => Fitting(StrOrNone(m), members)
         /\ members[m] = "int" => Fitting(Read(m, "int"), members)
         /\ members[m] = "int?" => Fitting(Read(m, "int | None"), members)
         /\ members[m] = "bool" => Fitting(Bool(m), members)
         /\ members[m] = "IReadOnlyList<string>" => Fitting(Tuple(m), members)
         /\ members[m] = "IReadOnlyDictionary<string, string>" => Fitting(Read(m, "dict"), members)
         /\ members[m] = "ImmutableDictionary<string, string>" => Fitting(Read(m, "dict"), members)
         /\ members[m] = "IReadOnlyList<ChatMessage>" => Fitting(Read(m, "messages"), members)
         /\ members[m] = "ValidateOptionsResult" => Fitting(Read(m, "managed"), members)
         /\ members[m] = "OpenAICompatibleResponseProjection" => Fitting(Read(m, "wrapper"), members)
BY Suitable DEF Fitting, Str, StrOrNone, Bool, Tuple, Read
\* The types of this family that the package names.
LEMMA ChatOpenAI_Known ==
  /\ Known(OpenAIType("ChatOpenAIInvoker"), "ChatOpenAIProvider", << >>)
  /\ Known(OpenAIType("ChatOpenAIProvider"), "ChatOpenAIProvider", << >>)
  /\ Known(OpenAIType("ChatOpenAIClient"), "ChatOpenAIProvider", << >>)
  /\ \E members : Known(OpenAIType("ChatOpenAIPythonBridge"), "ChatOpenAIProvider", members)
  /\ Known(OpenAIType("ChatOpenAISettings"), "ChatOpenAIProvider", ChatOpenAISettingsType.members)
<1>1. /\ Type("class", "ChatOpenAIInvoker", << >>) \in ChatOpenAI_Types
      /\ Type("class", "ChatOpenAIProvider", << >>) \in ChatOpenAI_Types
      /\ Type("class", "ChatOpenAIClient", << >>) \in ChatOpenAI_Types
      /\ PythonBridgeType("ChatOpenAIPythonBridge") \in ChatOpenAI_Types
      /\ ChatOpenAISettingsType \in ChatOpenAI_Types
  BY DEF ChatOpenAI_Types
<1>2. /\ Type("class", "ChatOpenAIInvoker", << >>).name = "ChatOpenAIInvoker"
      /\ Type("class", "ChatOpenAIProvider", << >>).name = "ChatOpenAIProvider"
      /\ Type("class", "ChatOpenAIClient", << >>).name = "ChatOpenAIClient"
      /\ PythonBridgeType("ChatOpenAIPythonBridge").name = "ChatOpenAIPythonBridge"
      /\ ChatOpenAISettingsType.name = "ChatOpenAISettings"
  BY TypeNames
<1>3. /\ Type("class", "ChatOpenAIInvoker", << >>).members = << >>
      /\ Type("class", "ChatOpenAIProvider", << >>).members = << >>
      /\ Type("class", "ChatOpenAIClient", << >>).members = << >>
  BY DEF Type
<1>4. QED BY <1>1, <1>2, <1>3, ChatOpenAI_Lookup DEF OpenAIType

\* The types of this family that the package names.
LEMMA ChatHistory_Known ==
  /\ Known(HistoryType("ChatHistoryInvoker"), "ChatHistoryProvider", << >>)
  /\ Known(HistoryType("ChatHistoryProvider"), "ChatHistoryProvider", << >>)
  /\ \E members : Known(HistoryType("ChatHistoryPythonBridge"), "ChatHistoryProvider", members)
  /\ Known(HistoryType("ChatHistorySettings"), "ChatHistoryProvider", ChatHistorySettingsType.members)
  /\ Known(HistoryType("ChatHistoryRecord"), "ChatHistoryProvider", ChatHistoryRecordType.members)
<1>1. /\ Type("class", "ChatHistoryInvoker", << >>) \in ChatHistory_Types
      /\ Type("class", "ChatHistoryProvider", << >>) \in ChatHistory_Types
      /\ PythonBridgeType("ChatHistoryPythonBridge") \in ChatHistory_Types
      /\ ChatHistorySettingsType \in ChatHistory_Types
      /\ ChatHistoryRecordType \in ChatHistory_Types
  BY DEF ChatHistory_Types
<1>2. /\ Type("class", "ChatHistoryInvoker", << >>).name = "ChatHistoryInvoker"
      /\ Type("class", "ChatHistoryProvider", << >>).name = "ChatHistoryProvider"
      /\ PythonBridgeType("ChatHistoryPythonBridge").name = "ChatHistoryPythonBridge"
      /\ ChatHistorySettingsType.name = "ChatHistorySettings"
      /\ ChatHistoryRecordType.name = "ChatHistoryRecord"
  BY TypeNames
<1>3. /\ Type("class", "ChatHistoryInvoker", << >>).members = << >>
      /\ Type("class", "ChatHistoryProvider", << >>).members = << >>
  BY DEF Type
<1>4. QED BY <1>1, <1>2, <1>3, ChatHistory_Lookup DEF HistoryType

\* The types of this family that the package names.
LEMMA CudaCompute_Known ==
  /\ Known(CudaType("CudaComputeInvoker"), "CudaComputeProvider", << >>)
  /\ Known(CudaType("CudaComputeProvider"), "CudaComputeProvider", << >>)
  /\ \E members : Known(CudaType("CudaComputePythonBridge"), "CudaComputeProvider", members)
  /\ Known(CudaType("CudaComputeSettings"), "CudaComputeProvider", CudaComputeSettingsType.members)
<1>1. /\ Type("class", "CudaComputeInvoker", << >>) \in CudaCompute_Types
      /\ Type("class", "CudaComputeProvider", << >>) \in CudaCompute_Types
      /\ PythonBridgeType("CudaComputePythonBridge") \in CudaCompute_Types
      /\ CudaComputeSettingsType \in CudaCompute_Types
  BY DEF CudaCompute_Types
<1>2. /\ Type("class", "CudaComputeInvoker", << >>).name = "CudaComputeInvoker"
      /\ Type("class", "CudaComputeProvider", << >>).name = "CudaComputeProvider"
      /\ PythonBridgeType("CudaComputePythonBridge").name = "CudaComputePythonBridge"
      /\ CudaComputeSettingsType.name = "CudaComputeSettings"
  BY TypeNames
<1>3. /\ Type("class", "CudaComputeInvoker", << >>).members = << >>
      /\ Type("class", "CudaComputeProvider", << >>).members = << >>
  BY DEF Type
<1>4. QED BY <1>1, <1>2, <1>3, CudaCompute_Lookup DEF CudaType

\* The types of this family that the package names.
LEMMA DynamicPipelineCompiler_Known ==
  /\ Known(PipelineType("DynamicPipelineCompilerInvoker"), "DynamicPipelineCompilerProvider", << >>)
  /\ Known(PipelineType("DynamicPipelineCompilerProvider"), "DynamicPipelineCompilerProvider", << >>)
  /\ \E members : Known(PipelineType("DynamicPipelineCompilerPythonBridge"), "DynamicPipelineCompilerProvider",
       members)
  /\ Known(PipelineType("DynamicPipelineCompilerSettings"), "DynamicPipelineCompilerProvider",
       DynamicPipelineCompilerSettingsType.members)
<1>1. /\ Type("class", "DynamicPipelineCompilerInvoker", << >>) \in DynamicPipelineCompiler_Types
      /\ Type("class", "DynamicPipelineCompilerProvider", << >>) \in DynamicPipelineCompiler_Types
      /\ PythonBridgeType("DynamicPipelineCompilerPythonBridge") \in DynamicPipelineCompiler_Types
      /\ DynamicPipelineCompilerSettingsType \in DynamicPipelineCompiler_Types
  BY DEF DynamicPipelineCompiler_Types
<1>2. /\ Type("class", "DynamicPipelineCompilerInvoker", << >>).name = "DynamicPipelineCompilerInvoker"
      /\ Type("class", "DynamicPipelineCompilerProvider", << >>).name = "DynamicPipelineCompilerProvider"
      /\ PythonBridgeType("DynamicPipelineCompilerPythonBridge").name = "DynamicPipelineCompilerPythonBridge"
      /\ DynamicPipelineCompilerSettingsType.name = "DynamicPipelineCompilerSettings"
  BY TypeNames
<1>3. /\ Type("class", "DynamicPipelineCompilerInvoker", << >>).members = << >>
      /\ Type("class", "DynamicPipelineCompilerProvider", << >>).members = << >>
  BY DEF Type
<1>4. QED BY <1>1, <1>2, <1>3, DynamicPipelineCompiler_Lookup DEF PipelineType

\* The types of this family that the package names.
LEMMA LocalLlm_Known ==
  /\ Known(LlmType("LocalLlmInvoker"), "LocalLlmProvider", << >>)
  /\ Known(LlmType("LocalLlmProvider"), "LocalLlmProvider", << >>)
  /\ \E members : Known(LlmType("LocalLlmPythonBridge"), "LocalLlmProvider", members)
  /\ Known(LlmType("LocalLlmSettings"), "LocalLlmProvider", LocalLlmSettingsType.members)
<1>1. /\ Type("class", "LocalLlmInvoker", << >>) \in LocalLlm_Types
      /\ Type("class", "LocalLlmProvider", << >>) \in LocalLlm_Types
      /\ PythonBridgeType("LocalLlmPythonBridge") \in LocalLlm_Types
      /\ LocalLlmSettingsType \in LocalLlm_Types
  BY DEF LocalLlm_Types
<1>2. /\ Type("class", "LocalLlmInvoker", << >>).name = "LocalLlmInvoker"
      /\ Type("class", "LocalLlmProvider", << >>).name = "LocalLlmProvider"
      /\ PythonBridgeType("LocalLlmPythonBridge").name = "LocalLlmPythonBridge"
      /\ LocalLlmSettingsType.name = "LocalLlmSettings"
  BY TypeNames
<1>3. /\ Type("class", "LocalLlmInvoker", << >>).members = << >>
      /\ Type("class", "LocalLlmProvider", << >>).members = << >>
  BY DEF Type
<1>4. QED BY <1>1, <1>2, <1>3, LocalLlm_Lookup DEF LlmType

\* So are the history and the types of the OpenAI compatible provider.
LEMMA MicrosoftAI_Known ==
  /\ Known(<< "AIKernel.Providers.ChatHistory.Models", "ChatHistory" >>, "ChatHistoryProvider",
       ChatHistoryType.members)
  /\ Known(MicrosoftType("OpenAICompatibleCredential"), "AIKernel.Providers.MicrosoftAI",
       OpenAICompatibleCredentialType.members)
  /\ Known(MicrosoftType("OpenAICompatibleProvider"), "AIKernel.Providers.MicrosoftAI",
       OpenAICompatibleProviderType.members)
  /\ Known(MicrosoftType("OpenAICompatibleProviderCapabilities"), "AIKernel.Providers.MicrosoftAI",
       OpenAICompatibleProviderCapabilitiesType.members)
  /\ Known(MicrosoftType("OpenAICompatibleProviderHealthContext"), "AIKernel.Providers.MicrosoftAI",
       OpenAICompatibleProviderHealthContextType.members)
  /\ Known(MicrosoftType("OpenAICompatibleProviderOptions"), "AIKernel.Providers.MicrosoftAI",
       OpenAICompatibleProviderOptionsType.members)
  /\ Known(MicrosoftType("OpenAICompatibleProviderOptionsValidator"), "AIKernel.Providers.MicrosoftAI",
       OpenAICompatibleProviderOptionsValidatorType.members)
  /\ Known(MicrosoftType("OpenAICompatibleResponseMapper"), "AIKernel.Providers.MicrosoftAI",
       OpenAICompatibleResponseMapperType.members)
  /\ Known(MicrosoftType("OpenAICompatibleResponseProjection"), "AIKernel.Providers.MicrosoftAI",
       OpenAICompatibleResponseProjectionType.members)
  /\ \A type \in microsoft_ai_exception_types : \E members : Known(type, "AIKernel.Providers.MicrosoftAI",
       members)
<1>1. Known(<< "AIKernel.Providers.ChatHistory.Models", "ChatHistory" >>, "ChatHistoryProvider",
      ChatHistoryType.members)
  BY ChatHistory_Models_Lookup, TypeNames DEF ChatHistory_Models_Types
<1>2. Known(MicrosoftType("OpenAICompatibleCredential"), "AIKernel.Providers.MicrosoftAI",
      OpenAICompatibleCredentialType.members)
  <2>1. OpenAICompatibleCredentialType \in MicrosoftAI_Types
    BY DEF MicrosoftAI_Types
  <2>2. OpenAICompatibleCredentialType.name = "OpenAICompatibleCredential"
    BY TypeNames
  <2>3. QED BY <2>1, <2>2, MicrosoftAI_Lookup DEF MicrosoftType
<1>3. Known(MicrosoftType("OpenAICompatibleProvider"), "AIKernel.Providers.MicrosoftAI",
      OpenAICompatibleProviderType.members)
  <2>1. OpenAICompatibleProviderType \in MicrosoftAI_Types
    BY DEF MicrosoftAI_Types
  <2>2. OpenAICompatibleProviderType.name = "OpenAICompatibleProvider"
    BY TypeNames
  <2>3. QED BY <2>1, <2>2, MicrosoftAI_Lookup DEF MicrosoftType
<1>4. Known(MicrosoftType("OpenAICompatibleProviderCapabilities"), "AIKernel.Providers.MicrosoftAI",
      OpenAICompatibleProviderCapabilitiesType.members)
  <2>1. OpenAICompatibleProviderCapabilitiesType \in MicrosoftAI_Types
    BY DEF MicrosoftAI_Types
  <2>2. OpenAICompatibleProviderCapabilitiesType.name = "OpenAICompatibleProviderCapabilities"
    BY TypeNames
  <2>3. QED BY <2>1, <2>2, MicrosoftAI_Lookup DEF MicrosoftType
<1>5. Known(MicrosoftType("OpenAICompatibleProviderHealthContext"), "AIKernel.Providers.MicrosoftAI",
      OpenAICompatibleProviderHealthContextType.members)
  <2>1. OpenAICompatibleProviderHealthContextType \in MicrosoftAI_Types
    BY DEF MicrosoftAI_Types
  <2>2. OpenAICompatibleProviderHealthContextType.name = "OpenAICompatibleProviderHealthContext"
    BY TypeNames
  <2>3. QED BY <2>1, <2>2, MicrosoftAI_Lookup DEF MicrosoftType
<1>6. Known(MicrosoftType("OpenAICompatibleProviderOptions"), "AIKernel.Providers.MicrosoftAI",
      OpenAICompatibleProviderOptionsType.members)
  <2>1. OpenAICompatibleProviderOptionsType \in MicrosoftAI_Types
    BY DEF MicrosoftAI_Types
  <2>2. OpenAICompatibleProviderOptionsType.name = "OpenAICompatibleProviderOptions"
    BY TypeNames
  <2>3. QED BY <2>1, <2>2, MicrosoftAI_Lookup DEF MicrosoftType
<1>7. Known(MicrosoftType("OpenAICompatibleProviderOptionsValidator"), "AIKernel.Providers.MicrosoftAI",
      OpenAICompatibleProviderOptionsValidatorType.members)
  <2>1. OpenAICompatibleProviderOptionsValidatorType \in MicrosoftAI_Types
    BY DEF MicrosoftAI_Types
  <2>2. OpenAICompatibleProviderOptionsValidatorType.name = "OpenAICompatibleProviderOptionsValidator"
    BY TypeNames
  <2>3. QED BY <2>1, <2>2, MicrosoftAI_Lookup DEF MicrosoftType
<1>8. Known(MicrosoftType("OpenAICompatibleResponseMapper"), "AIKernel.Providers.MicrosoftAI",
      OpenAICompatibleResponseMapperType.members)
  <2>1. OpenAICompatibleResponseMapperType \in MicrosoftAI_Types
    BY DEF MicrosoftAI_Types
  <2>2. OpenAICompatibleResponseMapperType.name = "OpenAICompatibleResponseMapper"
    BY TypeNames
  <2>3. QED BY <2>1, <2>2, MicrosoftAI_Lookup DEF MicrosoftType
<1>9. Known(MicrosoftType("OpenAICompatibleResponseProjection"), "AIKernel.Providers.MicrosoftAI",
      OpenAICompatibleResponseProjectionType.members)
  <2>1. OpenAICompatibleResponseProjectionType \in MicrosoftAI_Types
    BY DEF MicrosoftAI_Types
  <2>2. OpenAICompatibleResponseProjectionType.name = "OpenAICompatibleResponseProjection"
    BY TypeNames
  <2>3. QED BY <2>1, <2>2, MicrosoftAI_Lookup DEF MicrosoftType
<1>10. ASSUME NEW type \in microsoft_ai_exception_types
       PROVE  \E members : Known(type, "AIKernel.Providers.MicrosoftAI", members)
  <2>1. PICK n \in {"ProviderExecutionException", "ProviderInvalidResponseException",
                    "ProviderCapabilityMismatchException", "ProviderExecutionTimeoutException",
                    "ProviderRateLimitException", "ProviderApiException"} : type = MicrosoftType(n)
    BY DEF microsoft_ai_exception_types
  <2>2. Type("class", n, << >>) \in MicrosoftAI_Types
    BY <2>1 DEF MicrosoftAI_Types
  <2>3. Type("class", n, << >>).name = n
    BY TypeNames
  <2>4. QED BY <2>1, <2>2, <2>3, MicrosoftAI_Lookup DEF MicrosoftType
<1>11. QED BY <1>1, <1>2, <1>3, <1>4, <1>5, <1>6, <1>7, <1>8, <1>9, <1>10

\* And the standard drivers.
LEMMA Standard_Known ==
  \A w \in DOMAIN Drivers : Known(Drivers[w].type, "AIKernel.Providers.Standard", << >>)
<1>1. Known(CpuComputeProvider.type, "AIKernel.Providers.Standard", << >>)
  <2>1. Type("class", "CpuComputeProvider", << >>) \in Standard_Compute_Types
    BY DEF Standard_Compute_Types
  <2>2. /\ Type("class", "CpuComputeProvider", << >>).name = "CpuComputeProvider"
        /\ Type("class", "CpuComputeProvider", << >>).members = << >>
    BY TypeNames DEF Type
  <2>3. QED BY <2>1, <2>2, Standard_Compute_Lookup DEF CpuComputeProvider, Driver, Wrapper, FileSystems,
        Loggers, Networks, Supervisors
<1>2. Known(MemoryFileSystemProvider.type, "AIKernel.Providers.Standard", << >>)
  <2>1. Type("class", "MemoryFileSystemProvider", << >>) \in Standard_FileSystem_Types
    BY DEF Standard_FileSystem_Types
  <2>2. /\ Type("class", "MemoryFileSystemProvider", << >>).name = "MemoryFileSystemProvider"
        /\ Type("class", "MemoryFileSystemProvider", << >>).members = << >>
    BY TypeNames DEF Type
  <2>3. QED BY <2>1, <2>2, Standard_FileSystem_Lookup DEF MemoryFileSystemProvider, Driver, Wrapper,
        FileSystems, Loggers, Networks, Supervisors
<1>3. Known(PhysicalFileSystemProvider.type, "AIKernel.Providers.Standard", << >>)
  <2>1. Type("class", "PhysicalFileSystemProvider", << >>) \in Standard_FileSystem_Types
    BY DEF Standard_FileSystem_Types
  <2>2. /\ Type("class", "PhysicalFileSystemProvider", << >>).name = "PhysicalFileSystemProvider"
        /\ Type("class", "PhysicalFileSystemProvider", << >>).members = << >>
    BY TypeNames DEF Type
  <2>3. QED BY <2>1, <2>2, Standard_FileSystem_Lookup DEF PhysicalFileSystemProvider, Driver, Wrapper,
        FileSystems, Loggers, Networks, Supervisors
<1>4. Known(ZipFileSystemProvider.type, "AIKernel.Providers.Standard", << >>)
  <2>1. Type("class", "ZipFileSystemProvider", << >>) \in Standard_FileSystem_Types
    BY DEF Standard_FileSystem_Types
  <2>2. /\ Type("class", "ZipFileSystemProvider", << >>).name = "ZipFileSystemProvider"
        /\ Type("class", "ZipFileSystemProvider", << >>).members = << >>
    BY TypeNames DEF Type
  <2>3. QED BY <2>1, <2>2, Standard_FileSystem_Lookup DEF ZipFileSystemProvider, Driver, Wrapper, FileSystems,
        Loggers, Networks, Supervisors
<1>5. Known(ConsoleLoggingProvider.type, "AIKernel.Providers.Standard", << >>)
  <2>1. Type("class", "ConsoleLoggingProvider", << >>) \in Standard_Logging_Types
    BY DEF Standard_Logging_Types
  <2>2. /\ Type("class", "ConsoleLoggingProvider", << >>).name = "ConsoleLoggingProvider"
        /\ Type("class", "ConsoleLoggingProvider", << >>).members = << >>
    BY TypeNames DEF Type
  <2>3. QED BY <2>1, <2>2, Standard_Logging_Lookup DEF ConsoleLoggingProvider, Driver, Wrapper, FileSystems,
        Loggers, Networks, Supervisors
<1>6. Known(FileLoggingProvider.type, "AIKernel.Providers.Standard", << >>)
  <2>1. Type("class", "FileLoggingProvider", << >>) \in Standard_Logging_Types
    BY DEF Standard_Logging_Types
  <2>2. /\ Type("class", "FileLoggingProvider", << >>).name = "FileLoggingProvider"
        /\ Type("class", "FileLoggingProvider", << >>).members = << >>
    BY TypeNames DEF Type
  <2>3. QED BY <2>1, <2>2, Standard_Logging_Lookup DEF FileLoggingProvider, Driver, Wrapper, FileSystems,
        Loggers, Networks, Supervisors
<1>7. Known(NetworkProvider.type, "AIKernel.Providers.Standard", << >>)
  <2>1. Type("class", "NetworkProvider", << >>) \in Standard_Network_Types
    BY DEF Standard_Network_Types
  <2>2. /\ Type("class", "NetworkProvider", << >>).name = "NetworkProvider"
        /\ Type("class", "NetworkProvider", << >>).members = << >>
    BY TypeNames DEF Type
  <2>3. QED BY <2>1, <2>2, Standard_Network_Lookup DEF NetworkProvider, Driver, Wrapper, FileSystems, Loggers,
        Networks, Supervisors
<1>8. Known(HttpNetworkProvider.type, "AIKernel.Providers.Standard", << >>)
  <2>1. Type("class", "HttpNetworkProvider", << >>) \in Standard_Network_Types
    BY DEF Standard_Network_Types
  <2>2. /\ Type("class", "HttpNetworkProvider", << >>).name = "HttpNetworkProvider"
        /\ Type("class", "HttpNetworkProvider", << >>).members = << >>
    BY TypeNames DEF Type
  <2>3. QED BY <2>1, <2>2, Standard_Network_Lookup DEF HttpNetworkProvider, Driver, Wrapper, FileSystems,
        Loggers, Networks, Supervisors
<1>9. Known(WebSocketNetworkProvider.type, "AIKernel.Providers.Standard", << >>)
  <2>1. Type("class", "WebSocketNetworkProvider", << >>) \in Standard_Network_Types
    BY DEF Standard_Network_Types
  <2>2. /\ Type("class", "WebSocketNetworkProvider", << >>).name = "WebSocketNetworkProvider"
        /\ Type("class", "WebSocketNetworkProvider", << >>).members = << >>
    BY TypeNames DEF Type
  <2>3. QED BY <2>1, <2>2, Standard_Network_Lookup DEF WebSocketNetworkProvider, Driver, Wrapper, FileSystems,
        Loggers, Networks, Supervisors
<1>10. Known(ProcessSupervisorProvider.type, "AIKernel.Providers.Standard", << >>)
  <2>1. Type("class", "ProcessSupervisorProvider", << >>) \in Standard_Processes_Types
    BY DEF Standard_Processes_Types
  <2>2. /\ Type("class", "ProcessSupervisorProvider", << >>).name = "ProcessSupervisorProvider"
        /\ Type("class", "ProcessSupervisorProvider", << >>).members = << >>
    BY TypeNames DEF Type
  <2>3. QED BY <2>1, <2>2, Standard_Processes_Lookup DEF ProcessSupervisorProvider, Driver, Wrapper,
        FileSystems, Loggers, Networks, Supervisors
<1>11. Known(DefaultProcessSupervisorProvider.type, "AIKernel.Providers.Standard", << >>)
  <2>1. Type("class", "DefaultProcessSupervisorProvider", << >>) \in Standard_Processes_Types
    BY DEF Standard_Processes_Types
  <2>2. /\ Type("class", "DefaultProcessSupervisorProvider", << >>).name = "DefaultProcessSupervisorProvider"
        /\ Type("class", "DefaultProcessSupervisorProvider", << >>).members = << >>
    BY TypeNames DEF Type
  <2>3. QED BY <2>1, <2>2, Standard_Processes_Lookup DEF DefaultProcessSupervisorProvider, Driver, Wrapper,
        FileSystems, Loggers, Networks, Supervisors
<1>12. Known(EventBusProvider.type, "AIKernel.Providers.Standard", << >>)
  <2>1. Type("class", "EventBusProvider", << >>) \in Standard_EventBus_Types
    BY DEF Standard_EventBus_Types
  <2>2. /\ Type("class", "EventBusProvider", << >>).name = "EventBusProvider"
        /\ Type("class", "EventBusProvider", << >>).members = << >>
    BY TypeNames DEF Type
  <2>3. QED BY <2>1, <2>2, Standard_EventBus_Lookup DEF EventBusProvider, Driver, Wrapper, FileSystems, Loggers,
        Networks, Supervisors
<1>13. Known(SchedulerProvider.type, "AIKernel.Providers.Standard", << >>)
  <2>1. Type("class", "SchedulerProvider", << >>) \in Standard_Scheduler_Types
    BY DEF Standard_Scheduler_Types
  <2>2. /\ Type("class", "SchedulerProvider", << >>).name = "SchedulerProvider"
        /\ Type("class", "SchedulerProvider", << >>).members = << >>
    BY TypeNames DEF Type
  <2>3. QED BY <2>1, <2>2, Standard_Scheduler_Lookup DEF SchedulerProvider, Driver, Wrapper, FileSystems,
        Loggers, Networks, Supervisors
<1>14. Known(ProfilerProvider.type, "AIKernel.Providers.Standard", << >>)
  <2>1. Type("class", "ProfilerProvider", << >>) \in Standard_Profiler_Types
    BY DEF Standard_Profiler_Types
  <2>2. /\ Type("class", "ProfilerProvider", << >>).name = "ProfilerProvider"
        /\ Type("class", "ProfilerProvider", << >>).members = << >>
    BY TypeNames DEF Type
  <2>3. QED BY <2>1, <2>2, Standard_Profiler_Lookup DEF ProfilerProvider, Driver, Wrapper, FileSystems, Loggers,
        Networks, Supervisors
<1>15. QED BY <1>1, <1>2, <1>3, <1>4, <1>5, <1>6, <1>7, <1>8, <1>9, <1>10, <1>11, <1>12, <1>13, <1>14,
      WrapperTable

\* Attributes that fit some members fit these and more.
LEMMA FitsMore ==
  ASSUME NEW reads, NEW members, NEW more, FitsMembers(reads, members)
  PROVE  FitsMembers(reads, members ++ more)
<1>1. ASSUME NEW a \in DOMAIN reads PROVE Fitting(reads[a], members ++ more)
  <2>1. Fitting(reads[a], members)
    BY DEF FitsMembers
  <2>2. reads[a].member \in DOMAIN (members ++ more)
    BY <2>1 DEF Fitting, ++
  <2>3. (members ++ more)[reads[a].member] = members[reads[a].member]
    BY <2>1 DEF Fitting, ++
  <2>4. QED BY <2>1, <2>2, <2>3 DEF Fitting
<1>2. QED BY <1>1 DEF FitsMembers

\* Two sets of attributes.
LEMMA FitsBoth ==
  ASSUME NEW reads, NEW more, NEW members, FitsMembers(reads, members), FitsMembers(more, members)
  PROVE  FitsMembers(reads ++ more, members)
BY DEF FitsMembers, ++

\* Members of a type of the catalogue.
LEMMA MembersOf ==
  ASSUME NEW type, NEW assembly, NEW members, Known(type, assembly, members),
         type # CapabilityContract.type
  PROVE  Members(type) =
           members ++ IF type \in ProviderTypes THEN ProviderMembers
                      ELSE IF type = MicrosoftAIProviderCapabilities.type THEN CapabilitiesMembers
                      ELSE << >>
BY DEF Members, Known

\* Every type that is no Uri has values, and they fit it.
LEMMA PlainFits ==
  ASSUME NEW kind
  PROVE  /\ \A v \in PlainValues(kind) : v.kind = kind
         /\ kind # "Uri" => PlainValues(kind) # {}
<1>1. \A v \in PlainValues(kind) : v.kind = kind
  BY DEF PlainValues, Text, Managed, List, Map
<1>2. kind # "Uri" => PlainValues(kind) # {}
  BY WrapperAssumption DEF PlainValues
<1>3. QED BY <1>1, <1>2

\* The values a member may hold fit, and so does the one that is chosen.
LEMMA ValuesFit ==
  ASSUME NEW declared
  PROVE  /\ \A v \in MemberValues(declared) : Fits(v, declared)
         /\ declared # "Uri" => Fits(CHOOSE v \in MemberValues(declared) : TRUE, declared)
<1>1. \A v \in MemberValues(declared) : Fits(v, declared)
  BY PlainFits DEF MemberValues, Fits, Null, IsNull
<1>2. ASSUME declared # "Uri" PROVE MemberValues(declared) # {}
  <2>1. CASE KindOf(declared) = "Uri"
    <3>1. declared = "Uri?"
      BY <1>2, <2>1 DEF KindOf
    <3>2. QED BY <3>1 DEF MemberValues, Nullable
  <2>2. CASE KindOf(declared) # "Uri"
    BY <2>2, PlainFits DEF MemberValues
  <2>3. QED BY <2>1, <2>2
<1>3. QED BY <1>1, <1>2

\* The attributes of a wrapper of this type have members with values that
\* fit in a new object; ToMetadata is not kept.
NewFits(reads, type) ==
  \A a \in DOMAIN reads :
    reads[a].member # "ToMetadata" =>
      Fits(NewMembers(type)[reads[a].member], Members(type)[reads[a].member])

\* The default of a member, in a new object of a family.
LEMMA NewDomain ==
  ASSUME NEW type
  PROVE  DOMAIN NewMembers(type) = DOMAIN Members(type)
BY DEF NewMembers

\* A new object of no family.
LEMMA NewPlain ==
  ASSUME NEW reads, NEW type, FitsMembers(reads, Members(type)), FamiliesOf(type) = {},
         \A a \in DOMAIN reads : Members(type)[reads[a].member] # "Uri"
  PROVE  NewFits(reads, type)
<1>1. SUFFICES ASSUME NEW a \in DOMAIN reads
               PROVE  Fits(NewMembers(type)[reads[a].member], Members(type)[reads[a].member])
  BY DEF NewFits
<1> DEFINE m == reads[a].member
<1>2. m \in DOMAIN Members(type) /\ Members(type)[m] # "Uri"
  BY DEF FitsMembers, Fitting
<1>3. NewMembers(type)[m] = CHOOSE v \in MemberValues(Members(type)[m]) : TRUE
  BY <1>2 DEF NewMembers
<1>4. QED BY <1>2, <1>3, ValuesFit

\* A new object of a family: the defaults of its settings have to fit.
LEMMA NewMember ==
  ASSUME NEW type, NEW f, FamiliesOf(type) = {f}, NEW m \in DOMAIN Members(type)
  PROVE  NewMembers(type)[m] =
           IF m \in DOMAIN Defaults(f) THEN Defaults(f)[m]
           ELSE CHOOSE v \in MemberValues(Members(type)[m]) : TRUE
BY DEF NewMembers

\* New settings of a family fit when the defaults do.
LEMMA NewOfFamily ==
  ASSUME NEW reads, NEW type, NEW f, FitsMembers(reads, Members(type)), FamiliesOf(type) = {f},
         \A a \in DOMAIN reads :
           /\ reads[a].member \in DOMAIN Defaults(f) =>
                Fits(Defaults(f)[reads[a].member], Members(type)[reads[a].member])
           /\ Members(type)[reads[a].member] = "Uri" => reads[a].member \in DOMAIN Defaults(f)
  PROVE  NewFits(reads, type)
<1>1. SUFFICES ASSUME NEW a \in DOMAIN reads
               PROVE  Fits(NewMembers(type)[reads[a].member], Members(type)[reads[a].member])
  BY DEF NewFits
<1> DEFINE m == reads[a].member
<1>2. m \in DOMAIN Members(type)
  BY DEF FitsMembers, Fitting
<1>3. CASE m \in DOMAIN Defaults(f)
  BY <1>2, <1>3, NewMember
<1>4. CASE m \notin DOMAIN Defaults(f)
  BY <1>2, <1>4, NewMember, ValuesFit
<1>5. QED BY <1>3, <1>4
\* The types of the settings, the providers and the invokers, and the bridges.
LEMMA FamilyTypes ==
  /\ Settings["ChatOpenAI"] = << "AIKernel.Providers.ChatOpenAI", "ChatOpenAISettings" >>
  /\ Bridge("ChatOpenAI").type = << "AIKernel.Providers.ChatOpenAI", "ChatOpenAIPythonBridge" >>
  /\ Bridge("ChatOpenAI").CreateProvider = << "AIKernel.Providers.ChatOpenAI", "ChatOpenAIProvider" >>
  /\ Bridge("ChatOpenAI").CreateInvoker = << "AIKernel.Providers.ChatOpenAI", "ChatOpenAIInvoker" >>
  /\ OpenAIType("ChatOpenAIPythonBridge") = << "AIKernel.Providers.ChatOpenAI", "ChatOpenAIPythonBridge" >>
  /\ Settings["ChatHistory"] = << "AIKernel.Providers.ChatHistory", "ChatHistorySettings" >>
  /\ Bridge("ChatHistory").type = << "AIKernel.Providers.ChatHistory", "ChatHistoryPythonBridge" >>
  /\ Bridge("ChatHistory").CreateProvider = << "AIKernel.Providers.ChatHistory", "ChatHistoryProvider" >>
  /\ Bridge("ChatHistory").CreateInvoker = << "AIKernel.Providers.ChatHistory", "ChatHistoryInvoker" >>
  /\ HistoryType("ChatHistoryPythonBridge") = << "AIKernel.Providers.ChatHistory", "ChatHistoryPythonBridge" >>
  /\ Settings["CudaCompute"] = << "AIKernel.Providers.CudaCompute", "CudaComputeSettings" >>
  /\ Bridge("CudaCompute").type = << "AIKernel.Providers.CudaCompute", "CudaComputePythonBridge" >>
  /\ Bridge("CudaCompute").CreateProvider = << "AIKernel.Providers.CudaCompute", "CudaComputeProvider" >>
  /\ Bridge("CudaCompute").CreateInvoker = << "AIKernel.Providers.CudaCompute", "CudaComputeInvoker" >>
  /\ CudaType("CudaComputePythonBridge") = << "AIKernel.Providers.CudaCompute", "CudaComputePythonBridge" >>
  /\ Settings["DynamicPipelineCompiler"] = << "AIKernel.Providers.DynamicPipelineCompiler",
       "DynamicPipelineCompilerSettings" >>
  /\ Bridge("DynamicPipelineCompiler").type = << "AIKernel.Providers.DynamicPipelineCompiler",
       "DynamicPipelineCompilerPythonBridge" >>
  /\ Bridge("DynamicPipelineCompiler").CreateProvider = << "AIKernel.Providers.DynamicPipelineCompiler",
       "DynamicPipelineCompilerProvider" >>
  /\ Bridge("DynamicPipelineCompiler").CreateInvoker = << "AIKernel.Providers.DynamicPipelineCompiler",
       "DynamicPipelineCompilerInvoker" >>
  /\ PipelineType("DynamicPipelineCompilerPythonBridge") = << "AIKernel.Providers.DynamicPipelineCompiler",
       "DynamicPipelineCompilerPythonBridge" >>
  /\ Settings["LocalLlm"] = << "AIKernel.Providers.LocalLlm", "LocalLlmSettings" >>
  /\ Bridge("LocalLlm").type = << "AIKernel.Providers.LocalLlm", "LocalLlmPythonBridge" >>
  /\ Bridge("LocalLlm").CreateProvider = << "AIKernel.Providers.LocalLlm", "LocalLlmProvider" >>
  /\ Bridge("LocalLlm").CreateInvoker = << "AIKernel.Providers.LocalLlm", "LocalLlmInvoker" >>
  /\ LlmType("LocalLlmPythonBridge") = << "AIKernel.Providers.LocalLlm", "LocalLlmPythonBridge" >>
<1>1a. Settings["ChatOpenAI"] = << "AIKernel.Providers.ChatOpenAI", "ChatOpenAISettings" >>
  BY DEF Settings, ChatOpenAISettings, Wrapper, OpenAIType
<1>1b. Bridge("ChatOpenAI") = ChatOpenAIPythonBridge
  BY ZenonT(30) DEF Bridge
<1>1c. /\ ChatOpenAIPythonBridge.type = << "AIKernel.Providers.ChatOpenAI", "ChatOpenAIPythonBridge" >>
      /\ ChatOpenAIPythonBridge.CreateProvider = << "AIKernel.Providers.ChatOpenAI", "ChatOpenAIProvider" >>
      /\ ChatOpenAIPythonBridge.CreateInvoker = << "AIKernel.Providers.ChatOpenAI", "ChatOpenAIInvoker" >>
  BY DEF ChatOpenAIPythonBridge, PythonBridge
<1>1d. OpenAIType("ChatOpenAIPythonBridge") = << "AIKernel.Providers.ChatOpenAI", "ChatOpenAIPythonBridge" >>
  BY DEF OpenAIType
<1>2a. Settings["ChatHistory"] = << "AIKernel.Providers.ChatHistory", "ChatHistorySettings" >>
  BY DEF Settings, ChatHistorySettings, Wrapper, HistoryType
<1>2b. Bridge("ChatHistory") = ChatHistoryPythonBridge
  BY ZenonT(30) DEF Bridge
<1>2c. /\ ChatHistoryPythonBridge.type = << "AIKernel.Providers.ChatHistory", "ChatHistoryPythonBridge" >>
      /\ ChatHistoryPythonBridge.CreateProvider = << "AIKernel.Providers.ChatHistory", "ChatHistoryProvider" >>
      /\ ChatHistoryPythonBridge.CreateInvoker = << "AIKernel.Providers.ChatHistory", "ChatHistoryInvoker" >>
  BY DEF ChatHistoryPythonBridge, PythonBridge
<1>2d. HistoryType("ChatHistoryPythonBridge") = << "AIKernel.Providers.ChatHistory",
      "ChatHistoryPythonBridge" >>
  BY DEF HistoryType
<1>3a. Settings["CudaCompute"] = << "AIKernel.Providers.CudaCompute", "CudaComputeSettings" >>
  BY DEF Settings, CudaComputeSettings, Wrapper, CudaType
<1>3b. Bridge("CudaCompute") = CudaComputePythonBridge
  BY ZenonT(30) DEF Bridge
<1>3c. /\ CudaComputePythonBridge.type = << "AIKernel.Providers.CudaCompute", "CudaComputePythonBridge" >>
      /\ CudaComputePythonBridge.CreateProvider = << "AIKernel.Providers.CudaCompute", "CudaComputeProvider" >>
      /\ CudaComputePythonBridge.CreateInvoker = << "AIKernel.Providers.CudaCompute", "CudaComputeInvoker" >>
  BY DEF CudaComputePythonBridge, PythonBridge
<1>3d. CudaType("CudaComputePythonBridge") = << "AIKernel.Providers.CudaCompute", "CudaComputePythonBridge" >>
  BY DEF CudaType
<1>4a. Settings["DynamicPipelineCompiler"] = << "AIKernel.Providers.DynamicPipelineCompiler",
      "DynamicPipelineCompilerSettings" >>
  BY DEF Settings, DynamicPipelineCompilerSettings, Wrapper, PipelineType
<1>4b. Bridge("DynamicPipelineCompiler") = DynamicPipelineCompilerPythonBridge
  BY ZenonT(30) DEF Bridge
<1>4c. /\ DynamicPipelineCompilerPythonBridge.type = << "AIKernel.Providers.DynamicPipelineCompiler",
            "DynamicPipelineCompilerPythonBridge" >>
      /\ DynamicPipelineCompilerPythonBridge.CreateProvider = << "AIKernel.Providers.DynamicPipelineCompiler",
           "DynamicPipelineCompilerProvider" >>
      /\ DynamicPipelineCompilerPythonBridge.CreateInvoker = << "AIKernel.Providers.DynamicPipelineCompiler",
           "DynamicPipelineCompilerInvoker" >>
  BY DEF DynamicPipelineCompilerPythonBridge, PythonBridge
<1>4d. PipelineType("DynamicPipelineCompilerPythonBridge") = << "AIKernel.Providers.DynamicPipelineCompiler",
      "DynamicPipelineCompilerPythonBridge" >>
  BY DEF PipelineType
<1>5a. Settings["LocalLlm"] = << "AIKernel.Providers.LocalLlm", "LocalLlmSettings" >>
  BY DEF Settings, LocalLlmSettings, Wrapper, LlmType
<1>5b. Bridge("LocalLlm") = LocalLlmPythonBridge
  BY ZenonT(30) DEF Bridge
<1>5c. /\ LocalLlmPythonBridge.type = << "AIKernel.Providers.LocalLlm", "LocalLlmPythonBridge" >>
      /\ LocalLlmPythonBridge.CreateProvider = << "AIKernel.Providers.LocalLlm", "LocalLlmProvider" >>
      /\ LocalLlmPythonBridge.CreateInvoker = << "AIKernel.Providers.LocalLlm", "LocalLlmInvoker" >>
  BY DEF LocalLlmPythonBridge, PythonBridge
<1>5d. LlmType("LocalLlmPythonBridge") = << "AIKernel.Providers.LocalLlm", "LocalLlmPythonBridge" >>
  BY DEF LlmType
<1>6. QED BY <1>1a, <1>1b, <1>1c, <1>1d, <1>2a, <1>2b, <1>2c, <1>2d, <1>3a, <1>3b, <1>3c, <1>3d, <1>4a, <1>4b,
      <1>4c, <1>4d, <1>5a, <1>5b, <1>5c, <1>5d

\* The families of a type.
LEMMA FamilyOfType ==
  ASSUME NEW type
  PROVE  /\ \A f \in Families : type \in {Settings[f], Bridge(f).CreateProvider} => FamiliesOf(type) = {f}
         /\ (\A f \in Families : type # Settings[f] /\ type # Bridge(f).CreateProvider) => FamiliesOf(type) = {}
<1>1. ASSUME NEW f \in Families, NEW g \in Families,
             type \in {Settings[f], Bridge(f).CreateProvider}, type \in {Settings[g], Bridge(g).CreateProvider}
      PROVE  f = g
  BY <1>1, FamilyTypes DEF Families
<1>2. QED BY <1>1 DEF FamiliesOf

\* The types that the wrappers name, and how the objects are made.
LEMMA ChatOpenAIClient_Type ==
  /\ ChatOpenAIClient.type = << "AIKernel.Providers.ChatOpenAI", "ChatOpenAIClient" >>
  /\ ChatOpenAIClient.assembly = "ChatOpenAIProvider"
  /\ ChatOpenAIClient.make = Given
BY DEF ChatOpenAIClient, Wrapper, OpenAIType

\* The type that ChatOpenAIInvoker names, its assembly, and how it is made.
LEMMA ChatOpenAIInvoker_Type ==
  /\ ChatOpenAIInvoker.type = << "AIKernel.Providers.ChatOpenAI", "ChatOpenAIInvoker" >>
  /\ ChatOpenAIInvoker.assembly = "ChatOpenAIProvider"
  /\ ChatOpenAIInvoker.make = CallStatic(OpenAIType("ChatOpenAIPythonBridge"), "CreateInvoker", 0)
BY DEF ChatOpenAIInvoker, Wrapper, OpenAIType

\* The type that ChatOpenAIProvider names, its assembly, and how it is made.
LEMMA ChatOpenAIProvider_Type ==
  /\ ChatOpenAIProvider.type = << "AIKernel.Providers.ChatOpenAI", "ChatOpenAIProvider" >>
  /\ ChatOpenAIProvider.assembly = "ChatOpenAIProvider"
  /\ ChatOpenAIProvider.make = CallStatic(OpenAIType("ChatOpenAIPythonBridge"), "CreateProvider", 0)
BY DEF ChatOpenAIProvider, Wrapper, OpenAIType

\* The type that ChatOpenAISettings names, its assembly, and how it is made.
LEMMA ChatOpenAISettings_Type ==
  /\ ChatOpenAISettings.type = << "AIKernel.Providers.ChatOpenAI", "ChatOpenAISettings" >>
  /\ ChatOpenAISettings.assembly = "ChatOpenAIProvider"
  /\ ChatOpenAISettings.make = Activate(0)
BY DEF ChatOpenAISettings, Wrapper, OpenAIType

\* The type that ChatHistoryMessages names, its assembly, and how it is made.
LEMMA ChatHistoryMessages_Type ==
  /\ ChatHistoryMessages.type = << "AIKernel.Providers.ChatHistory.Models", "ChatHistory" >>
  /\ ChatHistoryMessages.assembly = "ChatHistoryProvider"
  /\ ChatHistoryMessages.make = Given
BY DEF ChatHistoryMessages, Wrapper

\* The type that ChatHistoryInvoker names, its assembly, and how it is made.
LEMMA ChatHistoryInvoker_Type ==
  /\ ChatHistoryInvoker.type = << "AIKernel.Providers.ChatHistory", "ChatHistoryInvoker" >>
  /\ ChatHistoryInvoker.assembly = "ChatHistoryProvider"
  /\ ChatHistoryInvoker.make = CallStatic(HistoryType("ChatHistoryPythonBridge"), "CreateInvoker", 0)
BY DEF ChatHistoryInvoker, Wrapper, HistoryType

\* The type that ChatHistoryProvider names, its assembly, and how it is made.
LEMMA ChatHistoryProvider_Type ==
  /\ ChatHistoryProvider.type = << "AIKernel.Providers.ChatHistory", "ChatHistoryProvider" >>
  /\ ChatHistoryProvider.assembly = "ChatHistoryProvider"
  /\ ChatHistoryProvider.make = CallStatic(HistoryType("ChatHistoryPythonBridge"), "CreateProvider", 0)
BY DEF ChatHistoryProvider, Wrapper, HistoryType

\* The type that ChatHistoryRecord names, its assembly, and how it is made.
LEMMA ChatHistoryRecord_Type ==
  /\ ChatHistoryRecord.type = << "AIKernel.Providers.ChatHistory", "ChatHistoryRecord" >>
  /\ ChatHistoryRecord.assembly = "ChatHistoryProvider"
  /\ ChatHistoryRecord.make = Given
BY DEF ChatHistoryRecord, Wrapper, HistoryType

\* The type that ChatHistorySettings names, its assembly, and how it is made.
LEMMA ChatHistorySettings_Type ==
  /\ ChatHistorySettings.type = << "AIKernel.Providers.ChatHistory", "ChatHistorySettings" >>
  /\ ChatHistorySettings.assembly = "ChatHistoryProvider"
  /\ ChatHistorySettings.make = Activate(0)
BY DEF ChatHistorySettings, Wrapper, HistoryType

\* The type that CudaComputeInvoker names, its assembly, and how it is made.
LEMMA CudaComputeInvoker_Type ==
  /\ CudaComputeInvoker.type = << "AIKernel.Providers.CudaCompute", "CudaComputeInvoker" >>
  /\ CudaComputeInvoker.assembly = "CudaComputeProvider"
  /\ CudaComputeInvoker.make = CallStatic(CudaType("CudaComputePythonBridge"), "CreateInvoker", 0)
BY DEF CudaComputeInvoker, Wrapper, CudaType

\* The type that CudaComputeProvider names, its assembly, and how it is made.
LEMMA CudaComputeProvider_Type ==
  /\ CudaComputeProvider.type = << "AIKernel.Providers.CudaCompute", "CudaComputeProvider" >>
  /\ CudaComputeProvider.assembly = "CudaComputeProvider"
  /\ CudaComputeProvider.make = CallStatic(CudaType("CudaComputePythonBridge"), "CreateProvider", 0)
BY DEF CudaComputeProvider, Wrapper, CudaType

\* The type that CudaComputeSettings names, its assembly, and how it is made.
LEMMA CudaComputeSettings_Type ==
  /\ CudaComputeSettings.type = << "AIKernel.Providers.CudaCompute", "CudaComputeSettings" >>
  /\ CudaComputeSettings.assembly = "CudaComputeProvider"
  /\ CudaComputeSettings.make = Activate(0)
BY DEF CudaComputeSettings, Wrapper, CudaType

\* The type that DynamicPipelineCompilerInvoker names, its assembly, and how it is made.
LEMMA DynamicPipelineCompilerInvoker_Type ==
  /\ DynamicPipelineCompilerInvoker.type = << "AIKernel.Providers.DynamicPipelineCompiler", "DynamicPipelineCompilerInvoker" >>
  /\ DynamicPipelineCompilerInvoker.assembly = "DynamicPipelineCompilerProvider"
  /\ DynamicPipelineCompilerInvoker.make = CallStatic(PipelineType("DynamicPipelineCompilerPythonBridge"),
       "CreateInvoker", 0)
BY DEF DynamicPipelineCompilerInvoker, Wrapper, PipelineType

\* The type that DynamicPipelineCompilerProvider names, its assembly, and how it is made.
LEMMA DynamicPipelineCompilerProvider_Type ==
  /\ DynamicPipelineCompilerProvider.type = << "AIKernel.Providers.DynamicPipelineCompiler", "DynamicPipelineCompilerProvider" >>
  /\ DynamicPipelineCompilerProvider.assembly = "DynamicPipelineCompilerProvider"
  /\ DynamicPipelineCompilerProvider.make = CallStatic(PipelineType("DynamicPipelineCompilerPythonBridge"),
       "CreateProvider", 0)
BY DEF DynamicPipelineCompilerProvider, Wrapper, PipelineType

\* The type that DynamicPipelineCompilerSettings names, its assembly, and how it is made.
LEMMA DynamicPipelineCompilerSettings_Type ==
  /\ DynamicPipelineCompilerSettings.type = << "AIKernel.Providers.DynamicPipelineCompiler", "DynamicPipelineCompilerSettings" >>
  /\ DynamicPipelineCompilerSettings.assembly = "DynamicPipelineCompilerProvider"
  /\ DynamicPipelineCompilerSettings.make = Activate(0)
BY DEF DynamicPipelineCompilerSettings, Wrapper, PipelineType

\* The type that LocalLlmInvoker names, its assembly, and how it is made.
LEMMA LocalLlmInvoker_Type ==
  /\ LocalLlmInvoker.type = << "AIKernel.Providers.LocalLlm", "LocalLlmInvoker" >>
  /\ LocalLlmInvoker.assembly = "LocalLlmProvider"
  /\ LocalLlmInvoker.make = CallStatic(LlmType("LocalLlmPythonBridge"), "CreateInvoker", 0)
BY DEF LocalLlmInvoker, Wrapper, LlmType

\* The type that LocalLlmProvider names, its assembly, and how it is made.
LEMMA LocalLlmProvider_Type ==
  /\ LocalLlmProvider.type = << "AIKernel.Providers.LocalLlm", "LocalLlmProvider" >>
  /\ LocalLlmProvider.assembly = "LocalLlmProvider"
  /\ LocalLlmProvider.make = CallStatic(LlmType("LocalLlmPythonBridge"), "CreateProvider", 0)
BY DEF LocalLlmProvider, Wrapper, LlmType

\* The type that LocalLlmSettings names, its assembly, and how it is made.
LEMMA LocalLlmSettings_Type ==
  /\ LocalLlmSettings.type = << "AIKernel.Providers.LocalLlm", "LocalLlmSettings" >>
  /\ LocalLlmSettings.assembly = "LocalLlmProvider"
  /\ LocalLlmSettings.make = Activate(0)
BY DEF LocalLlmSettings, Wrapper, LlmType

\* The type that MicrosoftAICredential names, its assembly, and how it is made.
LEMMA MicrosoftAICredential_Type ==
  /\ MicrosoftAICredential.type = << "AIKernel.Providers.MicrosoftAI", "OpenAICompatibleCredential" >>
  /\ MicrosoftAICredential.assembly = "AIKernel.Providers.MicrosoftAI"
  /\ MicrosoftAICredential.make = CallStatic(MicrosoftType("OpenAICompatibleCredential"), "Create", 4)
BY DEF MicrosoftAICredential, MicrosoftWrapper, Wrapper, MicrosoftType

\* The type that MicrosoftAIHealthContext names, its assembly, and how it is made.
LEMMA MicrosoftAIHealthContext_Type ==
  /\ MicrosoftAIHealthContext.type = << "AIKernel.Providers.MicrosoftAI", "OpenAICompatibleProviderHealthContext" >>
  /\ MicrosoftAIHealthContext.assembly = "AIKernel.Providers.MicrosoftAI"
  /\ MicrosoftAIHealthContext.make = Given
BY DEF MicrosoftAIHealthContext, MicrosoftWrapper, Wrapper, MicrosoftType

\* The type that MicrosoftAIProvider names, its assembly, and how it is made.
LEMMA MicrosoftAIProvider_Type ==
  /\ MicrosoftAIProvider.type = << "AIKernel.Providers.MicrosoftAI", "OpenAICompatibleProvider" >>
  /\ MicrosoftAIProvider.assembly = "AIKernel.Providers.MicrosoftAI"
  /\ MicrosoftAIProvider.make = Given
BY DEF MicrosoftAIProvider, MicrosoftWrapper, Wrapper, MicrosoftType

\* The type that MicrosoftAIProviderCapabilities names, its assembly, and how it is made.
LEMMA MicrosoftAIProviderCapabilities_Type ==
  /\ MicrosoftAIProviderCapabilities.type = << "AIKernel.Providers.MicrosoftAI", "OpenAICompatibleProviderCapabilities" >>
  /\ MicrosoftAIProviderCapabilities.assembly = "AIKernel.Providers.MicrosoftAI"
  /\ MicrosoftAIProviderCapabilities.make = Activate(0)
BY DEF MicrosoftAIProviderCapabilities, MicrosoftWrapper, Wrapper, MicrosoftType

\* The type that MicrosoftAIProviderOptions names, its assembly, and how it is made.
LEMMA MicrosoftAIProviderOptions_Type ==
  /\ MicrosoftAIProviderOptions.type = << "AIKernel.Providers.MicrosoftAI", "OpenAICompatibleProviderOptions" >>
  /\ MicrosoftAIProviderOptions.assembly = "AIKernel.Providers.MicrosoftAI"
  /\ MicrosoftAIProviderOptions.make = Activate(0)
BY DEF MicrosoftAIProviderOptions, MicrosoftWrapper, Wrapper, MicrosoftType

\* The type that MicrosoftAIProviderOptionsValidator names, its assembly, and how it is made.
LEMMA MicrosoftAIProviderOptionsValidator_Type ==
  /\ MicrosoftAIProviderOptionsValidator.type = << "AIKernel.Providers.MicrosoftAI", "OpenAICompatibleProviderOptionsValidator" >>
  /\ MicrosoftAIProviderOptionsValidator.assembly = "AIKernel.Providers.MicrosoftAI"
  /\ MicrosoftAIProviderOptionsValidator.make = Activate(0)
BY DEF MicrosoftAIProviderOptionsValidator, MicrosoftWrapper, Wrapper, MicrosoftType

\* The type that MicrosoftAIResponseMapper names, its assembly, and how it is made.
LEMMA MicrosoftAIResponseMapper_Type ==
  /\ MicrosoftAIResponseMapper.type = << "AIKernel.Providers.MicrosoftAI", "OpenAICompatibleResponseMapper" >>
  /\ MicrosoftAIResponseMapper.assembly = "AIKernel.Providers.MicrosoftAI"
  /\ MicrosoftAIResponseMapper.make = Activate(0)
BY DEF MicrosoftAIResponseMapper, MicrosoftWrapper, Wrapper, MicrosoftType

\* The type that MicrosoftAIResponseProjection names, its assembly, and how it is made.
LEMMA MicrosoftAIResponseProjection_Type ==
  /\ MicrosoftAIResponseProjection.type = << "AIKernel.Providers.MicrosoftAI", "OpenAICompatibleResponseProjection" >>
  /\ MicrosoftAIResponseProjection.assembly = "AIKernel.Providers.MicrosoftAI"
  /\ MicrosoftAIResponseProjection.make = Given
BY DEF MicrosoftAIResponseProjection, MicrosoftWrapper, Wrapper, MicrosoftType

\* The drivers: where they are declared, and how they are made.
DriverNamespaces ==
  {"AIKernel.Providers.Standard.Compute", FileSystems, Loggers, Networks, Supervisors,
   "AIKernel.Providers.Standard.EventBus", "AIKernel.Providers.Standard.Scheduler",
   "AIKernel.Providers.Standard.Profiler"}

IsDriver(x) ==
  /\ x.type[1] \in DriverNamespaces /\ x.assembly = "AIKernel.Providers.Standard" /\ x.reads = << >>
  /\ x.make = Activate(ConstructorArity(x.type))

\* The wrappers of the standard drivers, one by one.
LEMMA DriverTypes == \A w \in DOMAIN Drivers : IsDriver(Drivers[w])
<1> USE DEF IsDriver, Driver, Wrapper, ConstructorArity, DriverNamespaces, FileSystems, Loggers,
            Networks, Supervisors
<1>1. IsDriver(CpuComputeProvider)
  BY DEF CpuComputeProvider
<1>2. IsDriver(MemoryFileSystemProvider)
  BY DEF MemoryFileSystemProvider
<1>3. IsDriver(PhysicalFileSystemProvider)
  BY DEF PhysicalFileSystemProvider
<1>4. IsDriver(ZipFileSystemProvider)
  BY DEF ZipFileSystemProvider
<1>5. IsDriver(ConsoleLoggingProvider)
  BY DEF ConsoleLoggingProvider
<1>6. IsDriver(FileLoggingProvider)
  BY DEF FileLoggingProvider
<1>7. IsDriver(NetworkProvider)
  BY DEF NetworkProvider
<1>8. IsDriver(HttpNetworkProvider)
  BY DEF HttpNetworkProvider
<1>9. IsDriver(WebSocketNetworkProvider)
  BY DEF WebSocketNetworkProvider
<1>10. IsDriver(ProcessSupervisorProvider)
  BY DEF ProcessSupervisorProvider
<1>11. IsDriver(DefaultProcessSupervisorProvider)
  BY DEF DefaultProcessSupervisorProvider
<1>12. IsDriver(EventBusProvider)
  BY DEF EventBusProvider
<1>13. IsDriver(SchedulerProvider)
  BY DEF SchedulerProvider
<1>14. IsDriver(ProfilerProvider)
  BY DEF ProfilerProvider
<1> HIDE DEF IsDriver, Driver, Wrapper, ConstructorArity, DriverNamespaces, FileSystems, Loggers,
            Networks, Supervisors
<1>15. QED BY <1>1, <1>2, <1>3, <1>4, <1>5, <1>6, <1>7, <1>8, <1>9, <1>10, <1>11, <1>12, <1>13, <1>14,
      WrapperTable

\* A static method makes an object of this type; only a credential is made by
\* one that may refuse.
MadeByMethod(x) ==
  /\ Resolves(x.make.type, x.assembly)
  /\ \E m \in StaticMethods : m.type = x.make.type /\ m.method = x.make.method
  /\ \A m \in StaticMethods :
       m.type = x.make.type /\ m.method = x.make.method
         => m.arity = x.make.arguments /\ m.result = x.type

\* A wrapper and the type it is for agree.
Sound(w) ==
  LET x == Wrappers[w] IN
  /\ x.type # CapabilityContract.type
  /\ \E members : Known(x.type, x.assembly, members)
  /\ x.assembly \in LoadedAssemblies
  /\ FitsMembers(x.reads, Members(x.type))
  /\ NewFits(x.reads, x.type)
  /\ x.make.way = "activate" => ConstructorArity(x.type) = x.make.arguments
  /\ x.make.way = "static" => MadeByMethod(x)
  /\ x.make.method = "Create" => w = "MicrosoftAICredential"

\* Settings and other types, of which the catalogue lists all members.
LEMMA ContractTypeIsOther ==
  /\ \A f \in Families :
       CapabilityContract.type \notin {Settings[f], Bridge(f).CreateProvider, Bridge(f).CreateInvoker}
  /\ CapabilityContract.type = << "AIKernel.Dtos.Capabilities", "CapabilityModuleDescriptor" >>
<1>1. CapabilityContract.type = << "AIKernel.Dtos.Capabilities", "CapabilityModuleDescriptor" >>
  BY DEF CapabilityContract, Wrapper
<1>2. QED BY <1>1, FamilyTypes DEF Families

\* The methods of the bridges and of the credential, one by one.
LEMMA Methods ==
  /\ \A f \in Families :
       /\ [type |-> Bridge(f).type, method |-> "CreateProvider", arity |-> 0,
           result |-> Bridge(f).CreateProvider] \in StaticMethods
       /\ [type |-> Bridge(f).type, method |-> "CreateInvoker", arity |-> 0,
           result |-> Bridge(f).CreateInvoker] \in StaticMethods
  /\ [type |-> MicrosoftType("OpenAICompatibleCredential"), method |-> "Create", arity |-> 4,
      result |-> MicrosoftType("OpenAICompatibleCredential")] \in StaticMethods
  /\ \A m \in StaticMethods :
       \/ \E f \in Families : /\ m.type = Bridge(f).type /\ m.arity = 0
                              /\ \/ m.method = "CreateProvider" /\ m.result = Bridge(f).CreateProvider
                                 \/ m.method = "CreateInvoker" /\ m.result = Bridge(f).CreateInvoker
       \/ /\ m.type = MicrosoftType("OpenAICompatibleCredential") /\ m.method = "Create"
          /\ m.arity = 4 /\ m.result = MicrosoftType("OpenAICompatibleCredential")
BY DEF StaticMethods

\* The method that a bridge is called for.
LEMMA MethodsOfBridges ==
  ASSUME NEW f \in Families
  PROVE  /\ \A m \in StaticMethods : m.type = Bridge(f).type /\ m.method = "CreateProvider"
              => m.arity = 0 /\ m.result = Bridge(f).CreateProvider
         /\ \A m \in StaticMethods : m.type = Bridge(f).type /\ m.method = "CreateInvoker"
              => m.arity = 0 /\ m.result = Bridge(f).CreateInvoker
<1>1. \A g \in Families : Bridge(g).type = Bridge(f).type => g = f
  BY FamilyTypes DEF Families
<1>2. QED BY <1>1, Methods

\* The method that a credential is made with.
LEMMA MethodsOfCredential ==
  \A m \in StaticMethods :
    m.type = MicrosoftType("OpenAICompatibleCredential") /\ m.method = "Create"
       => m.arity = 4 /\ m.result = MicrosoftType("OpenAICompatibleCredential")
BY Methods

\* No member is a URI that must be there.
NoUri(members) == \A m \in DOMAIN members : members[m] # "Uri"

\* Values that fit.
LEMMA TextsFit ==
  /\ \A t : Fits(Text(t), "string") /\ Fits(Text(t), "string?")
  /\ \A t : Fits(Managed("Uri", t), "Uri")
  /\ \A d \in Nullable : Fits(Null, d)
BY Kinds DEF Fits, Text, Managed, Null, IsNull

\* The defaults of settings fit what is declared.
DefaultsFit(f, members) ==
  \A m \in DOMAIN Defaults(f) : m \in DOMAIN members /\ Fits(Defaults(f)[m], members[m])

\* ChatOpenAI: what is declared, and the defaults.
LEMMA ChatOpenAISettingsType_Declared ==
  /\ DOMAIN ChatOpenAISettingsType.members = {"ProviderId", "Name", "Version", "Endpoint", "Model",
       "EmbeddingModel", "ApiKey", "Timeout", "ToMetadata"}
  /\ ChatOpenAISettingsType.members["ProviderId"] = "string"
  /\ ChatOpenAISettingsType.members["Name"] = "string"
  /\ ChatOpenAISettingsType.members["Version"] = "string"
  /\ ChatOpenAISettingsType.members["Endpoint"] = "Uri"
  /\ ChatOpenAISettingsType.members["Model"] = "string"
  /\ ChatOpenAISettingsType.members["EmbeddingModel"] = "string?"
  /\ ChatOpenAISettingsType.members["ApiKey"] = "string?"
  /\ ChatOpenAISettingsType.members["Timeout"] = "TimeSpan"
  /\ ChatOpenAISettingsType.members["ToMetadata"] = "IReadOnlyDictionary<string, string>"
BY DEF ChatOpenAISettingsType, Type

\* ChatOpenAI: the default settings.
LEMMA ChatOpenAI_DefaultSettings ==
  /\ Defaults("ChatOpenAI") = ChatOpenAIDefaults
  /\ DOMAIN ChatOpenAIDefaults = {"ProviderId", "Name", "Version", "Endpoint", "Model", "EmbeddingModel",
       "ApiKey"}
  /\ ChatOpenAIDefaults.ProviderId = Text("providers.openai")
  /\ ChatOpenAIDefaults.Name = Text("Chat OpenAI Provider")
  /\ ChatOpenAIDefaults.Version = Text("0.1.1")
  /\ ChatOpenAIDefaults.Endpoint = Managed("Uri", "https://api.openai.com/v1")
  /\ ChatOpenAIDefaults.Model = Text("gpt-4.1-mini")
  /\ ChatOpenAIDefaults.EmbeddingModel = Null
  /\ ChatOpenAIDefaults.ApiKey = Null
<1>1. Defaults("ChatOpenAI") = ChatOpenAIDefaults
  BY ZenonT(30) DEF Defaults
<1>2. QED BY <1>1 DEF ChatOpenAIDefaults

\* The defaults fit ChatOpenAISettingsType.
LEMMA ChatOpenAISettingsType_Defaults == DefaultsFit("ChatOpenAI", ChatOpenAISettingsType.members)
<1>1. /\ Fits(ChatOpenAIDefaults.ProviderId, "string")
      /\ Fits(ChatOpenAIDefaults.Name, "string")
      /\ Fits(ChatOpenAIDefaults.Version, "string")
      /\ Fits(ChatOpenAIDefaults.Endpoint, "Uri")
      /\ Fits(ChatOpenAIDefaults.Model, "string")
      /\ Fits(ChatOpenAIDefaults.EmbeddingModel, "string?")
      /\ Fits(ChatOpenAIDefaults.ApiKey, "string?")
  BY ChatOpenAI_DefaultSettings, TextsFit DEF Nullable
<1>2. ASSUME NEW m \in DOMAIN ChatOpenAIDefaults
      PROVE  m \in DOMAIN ChatOpenAISettingsType.members /\ Fits(ChatOpenAIDefaults[m],
          ChatOpenAISettingsType.members[m])
  BY <1>1, ChatOpenAI_DefaultSettings, ChatOpenAISettingsType_Declared
<1>3. QED BY <1>2, ChatOpenAI_DefaultSettings DEF DefaultsFit

\* ChatHistory: what is declared, and the defaults.
LEMMA ChatHistorySettingsType_Declared ==
  /\ DOMAIN ChatHistorySettingsType.members = {"ProviderId", "Name", "Version", "SourceUri", "ArtifactHash",
       "ToMetadata"}
  /\ ChatHistorySettingsType.members["ProviderId"] = "string"
  /\ ChatHistorySettingsType.members["Name"] = "string"
  /\ ChatHistorySettingsType.members["Version"] = "string"
  /\ ChatHistorySettingsType.members["SourceUri"] = "string?"
  /\ ChatHistorySettingsType.members["ArtifactHash"] = "string?"
  /\ ChatHistorySettingsType.members["ToMetadata"] = "IReadOnlyDictionary<string, string>"
BY DEF ChatHistorySettingsType, Type

\* ChatHistory: the default settings.
LEMMA ChatHistory_DefaultSettings ==
  /\ Defaults("ChatHistory") = ChatHistoryDefaults
  /\ DOMAIN ChatHistoryDefaults = {"ProviderId", "Name", "Version", "SourceUri", "ArtifactHash"}
  /\ ChatHistoryDefaults.ProviderId = Text("chat-history")
  /\ ChatHistoryDefaults.Name = Text("Chat History Provider")
  /\ ChatHistoryDefaults.Version = Text("0.1.1")
  /\ ChatHistoryDefaults.SourceUri = Text("rom://providers/chat-history/history.json")
  /\ ChatHistoryDefaults.ArtifactHash = Null
<1>1. Defaults("ChatHistory") = ChatHistoryDefaults
  BY ZenonT(30) DEF Defaults
<1>2. QED BY <1>1 DEF ChatHistoryDefaults

\* The defaults fit ChatHistorySettingsType.
LEMMA ChatHistorySettingsType_Defaults == DefaultsFit("ChatHistory", ChatHistorySettingsType.members)
<1>1. /\ Fits(ChatHistoryDefaults.ProviderId, "string")
      /\ Fits(ChatHistoryDefaults.Name, "string")
      /\ Fits(ChatHistoryDefaults.Version, "string")
      /\ Fits(ChatHistoryDefaults.SourceUri, "string?")
      /\ Fits(ChatHistoryDefaults.ArtifactHash, "string?")
  BY ChatHistory_DefaultSettings, TextsFit DEF Nullable
<1>2. ASSUME NEW m \in DOMAIN ChatHistoryDefaults
      PROVE  m \in DOMAIN ChatHistorySettingsType.members /\ Fits(ChatHistoryDefaults[m],
          ChatHistorySettingsType.members[m])
  BY <1>1, ChatHistory_DefaultSettings, ChatHistorySettingsType_Declared
<1>3. QED BY <1>2, ChatHistory_DefaultSettings DEF DefaultsFit

\* CudaCompute: what is declared, and the defaults.
LEMMA CudaComputeSettingsType_Declared ==
  /\ DOMAIN CudaComputeSettingsType.members = {"ProviderId", "Name", "Version", "DeviceProfile", "BackendName",
       "BackendVersion", "PackageId", "ModuleId", "AbiVersion", "MaxDeviceMemoryBytes",
           "SupportedComputeCapabilities", "NativeModuleRef", "EntryPoint", "LoaderJson", "ArtifactHash",
               "ToMetadata"}
  /\ CudaComputeSettingsType.members["ProviderId"] = "string"
  /\ CudaComputeSettingsType.members["Name"] = "string"
  /\ CudaComputeSettingsType.members["Version"] = "string"
  /\ CudaComputeSettingsType.members["DeviceProfile"] = "string"
  /\ CudaComputeSettingsType.members["BackendName"] = "string"
  /\ CudaComputeSettingsType.members["BackendVersion"] = "string?"
  /\ CudaComputeSettingsType.members["PackageId"] = "string?"
  /\ CudaComputeSettingsType.members["ModuleId"] = "string"
  /\ CudaComputeSettingsType.members["AbiVersion"] = "string?"
  /\ CudaComputeSettingsType.members["MaxDeviceMemoryBytes"] = "long?"
  /\ CudaComputeSettingsType.members["SupportedComputeCapabilities"] = "IReadOnlyList<string>"
  /\ CudaComputeSettingsType.members["NativeModuleRef"] = "string"
  /\ CudaComputeSettingsType.members["EntryPoint"] = "string"
  /\ CudaComputeSettingsType.members["LoaderJson"] = "string?"
  /\ CudaComputeSettingsType.members["ArtifactHash"] = "string?"
  /\ CudaComputeSettingsType.members["ToMetadata"] = "IReadOnlyDictionary<string, string>"
BY DEF CudaComputeSettingsType, Type

\* CudaCompute: the default settings.
LEMMA CudaCompute_DefaultSettings ==
  /\ Defaults("CudaCompute") = CudaComputeDefaults
  /\ DOMAIN CudaComputeDefaults = {"ProviderId", "Name", "Version", "DeviceProfile", "BackendName",
       "BackendVersion", "PackageId", "ModuleId", "AbiVersion", "MaxDeviceMemoryBytes", "NativeModuleRef",
           "EntryPoint", "LoaderJson", "ArtifactHash"}
  /\ CudaComputeDefaults.ProviderId = Text("providers.cuda")
  /\ CudaComputeDefaults.Name = Text("CUDA Compute Provider")
  /\ CudaComputeDefaults.Version = Text("0.1.1")
  /\ CudaComputeDefaults.DeviceProfile = Text("cuda13")
  /\ CudaComputeDefaults.BackendName = Text("cuda13.0")
  /\ CudaComputeDefaults.BackendVersion = Text("13.0")
  /\ CudaComputeDefaults.PackageId = Text("aikernel-cuda13")
  /\ CudaComputeDefaults.ModuleId = Text("libtorch_bridge")
  /\ CudaComputeDefaults.AbiVersion = Text("1.0")
  /\ CudaComputeDefaults.MaxDeviceMemoryBytes = Null
  /\ CudaComputeDefaults.NativeModuleRef = Text("aikernel-cuda://cuda13.0/modules/libtorch_bridge")
  /\ CudaComputeDefaults.EntryPoint = Text("libtorch_bridge")
  /\ CudaComputeDefaults.LoaderJson = Text("rom://providers/cuda/loader.json")
  /\ CudaComputeDefaults.ArtifactHash = Null
<1>1. Defaults("CudaCompute") = CudaComputeDefaults
  BY ZenonT(30) DEF Defaults
<1>2. QED BY <1>1 DEF CudaComputeDefaults

\* The defaults fit CudaComputeSettingsType.
LEMMA CudaComputeSettingsType_Defaults == DefaultsFit("CudaCompute", CudaComputeSettingsType.members)
<1>1. /\ Fits(CudaComputeDefaults.ProviderId, "string")
      /\ Fits(CudaComputeDefaults.Name, "string")
      /\ Fits(CudaComputeDefaults.Version, "string")
      /\ Fits(CudaComputeDefaults.DeviceProfile, "string")
      /\ Fits(CudaComputeDefaults.BackendName, "string")
      /\ Fits(CudaComputeDefaults.BackendVersion, "string?")
      /\ Fits(CudaComputeDefaults.PackageId, "string?")
      /\ Fits(CudaComputeDefaults.ModuleId, "string")
      /\ Fits(CudaComputeDefaults.AbiVersion, "string?")
      /\ Fits(CudaComputeDefaults.MaxDeviceMemoryBytes, "long?")
      /\ Fits(CudaComputeDefaults.NativeModuleRef, "string")
      /\ Fits(CudaComputeDefaults.EntryPoint, "string")
      /\ Fits(CudaComputeDefaults.LoaderJson, "string?")
      /\ Fits(CudaComputeDefaults.ArtifactHash, "string?")
  BY CudaCompute_DefaultSettings, TextsFit DEF Nullable
<1>2. ASSUME NEW m \in DOMAIN CudaComputeDefaults
      PROVE  m \in DOMAIN CudaComputeSettingsType.members /\ Fits(CudaComputeDefaults[m],
          CudaComputeSettingsType.members[m])
  <2>1. DOMAIN CudaComputeDefaults =
          {"ProviderId", "Name", "Version", "DeviceProfile", "BackendName", "BackendVersion", "PackageId",
           "ModuleId", "AbiVersion", "MaxDeviceMemoryBytes", "NativeModuleRef", "EntryPoint", "LoaderJson",
           "ArtifactHash"}
    BY CudaCompute_DefaultSettings
  <2>2. QED BY <1>1, <2>1, CudaComputeSettingsType_Declared, ZenonT(60)
<1>3. QED BY <1>2, CudaCompute_DefaultSettings DEF DefaultsFit

\* DynamicPipelineCompiler: what is declared, and the defaults.
LEMMA DynamicPipelineCompilerSettingsType_Declared ==
  /\ DOMAIN DynamicPipelineCompilerSettingsType.members = {"ProviderId", "Name", "Version", "DslSchemaVersion",
       "DslSchemaUri", "ToMetadata"}
  /\ DynamicPipelineCompilerSettingsType.members["ProviderId"] = "string"
  /\ DynamicPipelineCompilerSettingsType.members["Name"] = "string"
  /\ DynamicPipelineCompilerSettingsType.members["Version"] = "string"
  /\ DynamicPipelineCompilerSettingsType.members["DslSchemaVersion"] = "string"
  /\ DynamicPipelineCompilerSettingsType.members["DslSchemaUri"] = "string?"
  /\ DynamicPipelineCompilerSettingsType.members["ToMetadata"] = "IReadOnlyDictionary<string, string>"
BY DEF DynamicPipelineCompilerSettingsType, Type

\* DynamicPipelineCompiler: the default settings.
LEMMA DynamicPipelineCompiler_DefaultSettings ==
  /\ Defaults("DynamicPipelineCompiler") = DynamicPipelineCompilerDefaults
  /\ DOMAIN DynamicPipelineCompilerDefaults = {"ProviderId", "Name", "Version", "DslSchemaVersion",
       "DslSchemaUri"}
  /\ DynamicPipelineCompilerDefaults.ProviderId = Text("providers.dynamic-pipeline")
  /\ DynamicPipelineCompilerDefaults.Name = Text("Dynamic Pipeline Compiler Provider")
  /\ DynamicPipelineCompilerDefaults.Version = Text("0.1.1")
  /\ DynamicPipelineCompilerDefaults.DslSchemaVersion = Text("0.1")
  /\ DynamicPipelineCompilerDefaults.DslSchemaUri = Text("rom://providers/dynamic-pipeline/schema.json")
<1>1. Defaults("DynamicPipelineCompiler") = DynamicPipelineCompilerDefaults
  BY ZenonT(30) DEF Defaults
<1>2. QED BY <1>1 DEF DynamicPipelineCompilerDefaults

\* The defaults fit DynamicPipelineCompilerSettingsType.
LEMMA DynamicPipelineCompilerSettingsType_Defaults == DefaultsFit("DynamicPipelineCompiler",
    DynamicPipelineCompilerSettingsType.members)
<1>1. /\ Fits(DynamicPipelineCompilerDefaults.ProviderId, "string")
      /\ Fits(DynamicPipelineCompilerDefaults.Name, "string")
      /\ Fits(DynamicPipelineCompilerDefaults.Version, "string")
      /\ Fits(DynamicPipelineCompilerDefaults.DslSchemaVersion, "string")
      /\ Fits(DynamicPipelineCompilerDefaults.DslSchemaUri, "string?")
  BY DynamicPipelineCompiler_DefaultSettings, TextsFit DEF Nullable
<1>2. ASSUME NEW m \in DOMAIN DynamicPipelineCompilerDefaults
      PROVE  m \in DOMAIN DynamicPipelineCompilerSettingsType.members /\ Fits(DynamicPipelineCompilerDefaults[m], DynamicPipelineCompilerSettingsType.members[m])
  BY <1>1, DynamicPipelineCompiler_DefaultSettings, DynamicPipelineCompilerSettingsType_Declared
<1>3. QED BY <1>2, DynamicPipelineCompiler_DefaultSettings DEF DefaultsFit

\* LocalLlm: what is declared, and the defaults.
LEMMA LocalLlmSettingsType_Declared ==
  /\ DOMAIN LocalLlmSettingsType.members = {"ProviderId", "Name", "Version", "Runtime", "RuntimeUri",
       "ArtifactHash", "ToMetadata"}
  /\ LocalLlmSettingsType.members["ProviderId"] = "string"
  /\ LocalLlmSettingsType.members["Name"] = "string"
  /\ LocalLlmSettingsType.members["Version"] = "string"
  /\ LocalLlmSettingsType.members["Runtime"] = "string"
  /\ LocalLlmSettingsType.members["RuntimeUri"] = "string?"
  /\ LocalLlmSettingsType.members["ArtifactHash"] = "string?"
  /\ LocalLlmSettingsType.members["ToMetadata"] = "IReadOnlyDictionary<string, string>"
BY DEF LocalLlmSettingsType, Type

\* LocalLlm: the default settings.
LEMMA LocalLlm_DefaultSettings ==
  /\ Defaults("LocalLlm") = LocalLlmDefaults
  /\ DOMAIN LocalLlmDefaults = {"ProviderId", "Name", "Version", "Runtime", "RuntimeUri", "ArtifactHash"}
  /\ LocalLlmDefaults.ProviderId = Text("providers.local-llm")
  /\ LocalLlmDefaults.Name = Text("Local LLM Provider")
  /\ LocalLlmDefaults.Version = Text("0.1.1")
  /\ LocalLlmDefaults.Runtime = Text("ollama")
  /\ LocalLlmDefaults.RuntimeUri = Text("ollama://localhost")
  /\ LocalLlmDefaults.ArtifactHash = Null
<1>1. Defaults("LocalLlm") = LocalLlmDefaults
  BY ZenonT(30) DEF Defaults
<1>2. QED BY <1>1 DEF LocalLlmDefaults

\* The defaults fit LocalLlmSettingsType.
LEMMA LocalLlmSettingsType_Defaults == DefaultsFit("LocalLlm", LocalLlmSettingsType.members)
<1>1. /\ Fits(LocalLlmDefaults.ProviderId, "string")
      /\ Fits(LocalLlmDefaults.Name, "string")
      /\ Fits(LocalLlmDefaults.Version, "string")
      /\ Fits(LocalLlmDefaults.Runtime, "string")
      /\ Fits(LocalLlmDefaults.RuntimeUri, "string?")
      /\ Fits(LocalLlmDefaults.ArtifactHash, "string?")
  BY LocalLlm_DefaultSettings, TextsFit DEF Nullable
<1>2. ASSUME NEW m \in DOMAIN LocalLlmDefaults
      PROVE  m \in DOMAIN LocalLlmSettingsType.members /\ Fits(LocalLlmDefaults[m],
          LocalLlmSettingsType.members[m])
  BY <1>1, LocalLlm_DefaultSettings, LocalLlmSettingsType_Declared
<1>3. QED BY <1>2, LocalLlm_DefaultSettings DEF DefaultsFit

\* Identity and metadata of a provider.
LEMMA IdentityFits ==
  ASSUME NEW members, "ProviderId" \in DOMAIN members, "Name" \in DOMAIN members,
         "Version" \in DOMAIN members, members["ProviderId"] = "string",
         members["Name"] = "string", members["Version"] = "string"
  PROVE  FitsMembers(Identity, members)
<1>1. /\ Fitting(Str("ProviderId"), members)
      /\ Fitting(Str("Name"), members)
      /\ Fitting(Str("Version"), members)
  BY FittingReads
<1>2. QED BY <1>1 DEF FitsMembers, Identity

\* The one attribute of the metadata reads.
LEMMA MetadataReads == \A a \in DOMAIN Metadata : Metadata[a] = Read("ToMetadata", "dict")
<1>1. DOMAIN Metadata = {"to_metadata"}
  BY DEF Metadata
<1>2. Metadata["to_metadata"] = Read("ToMetadata", "dict")
  BY DEF Metadata
<1>3. QED BY <1>1, <1>2

\* A type that declares ToMetadata as a dictionary fits the metadata reads.
LEMMA MetadataFits ==
  ASSUME NEW members, "ToMetadata" \in DOMAIN members,
         members["ToMetadata"] = "IReadOnlyDictionary<string, string>"
  PROVE  FitsMembers(Metadata, members)
<1>1. Fitting(Read("ToMetadata", "dict"), members)
  BY FittingReads
<1>2. QED BY <1>1, MetadataReads DEF FitsMembers

\* ChatOpenAISettings: every attribute fits.
LEMMA ChatOpenAISettings_Fits == FitsMembers(ChatOpenAISettings.reads, ChatOpenAISettingsType.members)
<1> DEFINE M == ChatOpenAISettingsType.members
<1>1. FitsMembers(Identity, M)
  BY ChatOpenAISettingsType_Declared, IdentityFits
<1>2. FitsMembers(Metadata, M)
  BY ChatOpenAISettingsType_Declared, MetadataFits
<1>3. /\ Fitting(Str("Endpoint"), M)
      /\ Fitting(Str("Model"), M)
      /\ Fitting(StrOrNone("EmbeddingModel"), M)
      /\ Fitting(StrOrNone("ApiKey"), M)
  <2> HIDE DEF M
  <2>1. QED BY ChatOpenAISettingsType_Declared, FittingReads DEF M
<1>4. FitsMembers([endpoint |-> Str("Endpoint"), model |-> Str("Model"),
      embedding_model |-> StrOrNone("EmbeddingModel"), api_key |-> StrOrNone("ApiKey")], M)
  <2> HIDE DEF M
  <2>1. QED BY <1>3 DEF FitsMembers
<1>5. QED
  <2> HIDE DEF M
  <2>1. FitsMembers(Identity ++ Metadata, M)
    BY <1>1, <1>2, FitsBoth
  <2>2. FitsMembers((Identity ++ Metadata) ++ [endpoint |-> Str("Endpoint"), model |-> Str("Model"),
        embedding_model |-> StrOrNone("EmbeddingModel"), api_key |-> StrOrNone("ApiKey")], M)
    BY <2>1, <1>4, FitsBoth
  <2>3. QED BY <2>2 DEF M, ChatOpenAISettings, Wrapper

\* ChatHistoryType: what is declared.
LEMMA ChatHistoryType_Declared ==
  /\ DOMAIN ChatHistoryType.members = {"Messages"}
  /\ ChatHistoryType.members["Messages"] = "IReadOnlyList<ChatMessage>"
BY DEF ChatHistoryType, Type

\* ChatHistoryMessages: every attribute fits.
LEMMA ChatHistoryMessages_Fits == FitsMembers(ChatHistoryMessages.reads, ChatHistoryType.members)
<1> DEFINE M == ChatHistoryType.members
<1>1. /\ Fitting(Read("Messages", "messages"), M)
  <2> HIDE DEF M
  <2>1. QED BY ChatHistoryType_Declared, FittingReads DEF M
<1>2. FitsMembers([messages |-> Read("Messages", "messages")], M)
  <2> HIDE DEF M
  <2>1. QED BY <1>1 DEF FitsMembers
<1>3. QED
  <2> HIDE DEF M
  <2>1. QED BY <1>2 DEF M, ChatHistoryMessages, Wrapper

\* ChatHistoryRecordType: what is declared.
LEMMA ChatHistoryRecordType_Declared ==
  /\ DOMAIN ChatHistoryRecordType.members = {"Role", "Content", "Timestamp"}
  /\ ChatHistoryRecordType.members["Role"] = "string"
  /\ ChatHistoryRecordType.members["Content"] = "string"
  /\ ChatHistoryRecordType.members["Timestamp"] = "DateTimeOffset"
BY DEF ChatHistoryRecordType, Type

\* ChatHistoryRecord: every attribute fits.
LEMMA ChatHistoryRecord_Fits == FitsMembers(ChatHistoryRecord.reads, ChatHistoryRecordType.members)
<1> DEFINE M == ChatHistoryRecordType.members
<1>1. /\ Fitting(Str("Role"), M)
      /\ Fitting(Str("Content"), M)
      /\ Fitting(Str("Timestamp"), M)
  <2> HIDE DEF M
  <2>1. QED BY ChatHistoryRecordType_Declared, FittingReads DEF M
<1>2. FitsMembers([role |-> Str("Role"), content |-> Str("Content"), timestamp |-> Str("Timestamp")], M)
  <2> HIDE DEF M
  <2>1. QED BY <1>1 DEF FitsMembers
<1>3. QED
  <2> HIDE DEF M
  <2>1. QED BY <1>2 DEF M, ChatHistoryRecord, Wrapper

\* ChatHistorySettings: every attribute fits.
LEMMA ChatHistorySettings_Fits == FitsMembers(ChatHistorySettings.reads, ChatHistorySettingsType.members)
<1> DEFINE M == ChatHistorySettingsType.members
<1>1. FitsMembers(Identity, M)
  BY ChatHistorySettingsType_Declared, IdentityFits
<1>2. FitsMembers(Metadata, M)
  BY ChatHistorySettingsType_Declared, MetadataFits
<1>3. /\ Fitting(StrOrNone("SourceUri"), M)
      /\ Fitting(StrOrNone("ArtifactHash"), M)
  <2> HIDE DEF M
  <2>1. QED BY ChatHistorySettingsType_Declared, FittingReads DEF M
<1>4. FitsMembers([source_uri |-> StrOrNone("SourceUri"), artifact_hash |-> StrOrNone("ArtifactHash")], M)
  <2> HIDE DEF M
  <2>1. QED BY <1>3 DEF FitsMembers
<1>5. QED
  <2> HIDE DEF M
  <2>1. FitsMembers(Identity ++ Metadata, M)
    BY <1>1, <1>2, FitsBoth
  <2>2. FitsMembers((Identity ++ Metadata) ++ [source_uri |-> StrOrNone("SourceUri"),
        artifact_hash |-> StrOrNone("ArtifactHash")], M)
    BY <2>1, <1>4, FitsBoth
  <2>3. QED BY <2>2 DEF M, ChatHistorySettings, Wrapper

\* CudaComputeSettings: every attribute fits.
LEMMA CudaComputeSettings_Fits == FitsMembers(CudaComputeSettings.reads, CudaComputeSettingsType.members)
<1> DEFINE M == CudaComputeSettingsType.members
<1>1. FitsMembers(Identity, M)
  BY CudaComputeSettingsType_Declared, IdentityFits
<1>2. FitsMembers(Metadata, M)
  BY CudaComputeSettingsType_Declared, MetadataFits
<1>3. /\ Fitting(Str("DeviceProfile"), M)
      /\ Fitting(Str("EntryPoint"), M)
      /\ Fitting(StrOrNone("LoaderJson"), M)
      /\ Fitting(StrOrNone("ArtifactHash"), M)
  <2> HIDE DEF M
  <2>1. QED BY CudaComputeSettingsType_Declared, FittingReads, ZenonT(60) DEF M
<1>4. FitsMembers([device_profile |-> Str("DeviceProfile"), entry_point |-> Str("EntryPoint"),
      loader_json |-> StrOrNone("LoaderJson"), artifact_hash |-> StrOrNone("ArtifactHash")], M)
  <2> HIDE DEF M
  <2>1. QED BY <1>3 DEF FitsMembers
<1>5. QED
  <2> HIDE DEF M
  <2>1. FitsMembers(Identity ++ Metadata, M)
    BY <1>1, <1>2, FitsBoth
  <2>2. FitsMembers((Identity ++ Metadata) ++ [device_profile |-> Str("DeviceProfile"),
        entry_point |-> Str("EntryPoint"), loader_json |-> StrOrNone("LoaderJson"),
            artifact_hash |-> StrOrNone("ArtifactHash")], M)
    BY <2>1, <1>4, FitsBoth
  <2>3. QED BY <2>2 DEF M, CudaComputeSettings, Wrapper

\* DynamicPipelineCompilerSettings: every attribute fits.
LEMMA DynamicPipelineCompilerSettings_Fits == FitsMembers(DynamicPipelineCompilerSettings.reads,
    DynamicPipelineCompilerSettingsType.members)
<1> DEFINE M == DynamicPipelineCompilerSettingsType.members
<1>1. FitsMembers(Identity, M)
  BY DynamicPipelineCompilerSettingsType_Declared, IdentityFits
<1>2. FitsMembers(Metadata, M)
  BY DynamicPipelineCompilerSettingsType_Declared, MetadataFits
<1>3. /\ Fitting(Str("DslSchemaVersion"), M)
      /\ Fitting(StrOrNone("DslSchemaUri"), M)
  <2> HIDE DEF M
  <2>1. QED BY DynamicPipelineCompilerSettingsType_Declared, FittingReads DEF M
<1>4. FitsMembers([dsl_schema_version |-> Str("DslSchemaVersion"),
      dsl_schema_uri |-> StrOrNone("DslSchemaUri")], M)
  <2> HIDE DEF M
  <2>1. QED BY <1>3 DEF FitsMembers
<1>5. QED
  <2> HIDE DEF M
  <2>1. FitsMembers(Identity ++ Metadata, M)
    BY <1>1, <1>2, FitsBoth
  <2>2. FitsMembers((Identity ++ Metadata) ++ [dsl_schema_version |-> Str("DslSchemaVersion"),
        dsl_schema_uri |-> StrOrNone("DslSchemaUri")], M)
    BY <2>1, <1>4, FitsBoth
  <2>3. QED BY <2>2 DEF M, DynamicPipelineCompilerSettings, Wrapper

\* LocalLlmSettings: every attribute fits.
LEMMA LocalLlmSettings_Fits == FitsMembers(LocalLlmSettings.reads, LocalLlmSettingsType.members)
<1> DEFINE M == LocalLlmSettingsType.members
<1>1. FitsMembers(Identity, M)
  BY LocalLlmSettingsType_Declared, IdentityFits
<1>2. FitsMembers(Metadata, M)
  BY LocalLlmSettingsType_Declared, MetadataFits
<1>3. /\ Fitting(Str("Runtime"), M)
      /\ Fitting(StrOrNone("RuntimeUri"), M)
      /\ Fitting(StrOrNone("ArtifactHash"), M)
  <2> HIDE DEF M
  <2>1. QED BY LocalLlmSettingsType_Declared, FittingReads DEF M
<1>4. FitsMembers([runtime |-> Str("Runtime"), runtime_uri |-> StrOrNone("RuntimeUri"),
      artifact_hash |-> StrOrNone("ArtifactHash")], M)
  <2> HIDE DEF M
  <2>1. QED BY <1>3 DEF FitsMembers
<1>5. QED
  <2> HIDE DEF M
  <2>1. FitsMembers(Identity ++ Metadata, M)
    BY <1>1, <1>2, FitsBoth
  <2>2. FitsMembers((Identity ++ Metadata) ++ [runtime |-> Str("Runtime"),
        runtime_uri |-> StrOrNone("RuntimeUri"), artifact_hash |-> StrOrNone("ArtifactHash")], M)
    BY <2>1, <1>4, FitsBoth
  <2>3. QED BY <2>2 DEF M, LocalLlmSettings, Wrapper

\* OpenAICompatibleCredentialType: what is declared.
LEMMA OpenAICompatibleCredentialType_Declared ==
  /\ DOMAIN OpenAICompatibleCredentialType.members = {"ApiKey", "ExpiresAtUtc", "Create"}
  /\ OpenAICompatibleCredentialType.members["ApiKey"] = "string"
  /\ OpenAICompatibleCredentialType.members["ExpiresAtUtc"] = "DateTimeOffset?"
  /\ OpenAICompatibleCredentialType.members["Create"] = "OpenAICompatibleCredential"
BY DEF OpenAICompatibleCredentialType, Type

\* MicrosoftAICredential: every attribute fits.
LEMMA MicrosoftAICredential_Fits == FitsMembers(MicrosoftAICredential.reads,
    OpenAICompatibleCredentialType.members)
<1> DEFINE M == OpenAICompatibleCredentialType.members
<1>1. /\ Fitting(Str("ApiKey"), M)
      /\ Fitting(StrOrNone("ExpiresAtUtc"), M)
  <2> HIDE DEF M
  <2>1. QED BY OpenAICompatibleCredentialType_Declared, FittingReads DEF M
<1>2. FitsMembers([api_key |-> Str("ApiKey"), expires_at_utc |-> StrOrNone("ExpiresAtUtc")], M)
  <2> HIDE DEF M
  <2>1. QED BY <1>1 DEF FitsMembers
<1>3. QED
  <2> HIDE DEF M
  <2>1. QED BY <1>2 DEF M, MicrosoftAICredential, MicrosoftWrapper, Wrapper

\* OpenAICompatibleProviderHealthContextType: what is declared.
LEMMA OpenAICompatibleProviderHealthContextType_Declared ==
  /\ DOMAIN OpenAICompatibleProviderHealthContextType.members = {"ProviderId", "Name", "Version", "ModelId",
       "IsInitialized", "CheckedAtUtc"}
  /\ OpenAICompatibleProviderHealthContextType.members["ProviderId"] = "string"
  /\ OpenAICompatibleProviderHealthContextType.members["Name"] = "string"
  /\ OpenAICompatibleProviderHealthContextType.members["Version"] = "string"
  /\ OpenAICompatibleProviderHealthContextType.members["ModelId"] = "string"
  /\ OpenAICompatibleProviderHealthContextType.members["IsInitialized"] = "bool"
  /\ OpenAICompatibleProviderHealthContextType.members["CheckedAtUtc"] = "DateTimeOffset"
BY DEF OpenAICompatibleProviderHealthContextType, Type

\* MicrosoftAIHealthContext: every attribute fits.
LEMMA MicrosoftAIHealthContext_Fits == FitsMembers(MicrosoftAIHealthContext.reads,
    OpenAICompatibleProviderHealthContextType.members)
<1> DEFINE M == OpenAICompatibleProviderHealthContextType.members
<1>1. FitsMembers(Identity, M)
  BY OpenAICompatibleProviderHealthContextType_Declared, IdentityFits
<1>2. /\ Fitting(Str("ModelId"), M)
      /\ Fitting(Bool("IsInitialized"), M)
      /\ Fitting(Str("CheckedAtUtc"), M)
  <2> HIDE DEF M
  <2>1. QED BY OpenAICompatibleProviderHealthContextType_Declared, FittingReads DEF M
<1>3. FitsMembers([model_id |-> Str("ModelId"), is_initialized |-> Bool("IsInitialized"),
      checked_at_utc |-> Str("CheckedAtUtc")], M)
  <2> HIDE DEF M
  <2>1. QED BY <1>2 DEF FitsMembers
<1>4. QED
  <2> HIDE DEF M
  <2>1. FitsMembers(Identity ++ [model_id |-> Str("ModelId"), is_initialized |-> Bool("IsInitialized"),
        checked_at_utc |-> Str("CheckedAtUtc")], M)
    BY <1>1, <1>3, FitsBoth
  <2>2. QED BY <2>1 DEF M, MicrosoftAIHealthContext, MicrosoftWrapper, Wrapper

\* OpenAICompatibleProviderType: what is declared.
LEMMA OpenAICompatibleProviderType_Declared ==
  /\ DOMAIN OpenAICompatibleProviderType.members = {"ProviderId", "Name", "Version"}
  /\ OpenAICompatibleProviderType.members["ProviderId"] = "string"
  /\ OpenAICompatibleProviderType.members["Name"] = "string"
  /\ OpenAICompatibleProviderType.members["Version"] = "string"
BY DEF OpenAICompatibleProviderType, Type

\* MicrosoftAIProvider: every attribute fits.
LEMMA MicrosoftAIProvider_Fits == FitsMembers(MicrosoftAIProvider.reads, OpenAICompatibleProviderType.members)
<1> DEFINE M == OpenAICompatibleProviderType.members
<1>1. FitsMembers(Identity, M)
  BY OpenAICompatibleProviderType_Declared, IdentityFits
<1>2. QED
  <2> HIDE DEF M
  <2>1. QED BY <1>1 DEF M, MicrosoftAIProvider, MicrosoftWrapper, Wrapper

\* OpenAICompatibleProviderCapabilitiesType: what is declared.
LEMMA OpenAICompatibleProviderCapabilitiesType_Declared ==
  /\ DOMAIN OpenAICompatibleProviderCapabilitiesType.members = {"SupportsOperation", "SupportsDataType",
       "SupportsQuantization", "SupportsQueryProcessingOperation"}
  /\ OpenAICompatibleProviderCapabilitiesType.members["SupportsOperation"] = "bool"
  /\ OpenAICompatibleProviderCapabilitiesType.members["SupportsDataType"] = "bool"
  /\ OpenAICompatibleProviderCapabilitiesType.members["SupportsQuantization"] = "bool"
  /\ OpenAICompatibleProviderCapabilitiesType.members["SupportsQueryProcessingOperation"] = "bool"
BY DEF OpenAICompatibleProviderCapabilitiesType, Type

\* OpenAICompatibleProviderOptionsType: what is declared.
LEMMA OpenAICompatibleProviderOptionsType_Declared ==
  /\ DOMAIN OpenAICompatibleProviderOptionsType.members = {"ProviderId", "Name", "Version", "ModelId",
       "Endpoint", "MaxInputTokens", "MaxOutputTokens", "Temperature", "TopP", "SupportsSystemRole",
           "SupportsAssistantRole", "SupportsToolRole", "SupportsStreaming", "StopSequences", "SecretKeyName",
               "ApiKey", "HealthStatusFactory"}
  /\ OpenAICompatibleProviderOptionsType.members["ProviderId"] = "string"
  /\ OpenAICompatibleProviderOptionsType.members["Name"] = "string"
  /\ OpenAICompatibleProviderOptionsType.members["Version"] = "string"
  /\ OpenAICompatibleProviderOptionsType.members["ModelId"] = "string"
  /\ OpenAICompatibleProviderOptionsType.members["Endpoint"] = "Uri?"
  /\ OpenAICompatibleProviderOptionsType.members["MaxInputTokens"] = "int"
  /\ OpenAICompatibleProviderOptionsType.members["MaxOutputTokens"] = "int?"
  /\ OpenAICompatibleProviderOptionsType.members["Temperature"] = "float?"
  /\ OpenAICompatibleProviderOptionsType.members["TopP"] = "float?"
  /\ OpenAICompatibleProviderOptionsType.members["SupportsSystemRole"] = "bool"
  /\ OpenAICompatibleProviderOptionsType.members["SupportsAssistantRole"] = "bool"
  /\ OpenAICompatibleProviderOptionsType.members["SupportsToolRole"] = "bool"
  /\ OpenAICompatibleProviderOptionsType.members["SupportsStreaming"] = "bool"
  /\ OpenAICompatibleProviderOptionsType.members["StopSequences"] = "IReadOnlyList<string>"
  /\ OpenAICompatibleProviderOptionsType.members["SecretKeyName"] = "string?"
  /\ OpenAICompatibleProviderOptionsType.members["ApiKey"] = "string?"
  /\ OpenAICompatibleProviderOptionsType.members["HealthStatusFactory"] = "Func<OpenAICompatibleProviderHealthContext, ProviderHealthStatus>?"
BY DEF OpenAICompatibleProviderOptionsType, Type

\* MicrosoftAIProviderOptions: every attribute fits.
LEMMA MicrosoftAIProviderOptions_Fits == FitsMembers(MicrosoftAIProviderOptions.reads,
    OpenAICompatibleProviderOptionsType.members)
<1> DEFINE M == OpenAICompatibleProviderOptionsType.members
<1>1. FitsMembers(Identity, M)
  BY OpenAICompatibleProviderOptionsType_Declared, IdentityFits
<1>2. /\ Fitting(Str("ModelId"), M)
      /\ Fitting(StrOrNone("Endpoint"), M)
      /\ Fitting(Read("MaxInputTokens", "int"), M)
      /\ Fitting(Read("MaxOutputTokens", "int | None"), M)
      /\ Fitting(Bool("SupportsSystemRole"), M)
      /\ Fitting(Bool("SupportsAssistantRole"), M)
      /\ Fitting(Bool("SupportsToolRole"), M)
      /\ Fitting(Bool("SupportsStreaming"), M)
      /\ Fitting(Tuple("StopSequences"), M)
      /\ Fitting(StrOrNone("SecretKeyName"), M)
      /\ Fitting(StrOrNone("ApiKey"), M)
  <2> HIDE DEF M
  <2>1. QED BY OpenAICompatibleProviderOptionsType_Declared, FittingReads, ZenonT(60) DEF M
<1>3. FitsMembers([model_id |-> Str("ModelId"), endpoint |-> StrOrNone("Endpoint"),
      max_input_tokens |-> Read("MaxInputTokens", "int"), max_output_tokens |-> Read("MaxOutputTokens",
          "int | None"), supports_system_role |-> Bool("SupportsSystemRole"),
              supports_assistant_role |-> Bool("SupportsAssistantRole"),
                  supports_tool_role |-> Bool("SupportsToolRole"),
                      supports_streaming |-> Bool("SupportsStreaming"),
                          stop_sequences |-> Tuple("StopSequences"),
                              secret_key_name |-> StrOrNone("SecretKeyName"), api_key |-> StrOrNone("ApiKey")],
                                  M)
  <2> DEFINE R == [model_id |-> Str("ModelId"), endpoint |-> StrOrNone("Endpoint"),
        max_input_tokens |-> Read("MaxInputTokens", "int"), max_output_tokens |-> Read("MaxOutputTokens",
            "int | None"), supports_system_role |-> Bool("SupportsSystemRole"),
                supports_assistant_role |-> Bool("SupportsAssistantRole"),
                    supports_tool_role |-> Bool("SupportsToolRole"),
                        supports_streaming |-> Bool("SupportsStreaming"),
                            stop_sequences |-> Tuple("StopSequences"),
                                secret_key_name |-> StrOrNone("SecretKeyName"), api_key |-> StrOrNone("ApiKey")]
  <2> HIDE DEF M
  <2>1. DOMAIN R = {"model_id", "endpoint", "max_input_tokens", "max_output_tokens", "supports_system_role",
        "supports_assistant_role", "supports_tool_role", "supports_streaming", "stop_sequences",
            "secret_key_name", "api_key"}
    OBVIOUS
  <2>2. /\ R["model_id"] = Str("ModelId")
        /\ R["endpoint"] = StrOrNone("Endpoint")
        /\ R["max_input_tokens"] = Read("MaxInputTokens", "int")
        /\ R["max_output_tokens"] = Read("MaxOutputTokens", "int | None")
        /\ R["supports_system_role"] = Bool("SupportsSystemRole")
        /\ R["supports_assistant_role"] = Bool("SupportsAssistantRole")
        /\ R["supports_tool_role"] = Bool("SupportsToolRole")
        /\ R["supports_streaming"] = Bool("SupportsStreaming")
        /\ R["stop_sequences"] = Tuple("StopSequences")
        /\ R["secret_key_name"] = StrOrNone("SecretKeyName")
        /\ R["api_key"] = StrOrNone("ApiKey")
    OBVIOUS
  <2> HIDE DEF R
  <2>3. \A a \in DOMAIN R : Fitting(R[a], M)
    BY <1>2, <2>1, <2>2
  <2>4. QED BY <2>3 DEF FitsMembers, R
<1>4. QED
  <2> HIDE DEF M
  <2>1. FitsMembers(Identity ++ [model_id |-> Str("ModelId"), endpoint |-> StrOrNone("Endpoint"),
        max_input_tokens |-> Read("MaxInputTokens", "int"), max_output_tokens |-> Read("MaxOutputTokens",
            "int | None"), supports_system_role |-> Bool("SupportsSystemRole"),
                supports_assistant_role |-> Bool("SupportsAssistantRole"),
                    supports_tool_role |-> Bool("SupportsToolRole"),
                        supports_streaming |-> Bool("SupportsStreaming"),
                            stop_sequences |-> Tuple("StopSequences"),
                                secret_key_name |-> StrOrNone("SecretKeyName"),
                                    api_key |-> StrOrNone("ApiKey")], M)
    BY <1>1, <1>3, FitsBoth
  <2>2. QED BY <2>1 DEF M, MicrosoftAIProviderOptions, MicrosoftWrapper, Wrapper

\* OpenAICompatibleProviderOptionsValidatorType: what is declared.
LEMMA OpenAICompatibleProviderOptionsValidatorType_Declared ==
  /\ DOMAIN OpenAICompatibleProviderOptionsValidatorType.members = {"Validate"}
  /\ OpenAICompatibleProviderOptionsValidatorType.members["Validate"] = "ValidateOptionsResult"
BY DEF OpenAICompatibleProviderOptionsValidatorType, Type

\* MicrosoftAIProviderOptionsValidator: every attribute fits.
LEMMA MicrosoftAIProviderOptionsValidator_Fits == FitsMembers(MicrosoftAIProviderOptionsValidator.reads,
    OpenAICompatibleProviderOptionsValidatorType.members)
<1> DEFINE M == OpenAICompatibleProviderOptionsValidatorType.members
<1>1. /\ Fitting(Read("Validate", "managed"), M)
  <2> HIDE DEF M
  <2>1. QED BY OpenAICompatibleProviderOptionsValidatorType_Declared, FittingReads DEF M
<1>2. FitsMembers([validate |-> Read("Validate", "managed")], M)
  <2> HIDE DEF M
  <2>1. QED BY <1>1 DEF FitsMembers
<1>3. QED
  <2> HIDE DEF M
  <2>1. QED BY <1>2 DEF M, MicrosoftAIProviderOptionsValidator, MicrosoftWrapper, Wrapper

\* OpenAICompatibleResponseMapperType: what is declared.
LEMMA OpenAICompatibleResponseMapperType_Declared ==
  /\ DOMAIN OpenAICompatibleResponseMapperType.members = {"GetPrimaryText", "CreateProjection"}
  /\ OpenAICompatibleResponseMapperType.members["GetPrimaryText"] = "string"
  /\ OpenAICompatibleResponseMapperType.members["CreateProjection"] = "OpenAICompatibleResponseProjection"
BY DEF OpenAICompatibleResponseMapperType, Type

\* MicrosoftAIResponseMapper: every attribute fits.
LEMMA MicrosoftAIResponseMapper_Fits == FitsMembers(MicrosoftAIResponseMapper.reads,
    OpenAICompatibleResponseMapperType.members)
<1> DEFINE M == OpenAICompatibleResponseMapperType.members
<1>1. /\ Fitting(Str("GetPrimaryText"), M)
      /\ Fitting(Read("CreateProjection", "wrapper"), M)
  <2> HIDE DEF M
  <2>1. QED BY OpenAICompatibleResponseMapperType_Declared, FittingReads DEF M
<1>2. FitsMembers([get_primary_text |-> Str("GetPrimaryText"), create_projection |-> Read("CreateProjection",
      "wrapper")], M)
  <2> HIDE DEF M
  <2>1. QED BY <1>1 DEF FitsMembers
<1>3. QED
  <2> HIDE DEF M
  <2>1. QED BY <1>2 DEF M, MicrosoftAIResponseMapper, MicrosoftWrapper, Wrapper

\* OpenAICompatibleResponseProjectionType: what is declared.
LEMMA OpenAICompatibleResponseProjectionType_Declared ==
  /\ DOMAIN OpenAICompatibleResponseProjectionType.members = {"ModelId", "RawResponse", "PrimaryText",
       "IsTruncated", "ObservedAtUtc", "Metadata"}
  /\ OpenAICompatibleResponseProjectionType.members["ModelId"] = "string"
  /\ OpenAICompatibleResponseProjectionType.members["RawResponse"] = "string"
  /\ OpenAICompatibleResponseProjectionType.members["PrimaryText"] = "string"
  /\ OpenAICompatibleResponseProjectionType.members["IsTruncated"] = "bool"
  /\ OpenAICompatibleResponseProjectionType.members["ObservedAtUtc"] = "DateTimeOffset"
  /\ OpenAICompatibleResponseProjectionType.members["Metadata"] = "ImmutableDictionary<string, string>"
BY DEF OpenAICompatibleResponseProjectionType, Type

\* MicrosoftAIResponseProjection: every attribute fits.
LEMMA MicrosoftAIResponseProjection_Fits == FitsMembers(MicrosoftAIResponseProjection.reads,
    OpenAICompatibleResponseProjectionType.members)
<1> DEFINE M == OpenAICompatibleResponseProjectionType.members
<1>1. /\ Fitting(Str("ModelId"), M)
      /\ Fitting(Str("RawResponse"), M)
      /\ Fitting(Str("PrimaryText"), M)
      /\ Fitting(Bool("IsTruncated"), M)
      /\ Fitting(Str("ObservedAtUtc"), M)
      /\ Fitting(Read("Metadata", "dict"), M)
  <2> HIDE DEF M
  <2>1. QED BY OpenAICompatibleResponseProjectionType_Declared, FittingReads DEF M
<1>2. FitsMembers([model_id |-> Str("ModelId"), raw_response |-> Str("RawResponse"),
      primary_text |-> Str("PrimaryText"), is_truncated |-> Bool("IsTruncated"),
          observed_at_utc |-> Str("ObservedAtUtc"), metadata |-> Read("Metadata", "dict")], M)
  <2> HIDE DEF M
  <2>1. QED BY <1>1 DEF FitsMembers
<1>3. QED
  <2> HIDE DEF M
  <2>1. QED BY <1>2 DEF M, MicrosoftAIResponseProjection, MicrosoftWrapper, Wrapper

\* The capabilities, which have the members of an interface as well.
LEMMA CapabilitiesMembersDeclared ==
  /\ DOMAIN CapabilitiesMembers = {"SupportedOperations", "SupportedDataTypes", "MaxConcurrentConnections",
       "SupportsQueryAugmentation", "SupportsQueryDecomposition", "SupportsQueryRouting", "MaxQueryParts",
           "SupportedQueryProcessingOperations", "SupportsEmbedding", "EmbeddingDimensions",
               "SupportedEmbeddingModels"}
  /\ CapabilitiesMembers["SupportedOperations"] = "IReadOnlyList<string>"
  /\ CapabilitiesMembers["SupportedDataTypes"] = "IReadOnlyList<string>"
  /\ CapabilitiesMembers["MaxConcurrentConnections"] = "int"
  /\ CapabilitiesMembers["SupportsQueryAugmentation"] = "bool"
  /\ CapabilitiesMembers["SupportsQueryDecomposition"] = "bool"
  /\ CapabilitiesMembers["SupportsQueryRouting"] = "bool"
  /\ CapabilitiesMembers["MaxQueryParts"] = "int"
  /\ CapabilitiesMembers["SupportedQueryProcessingOperations"] = "IReadOnlyList<string>"
  /\ CapabilitiesMembers["SupportsEmbedding"] = "bool"
  /\ CapabilitiesMembers["EmbeddingDimensions"] = "int?"
  /\ CapabilitiesMembers["SupportedEmbeddingModels"] = "IReadOnlyList<string>"
BY DEF CapabilitiesMembers

\* The capabilities, whose members are its own and those of the record under it.
LEMMA MicrosoftAIProviderCapabilities_Fits ==
  FitsMembers(MicrosoftAIProviderCapabilities.reads,
      OpenAICompatibleProviderCapabilitiesType.members ++ CapabilitiesMembers)
<1> DEFINE M == OpenAICompatibleProviderCapabilitiesType.members ++ CapabilitiesMembers
<1>1. /\ DOMAIN M = DOMAIN OpenAICompatibleProviderCapabilitiesType.members \cup DOMAIN CapabilitiesMembers
      /\ \A m \in DOMAIN OpenAICompatibleProviderCapabilitiesType.members : M[m] = OpenAICompatibleProviderCapabilitiesType.members[m]
      /\ \A m \in DOMAIN CapabilitiesMembers : m \notin DOMAIN OpenAICompatibleProviderCapabilitiesType.members =>
           M[m] = CapabilitiesMembers[m]
  BY DEF ++
<1>2. /\ M["SupportsOperation"] = "bool" /\ "SupportsOperation" \in DOMAIN M
      /\ M["SupportsDataType"] = "bool" /\ "SupportsDataType" \in DOMAIN M
      /\ M["SupportsQuantization"] = "bool" /\ "SupportsQuantization" \in DOMAIN M
      /\ M["SupportsQueryProcessingOperation"] = "bool" /\ "SupportsQueryProcessingOperation" \in DOMAIN M
  <2> HIDE DEF M
  <2>1. QED BY <1>1, OpenAICompatibleProviderCapabilitiesType_Declared
<1>3. /\ M["SupportedOperations"] = "IReadOnlyList<string>" /\ "SupportedOperations" \in DOMAIN M
      /\ M["SupportedDataTypes"] = "IReadOnlyList<string>" /\ "SupportedDataTypes" \in DOMAIN M
      /\ M["MaxConcurrentConnections"] = "int" /\ "MaxConcurrentConnections" \in DOMAIN M
      /\ M["SupportsQueryAugmentation"] = "bool" /\ "SupportsQueryAugmentation" \in DOMAIN M
      /\ M["SupportsQueryDecomposition"] = "bool" /\ "SupportsQueryDecomposition" \in DOMAIN M
      /\ M["SupportsQueryRouting"] = "bool" /\ "SupportsQueryRouting" \in DOMAIN M
      /\ M["MaxQueryParts"] = "int" /\ "MaxQueryParts" \in DOMAIN M
      /\ M["SupportedQueryProcessingOperations"] = "IReadOnlyList<string>"
      /\ "SupportedQueryProcessingOperations" \in DOMAIN M
      /\ M["SupportsEmbedding"] = "bool" /\ "SupportsEmbedding" \in DOMAIN M
      /\ M["EmbeddingDimensions"] = "int?" /\ "EmbeddingDimensions" \in DOMAIN M
      /\ M["SupportedEmbeddingModels"] = "IReadOnlyList<string>" /\ "SupportedEmbeddingModels" \in DOMAIN M
  <2> HIDE DEF M
  <2>1. QED BY <1>1, OpenAICompatibleProviderCapabilitiesType_Declared, CapabilitiesMembersDeclared
<1>4. /\ Fitting(Tuple("SupportedOperations"), M)
      /\ Fitting(Tuple("SupportedDataTypes"), M)
      /\ Fitting(Read("MaxConcurrentConnections", "int"), M)
      /\ Fitting(Bool("SupportsQueryAugmentation"), M)
      /\ Fitting(Bool("SupportsQueryDecomposition"), M)
      /\ Fitting(Bool("SupportsQueryRouting"), M)
      /\ Fitting(Read("MaxQueryParts", "int"), M)
      /\ Fitting(Tuple("SupportedQueryProcessingOperations"), M)
      /\ Fitting(Bool("SupportsEmbedding"), M)
      /\ Fitting(Read("EmbeddingDimensions", "int | None"), M)
      /\ Fitting(Tuple("SupportedEmbeddingModels"), M)
      /\ Fitting(Bool("SupportsOperation"), M)
      /\ Fitting(Bool("SupportsDataType"), M)
      /\ Fitting(Bool("SupportsQuantization"), M)
      /\ Fitting(Bool("SupportsQueryProcessingOperation"), M)
  <2> HIDE DEF M
  <2>1. QED BY <1>2, <1>3, FittingReads
<1> DEFINE R == MicrosoftAIProviderCapabilities.reads
<1>5. /\ DOMAIN R = {"supported_operations", "supported_data_types", "max_concurrent_connections",
           "supports_query_augmentation", "supports_query_decomposition", "supports_query_routing",
               "max_query_parts", "supported_query_processing_operations", "supports_embedding",
                   "embedding_dimensions", "supported_embedding_models", "supports_operation",
                       "supports_data_type", "supports_quantization", "supports_query_processing_operation"}
      /\ R["supported_operations"] = Tuple("SupportedOperations")
      /\ R["supported_data_types"] = Tuple("SupportedDataTypes")
      /\ R["max_concurrent_connections"] = Read("MaxConcurrentConnections", "int")
      /\ R["supports_query_augmentation"] = Bool("SupportsQueryAugmentation")
      /\ R["supports_query_decomposition"] = Bool("SupportsQueryDecomposition")
      /\ R["supports_query_routing"] = Bool("SupportsQueryRouting")
      /\ R["max_query_parts"] = Read("MaxQueryParts", "int")
      /\ R["supported_query_processing_operations"] = Tuple("SupportedQueryProcessingOperations")
      /\ R["supports_embedding"] = Bool("SupportsEmbedding")
      /\ R["embedding_dimensions"] = Read("EmbeddingDimensions", "int | None")
      /\ R["supported_embedding_models"] = Tuple("SupportedEmbeddingModels")
      /\ R["supports_operation"] = Bool("SupportsOperation")
      /\ R["supports_data_type"] = Bool("SupportsDataType")
      /\ R["supports_quantization"] = Bool("SupportsQuantization")
      /\ R["supports_query_processing_operation"] = Bool("SupportsQueryProcessingOperation")
  BY DEF MicrosoftAIProviderCapabilities, MicrosoftWrapper, Wrapper
<1>6. \A a \in DOMAIN R : Fitting(R[a], M)
  <2> HIDE DEF M, R
  <2>1. QED BY <1>4, <1>5
<1>7. QED BY <1>6 DEF FitsMembers

\* Settings: what the catalogue declares is what a new object has.
LEMMA SettingsFit ==
  ASSUME NEW f \in Families, NEW assembly, NEW members, NEW reads,
         Known(Settings[f], assembly, members), FitsMembers(reads, members), DefaultsFit(f, members),
         \A m \in DOMAIN members : members[m] = "Uri" => m \in DOMAIN Defaults(f)
  PROVE  FitsMembers(reads, Members(Settings[f])) /\ NewFits(reads, Settings[f])
<1> DEFINE type == Settings[f]
<1>1. PICK more : Members(type) = members ++ more
  BY MembersOf, ContractTypeIsOther
<1>2. FitsMembers(reads, Members(type))
  BY <1>1, FitsMore
<1>3. FamiliesOf(type) = {f}
  BY FamilyOfType
<1>4. \A m \in DOMAIN members : Members(type)[m] = members[m]
  BY <1>1 DEF ++
<1>5. NewFits(reads, type)
  <2> HIDE DEF type
  <2>1. \A m \in DOMAIN Defaults(f) : Fits(Defaults(f)[m], Members(type)[m])
    BY <1>4 DEF DefaultsFit
  <2>2. \A a \in DOMAIN reads : reads[a].member \in DOMAIN members
    BY DEF FitsMembers, Fitting
  <2>3. QED BY <1>2, <1>3, <1>4, <2>1, <2>2, NewOfFamily
<1>6. QED BY <1>2, <1>5

\* Who a provider is: in its settings and in the provider.
LEMMA IdentityDefaults ==
  ASSUME NEW f \in Families, NEW m \in {"ProviderId", "Name", "Version"}
  PROVE  m \in DOMAIN Defaults(f) => Fits(Defaults(f)[m], "string")
<1>1. CASE f = "ChatOpenAI"
  BY <1>1, ChatOpenAISettingsType_Defaults, ChatOpenAISettingsType_Declared DEF DefaultsFit
<1>2. CASE f = "ChatHistory"
  BY <1>2, ChatHistorySettingsType_Defaults, ChatHistorySettingsType_Declared DEF DefaultsFit
<1>3. CASE f = "CudaCompute"
  BY <1>3, CudaComputeSettingsType_Defaults, CudaComputeSettingsType_Declared DEF DefaultsFit
<1>4. CASE f = "DynamicPipelineCompiler"
  BY <1>4, DynamicPipelineCompilerSettingsType_Defaults, DynamicPipelineCompilerSettingsType_Declared
      DEF DefaultsFit
<1>5. CASE f = "LocalLlm"
  BY <1>5, LocalLlmSettingsType_Defaults, LocalLlmSettingsType_Declared DEF DefaultsFit
<1>6. QED BY <1>1, <1>2, <1>3, <1>4, <1>5 DEF Families

\* A provider has the members of its interface.
LEMMA ProviderFits ==
  ASSUME NEW f \in Families, NEW assembly, Known(Bridge(f).CreateProvider, assembly, << >>)
  PROVE  /\ FitsMembers(Identity, Members(Bridge(f).CreateProvider))
         /\ NewFits(Identity, Bridge(f).CreateProvider)
<1> DEFINE type == Bridge(f).CreateProvider
<1>1. Members(type) = << >> ++ ProviderMembers
  BY MembersOf, ContractTypeIsOther DEF ProviderTypes
<1>2. /\ DOMAIN Members(type) = {"ProviderId", "Name", "Version"}
      /\ \A m \in DOMAIN Members(type) : Members(type)[m] = "string"
  BY <1>1 DEF ++, ProviderMembers
<1>3. FitsMembers(Identity, Members(type))
  <2> HIDE DEF type
  <2>1. QED BY <1>2, IdentityFits
<1>4. FamiliesOf(type) = {f}
  BY FamilyOfType
<1>5. NewFits(Identity, type)
  <2> HIDE DEF type
  <2>1. \A a \in DOMAIN Identity : Identity[a].member \in {"ProviderId", "Name", "Version"}
    BY DEF Identity, Str, Read
  <2>2. \A a \in DOMAIN Identity : Identity[a].member \in DOMAIN Defaults(f) =>
          Fits(Defaults(f)[Identity[a].member], Members(type)[Identity[a].member])
    BY <1>2, <2>1, IdentityDefaults
  <2>3. QED BY <1>2, <1>3, <1>4, <2>1, <2>2, NewOfFamily
<1>6. QED BY <1>3, <1>5

\* Of other types the catalogue lists all members that are read.
LEMMA OtherFits ==
  ASSUME NEW type, NEW assembly, NEW members, NEW reads,
         Known(type, assembly, members), FitsMembers(reads, members),
         type # CapabilityContract.type,
         \A f \in Families : type # Settings[f] /\ type # Bridge(f).CreateProvider,
         NoUri(members)
  PROVE  FitsMembers(reads, Members(type)) /\ NewFits(reads, type)
<1>1. PICK more : Members(type) = members ++ more
  BY MembersOf
<1>2. FitsMembers(reads, Members(type))
  BY <1>1, FitsMore
<1>3. \A a \in DOMAIN reads : Members(type)[reads[a].member] # "Uri"
  BY <1>1 DEF FitsMembers, Fitting, NoUri, ++
<1>4. QED BY <1>2, <1>3, FamilyOfType, NewPlain

\* Where Defaults has an endpoint.
LEMMA EndpointDefault ==
  \A m \in DOMAIN ChatOpenAISettingsType.members :
    ChatOpenAISettingsType.members[m] = "Uri" => m \in DOMAIN Defaults("ChatOpenAI")
BY ChatOpenAI_DefaultSettings, ChatOpenAISettingsType_Declared

\* How objects are made.
LEMMA Ways ==
  /\ \A n : /\ Activate(n).way = "activate" /\ Activate(n).arguments = n
            /\ Activate(n).method = "none"
  /\ \A type, method, n : /\ CallStatic(type, method, n).way = "static"
                          /\ CallStatic(type, method, n).type = type
                          /\ CallStatic(type, method, n).method = method
                          /\ CallStatic(type, method, n).arguments = n
  /\ Given.way = "given" /\ Given.method = "none"
BY DEF Activate, CallStatic, Given

\* A wrapper without attributes.
LEMMA NothingToFit == \A members, type : FitsMembers(<< >>, members) /\ NewFits(<< >>, type)
BY DEF FitsMembers, NewFits

\* The drivers are sound.
LEMMA DriversSound == \A w \in DOMAIN Drivers : Sound(w)
<1>1. SUFFICES ASSUME NEW w \in DOMAIN Drivers PROVE Sound(w)
  OBVIOUS
<1>2. Wrappers[w] = Drivers[w]
  BY WrapperTable
<1> USE DriverTypes DEF IsDriver
<1>3. Drivers[w].type # CapabilityContract.type
  BY ContractTypeIsOther DEF DriverNamespaces, FileSystems, Loggers, Networks, Supervisors
<1>4. Drivers[w].make.way = "activate" /\ ConstructorArity(Drivers[w].type) = Drivers[w].make.arguments
      /\ Drivers[w].make.method = "none"
  BY Ways
<1>5. Known(Drivers[w].type, Drivers[w].assembly, << >>)
  BY Standard_Known
<1>6. Drivers[w].assembly \in LoadedAssemblies
  BY DEF LoadedAssemblies
<1>7. QED BY <1>2, <1>3, <1>4, <1>5, <1>6, NothingToFit DEF Sound

\* What a bridge makes.
LEMMA MadeByBridge ==
  ASSUME NEW f \in Families, NEW x, x.assembly \in LoadedAssemblies,
         \E members : Known(Bridge(f).type, x.assembly, members),
         \/ x.make = CallStatic(Bridge(f).type, "CreateInvoker", 0) /\ x.type = Bridge(f).CreateInvoker
         \/ x.make = CallStatic(Bridge(f).type, "CreateProvider", 0) /\ x.type = Bridge(f).CreateProvider
  PROVE  x.make.way = "static" /\ x.make.method # "Create" /\ MadeByMethod(x)
<1>1. x.make.type = Bridge(f).type /\ x.make.arguments = 0 /\ x.make.way = "static"
      /\ \/ x.make.method = "CreateInvoker" /\ x.type = Bridge(f).CreateInvoker
         \/ x.make.method = "CreateProvider" /\ x.type = Bridge(f).CreateProvider
  BY Ways
<1>2. Resolves(x.make.type, x.assembly)
  BY <1>1 DEF Known, Resolves
<1>3. CASE x.make.method = "CreateInvoker" /\ x.type = Bridge(f).CreateInvoker
  <2>1. \E m \in StaticMethods : m.type = x.make.type /\ m.method = x.make.method
    <3>1. [type |-> Bridge(f).type, method |-> "CreateInvoker", arity |-> 0,
           result |-> Bridge(f).CreateInvoker] \in StaticMethods
      BY Methods
    <3>2. QED BY <1>1, <1>3, <3>1
  <2>2. QED BY <1>1, <1>2, <1>3, <2>1, MethodsOfBridges DEF MadeByMethod
<1>4. CASE x.make.method = "CreateProvider" /\ x.type = Bridge(f).CreateProvider
  <2>1. \E m \in StaticMethods : m.type = x.make.type /\ m.method = x.make.method
    <3>1. [type |-> Bridge(f).type, method |-> "CreateProvider", arity |-> 0,
           result |-> Bridge(f).CreateProvider] \in StaticMethods
      BY Methods
    <3>2. QED BY <1>1, <1>4, <3>1
  <2>2. QED BY <1>1, <1>2, <1>4, <2>1, MethodsOfBridges DEF MadeByMethod
<1>5. QED BY <1>1, <1>3, <1>4

\* Invokers and providers.
LEMMA InvokerSound ==
  ASSUME NEW f \in Families, NEW w, NEW x, Wrappers[w] = x, x.assembly \in LoadedAssemblies,
         x.type = Bridge(f).CreateInvoker, x.reads = << >>,
         x.make = CallStatic(Bridge(f).type, "CreateInvoker", 0),
         Known(x.type, x.assembly, << >>), \E members : Known(Bridge(f).type, x.assembly, members)
  PROVE  Sound(w)
<1>1. x.make.way = "static" /\ x.make.method # "Create" /\ MadeByMethod(x)
  BY MadeByBridge
<1>2. QED BY <1>1, ContractTypeIsOther, NothingToFit DEF Sound

\* A provider that its bridge makes.
LEMMA ProviderSound ==
  ASSUME NEW f \in Families, NEW w, NEW x, Wrappers[w] = x, x.assembly \in LoadedAssemblies,
         x.type = Bridge(f).CreateProvider, x.reads = Identity,
         x.make = CallStatic(Bridge(f).type, "CreateProvider", 0),
         Known(x.type, x.assembly, << >>), \E members : Known(Bridge(f).type, x.assembly, members)
  PROVE  Sound(w)
<1>1. x.make.way = "static" /\ x.make.method # "Create" /\ MadeByMethod(x)
  BY MadeByBridge
<1>2. FitsMembers(x.reads, Members(x.type)) /\ NewFits(x.reads, x.type)
  BY ProviderFits
<1>3. QED BY <1>1, <1>2, ContractTypeIsOther DEF Sound

\* Settings, and types of no family: an object is made without arguments, or
\* given to the caller.
LEMMA SettingsSound ==
  ASSUME NEW f \in Families, NEW w, NEW x, Wrappers[w] = x, x.assembly \in LoadedAssemblies,
         x.type = Settings[f], x.make = Activate(0),
         NEW members, Known(x.type, x.assembly, members), FitsMembers(x.reads, members),
         DefaultsFit(f, members),
         \A m \in DOMAIN members : members[m] = "Uri" => m \in DOMAIN Defaults(f)
  PROVE  Sound(w)
<1>1. FitsMembers(x.reads, Members(x.type)) /\ NewFits(x.reads, x.type)
  BY SettingsFit
<1>2. ConstructorArity(x.type) = 0
  BY FamilyTypes DEF Families, ConstructorArity, FileSystems, Loggers
<1>3. QED BY <1>1, <1>2, ContractTypeIsOther, Ways DEF Sound

OfNoFamily(type) ==
  /\ type # CapabilityContract.type
  /\ \A f \in Families : type # Settings[f] /\ type # Bridge(f).CreateProvider

MadeOrGiven(x) ==
  \/ x.make = Given
  \/ x.make = Activate(0) /\ ConstructorArity(x.type) = 0

\* An object of no family.
LEMMA OtherSound ==
  ASSUME NEW w, NEW x, Wrappers[w] = x, x.assembly \in LoadedAssemblies, OfNoFamily(x.type),
         MadeOrGiven(x), NEW members, Known(x.type, x.assembly, members),
         FitsMembers(x.reads, members), NoUri(members)
  PROVE  Sound(w)
<1>1. FitsMembers(x.reads, Members(x.type)) /\ NewFits(x.reads, x.type)
  BY OtherFits DEF OfNoFamily
<1>2. QED BY <1>1, Ways DEF Sound, OfNoFamily, MadeOrGiven

\* ChatOpenAIClient and its type agree.
LEMMA ChatOpenAIClient_Sound == Sound("ChatOpenAIClient")
<1> DEFINE x == ChatOpenAIClient
<1>1. Wrappers["ChatOpenAIClient"] = x
  BY WrapperTable
<1>2. OfNoFamily(x.type) /\ MadeOrGiven(x)
  BY ChatOpenAIClient_Type, FamilyTypes, ContractTypeIsOther
     DEF OfNoFamily, MadeOrGiven, Families, ConstructorArity, FileSystems, Loggers
<1>3. Known(x.type, x.assembly, << >>) /\ x.assembly \in LoadedAssemblies
  BY ChatOpenAIClient_Type, ChatOpenAI_Known DEF OpenAIType, LoadedAssemblies
<1>4. x.reads = << >> /\ NoUri(<< >>)
  BY DEF ChatOpenAIClient, Wrapper, NoUri
<1>5. QED BY <1>1, <1>2, <1>3, <1>4, NothingToFit, OtherSound

\* ChatOpenAIInvoker and its type agree.
LEMMA ChatOpenAIInvoker_Sound == Sound("ChatOpenAIInvoker")
<1> DEFINE x == ChatOpenAIInvoker
<1>1. Wrappers["ChatOpenAIInvoker"] = x
  BY WrapperTable
<1>2. /\ x.type = Bridge("ChatOpenAI").CreateInvoker /\ x.assembly \in LoadedAssemblies
      /\ x.make = CallStatic(Bridge("ChatOpenAI").type, "CreateInvoker", 0)
  BY ChatOpenAIInvoker_Type, FamilyTypes DEF LoadedAssemblies
<1>3. Known(x.type, x.assembly, << >>) /\ \E members : Known(Bridge("ChatOpenAI").type, x.assembly, members)
  BY ChatOpenAIInvoker_Type, FamilyTypes, ChatOpenAI_Known DEF OpenAIType
<1>4. x.reads = << >>
  BY DEF ChatOpenAIInvoker, Wrapper
<1>5. QED BY <1>1, <1>2, <1>3, <1>4, InvokerSound DEF Families

\* ChatOpenAIProvider and its type agree.
LEMMA ChatOpenAIProvider_Sound == Sound("ChatOpenAIProvider")
<1> DEFINE x == ChatOpenAIProvider
<1>1. Wrappers["ChatOpenAIProvider"] = x
  BY WrapperTable
<1>2. /\ x.type = Bridge("ChatOpenAI").CreateProvider /\ x.assembly \in LoadedAssemblies
      /\ x.make = CallStatic(Bridge("ChatOpenAI").type, "CreateProvider", 0)
  BY ChatOpenAIProvider_Type, FamilyTypes DEF LoadedAssemblies
<1>3. Known(x.type, x.assembly, << >>) /\ \E members : Known(Bridge("ChatOpenAI").type, x.assembly, members)
  BY ChatOpenAIProvider_Type, FamilyTypes, ChatOpenAI_Known DEF OpenAIType
<1>4. x.reads = Identity
  BY DEF ChatOpenAIProvider, Wrapper
<1>5. QED BY <1>1, <1>2, <1>3, <1>4, ProviderSound DEF Families

\* ChatOpenAISettings and its type agree.
LEMMA ChatOpenAISettings_Sound == Sound("ChatOpenAISettings")
<1> DEFINE x == ChatOpenAISettings
<1>1. Wrappers["ChatOpenAISettings"] = x
  BY WrapperTable
<1>2. x.type = Settings["ChatOpenAI"] /\ x.make = Activate(0) /\ x.assembly \in LoadedAssemblies
  BY ChatOpenAISettings_Type, FamilyTypes DEF LoadedAssemblies
<1>3. Known(x.type, x.assembly, ChatOpenAISettingsType.members)
  BY ChatOpenAISettings_Type, ChatOpenAI_Known DEF OpenAIType
<1>4. QED BY <1>1, <1>2, <1>3, EndpointDefault, ChatOpenAISettings_Fits, ChatOpenAISettingsType_Defaults,
      SettingsSound DEF Families

\* ChatHistoryMessages and its type agree.
LEMMA ChatHistoryMessages_Sound == Sound("ChatHistory")
<1> DEFINE x == ChatHistoryMessages
<1>1. Wrappers["ChatHistory"] = x
  BY WrapperTable
<1>2. OfNoFamily(x.type) /\ MadeOrGiven(x)
  BY ChatHistoryMessages_Type, FamilyTypes, ContractTypeIsOther
     DEF OfNoFamily, MadeOrGiven, Families, ConstructorArity, FileSystems, Loggers
<1>3. Known(x.type, x.assembly, ChatHistoryType.members) /\ x.assembly \in LoadedAssemblies
  BY ChatHistoryMessages_Type, MicrosoftAI_Known DEF LoadedAssemblies
<1>4. NoUri(ChatHistoryType.members)
  BY ChatHistoryType_Declared DEF NoUri
<1>5. QED BY <1>1, <1>2, <1>3, <1>4, ChatHistoryMessages_Fits, OtherSound

\* ChatHistoryInvoker and its type agree.
LEMMA ChatHistoryInvoker_Sound == Sound("ChatHistoryInvoker")
<1> DEFINE x == ChatHistoryInvoker
<1>1. Wrappers["ChatHistoryInvoker"] = x
  BY WrapperTable
<1>2. /\ x.type = Bridge("ChatHistory").CreateInvoker /\ x.assembly \in LoadedAssemblies
      /\ x.make = CallStatic(Bridge("ChatHistory").type, "CreateInvoker", 0)
  BY ChatHistoryInvoker_Type, FamilyTypes DEF LoadedAssemblies
<1>3. Known(x.type, x.assembly, << >>) /\ \E members : Known(Bridge("ChatHistory").type, x.assembly, members)
  BY ChatHistoryInvoker_Type, FamilyTypes, ChatHistory_Known DEF HistoryType
<1>4. x.reads = << >>
  BY DEF ChatHistoryInvoker, Wrapper
<1>5. QED BY <1>1, <1>2, <1>3, <1>4, InvokerSound DEF Families

\* ChatHistoryProvider and its type agree.
LEMMA ChatHistoryProvider_Sound == Sound("ChatHistoryProvider")
<1> DEFINE x == ChatHistoryProvider
<1>1. Wrappers["ChatHistoryProvider"] = x
  BY WrapperTable
<1>2. /\ x.type = Bridge("ChatHistory").CreateProvider /\ x.assembly \in LoadedAssemblies
      /\ x.make = CallStatic(Bridge("ChatHistory").type, "CreateProvider", 0)
  BY ChatHistoryProvider_Type, FamilyTypes DEF LoadedAssemblies
<1>3. Known(x.type, x.assembly, << >>) /\ \E members : Known(Bridge("ChatHistory").type, x.assembly, members)
  BY ChatHistoryProvider_Type, FamilyTypes, ChatHistory_Known DEF HistoryType
<1>4. x.reads = Identity
  BY DEF ChatHistoryProvider, Wrapper
<1>5. QED BY <1>1, <1>2, <1>3, <1>4, ProviderSound DEF Families

\* ChatHistoryRecord and its type agree.
LEMMA ChatHistoryRecord_Sound == Sound("ChatHistoryRecord")
<1> DEFINE x == ChatHistoryRecord
<1>1. Wrappers["ChatHistoryRecord"] = x
  BY WrapperTable
<1>2. OfNoFamily(x.type) /\ MadeOrGiven(x)
  BY ChatHistoryRecord_Type, FamilyTypes, ContractTypeIsOther
     DEF OfNoFamily, MadeOrGiven, Families, ConstructorArity, FileSystems, Loggers
<1>3. Known(x.type, x.assembly, ChatHistoryRecordType.members) /\ x.assembly \in LoadedAssemblies
  BY ChatHistoryRecord_Type, ChatHistory_Known DEF HistoryType, LoadedAssemblies
<1>4. NoUri(ChatHistoryRecordType.members)
  BY ChatHistoryRecordType_Declared DEF NoUri
<1>5. QED BY <1>1, <1>2, <1>3, <1>4, ChatHistoryRecord_Fits, OtherSound

\* ChatHistorySettings and its type agree.
LEMMA ChatHistorySettings_Sound == Sound("ChatHistorySettings")
<1> DEFINE x == ChatHistorySettings
<1>1. Wrappers["ChatHistorySettings"] = x
  BY WrapperTable
<1>2. x.type = Settings["ChatHistory"] /\ x.make = Activate(0) /\ x.assembly \in LoadedAssemblies
  BY ChatHistorySettings_Type, FamilyTypes DEF LoadedAssemblies
<1>3. Known(x.type, x.assembly, ChatHistorySettingsType.members)
  BY ChatHistorySettings_Type, ChatHistory_Known DEF HistoryType
<1>4. NoUri(ChatHistorySettingsType.members)
  BY ChatHistorySettingsType_Declared DEF NoUri
<1>5. QED BY <1>1, <1>2, <1>3, <1>4, ChatHistorySettings_Fits, ChatHistorySettingsType_Defaults, SettingsSound
      DEF Families, NoUri

\* CudaComputeInvoker and its type agree.
LEMMA CudaComputeInvoker_Sound == Sound("CudaComputeInvoker")
<1> DEFINE x == CudaComputeInvoker
<1>1. Wrappers["CudaComputeInvoker"] = x
  BY WrapperTable
<1>2. /\ x.type = Bridge("CudaCompute").CreateInvoker /\ x.assembly \in LoadedAssemblies
      /\ x.make = CallStatic(Bridge("CudaCompute").type, "CreateInvoker", 0)
  BY CudaComputeInvoker_Type, FamilyTypes DEF LoadedAssemblies
<1>3. Known(x.type, x.assembly, << >>) /\ \E members : Known(Bridge("CudaCompute").type, x.assembly, members)
  BY CudaComputeInvoker_Type, FamilyTypes, CudaCompute_Known DEF CudaType
<1>4. x.reads = << >>
  BY DEF CudaComputeInvoker, Wrapper
<1>5. QED BY <1>1, <1>2, <1>3, <1>4, InvokerSound DEF Families

\* CudaComputeProvider and its type agree.
LEMMA CudaComputeProvider_Sound == Sound("CudaComputeProvider")
<1> DEFINE x == CudaComputeProvider
<1>1. Wrappers["CudaComputeProvider"] = x
  BY WrapperTable
<1>2. /\ x.type = Bridge("CudaCompute").CreateProvider /\ x.assembly \in LoadedAssemblies
      /\ x.make = CallStatic(Bridge("CudaCompute").type, "CreateProvider", 0)
  BY CudaComputeProvider_Type, FamilyTypes DEF LoadedAssemblies
<1>3. Known(x.type, x.assembly, << >>) /\ \E members : Known(Bridge("CudaCompute").type, x.assembly, members)
  BY CudaComputeProvider_Type, FamilyTypes, CudaCompute_Known DEF CudaType
<1>4. x.reads = Identity
  BY DEF CudaComputeProvider, Wrapper
<1>5. QED BY <1>1, <1>2, <1>3, <1>4, ProviderSound DEF Families

\* CudaComputeSettings and its type agree.
LEMMA CudaComputeSettings_Sound == Sound("CudaComputeSettings")
<1> DEFINE x == CudaComputeSettings
<1>1. Wrappers["CudaComputeSettings"] = x
  BY WrapperTable
<1>2. x.type = Settings["CudaCompute"] /\ x.make = Activate(0) /\ x.assembly \in LoadedAssemblies
  BY CudaComputeSettings_Type, FamilyTypes DEF LoadedAssemblies
<1>3. Known(x.type, x.assembly, CudaComputeSettingsType.members)
  BY CudaComputeSettings_Type, CudaCompute_Known DEF CudaType
<1>4. NoUri(CudaComputeSettingsType.members)
  BY CudaComputeSettingsType_Declared DEF NoUri
<1>5. QED BY <1>1, <1>2, <1>3, <1>4, CudaComputeSettings_Fits, CudaComputeSettingsType_Defaults, SettingsSound
      DEF Families, NoUri

\* DynamicPipelineCompilerInvoker and its type agree.
LEMMA DynamicPipelineCompilerInvoker_Sound == Sound("DynamicPipelineCompilerInvoker")
<1> DEFINE x == DynamicPipelineCompilerInvoker
<1>1. Wrappers["DynamicPipelineCompilerInvoker"] = x
  BY WrapperTable
<1>2. /\ x.type = Bridge("DynamicPipelineCompiler").CreateInvoker /\ x.assembly \in LoadedAssemblies
      /\ x.make = CallStatic(Bridge("DynamicPipelineCompiler").type, "CreateInvoker", 0)
  BY DynamicPipelineCompilerInvoker_Type, FamilyTypes DEF LoadedAssemblies
<1>3. Known(x.type, x.assembly, << >>) /\ \E members : Known(Bridge("DynamicPipelineCompiler").type, x.assembly,
      members)
  BY DynamicPipelineCompilerInvoker_Type, FamilyTypes, DynamicPipelineCompiler_Known DEF PipelineType
<1>4. x.reads = << >>
  BY DEF DynamicPipelineCompilerInvoker, Wrapper
<1>5. QED BY <1>1, <1>2, <1>3, <1>4, InvokerSound DEF Families

\* DynamicPipelineCompilerProvider and its type agree.
LEMMA DynamicPipelineCompilerProvider_Sound == Sound("DynamicPipelineCompilerProvider")
<1> DEFINE x == DynamicPipelineCompilerProvider
<1>1. Wrappers["DynamicPipelineCompilerProvider"] = x
  BY WrapperTable
<1>2. /\ x.type = Bridge("DynamicPipelineCompiler").CreateProvider /\ x.assembly \in LoadedAssemblies
      /\ x.make = CallStatic(Bridge("DynamicPipelineCompiler").type, "CreateProvider", 0)
  BY DynamicPipelineCompilerProvider_Type, FamilyTypes DEF LoadedAssemblies
<1>3. Known(x.type, x.assembly, << >>) /\ \E members : Known(Bridge("DynamicPipelineCompiler").type, x.assembly,
      members)
  BY DynamicPipelineCompilerProvider_Type, FamilyTypes, DynamicPipelineCompiler_Known DEF PipelineType
<1>4. x.reads = Identity
  BY DEF DynamicPipelineCompilerProvider, Wrapper
<1>5. QED BY <1>1, <1>2, <1>3, <1>4, ProviderSound DEF Families

\* DynamicPipelineCompilerSettings and its type agree.
LEMMA DynamicPipelineCompilerSettings_Sound == Sound("DynamicPipelineCompilerSettings")
<1> DEFINE x == DynamicPipelineCompilerSettings
<1>1. Wrappers["DynamicPipelineCompilerSettings"] = x
  BY WrapperTable
<1>2. x.type = Settings["DynamicPipelineCompiler"] /\ x.make = Activate(0) /\ x.assembly \in LoadedAssemblies
  BY DynamicPipelineCompilerSettings_Type, FamilyTypes DEF LoadedAssemblies
<1>3. Known(x.type, x.assembly, DynamicPipelineCompilerSettingsType.members)
  BY DynamicPipelineCompilerSettings_Type, DynamicPipelineCompiler_Known DEF PipelineType
<1>4. NoUri(DynamicPipelineCompilerSettingsType.members)
  BY DynamicPipelineCompilerSettingsType_Declared DEF NoUri
<1>5. QED BY <1>1, <1>2, <1>3, <1>4, DynamicPipelineCompilerSettings_Fits,
      DynamicPipelineCompilerSettingsType_Defaults, SettingsSound DEF Families, NoUri

\* LocalLlmInvoker and its type agree.
LEMMA LocalLlmInvoker_Sound == Sound("LocalLlmInvoker")
<1> DEFINE x == LocalLlmInvoker
<1>1. Wrappers["LocalLlmInvoker"] = x
  BY WrapperTable
<1>2. /\ x.type = Bridge("LocalLlm").CreateInvoker /\ x.assembly \in LoadedAssemblies
      /\ x.make = CallStatic(Bridge("LocalLlm").type, "CreateInvoker", 0)
  BY LocalLlmInvoker_Type, FamilyTypes DEF LoadedAssemblies
<1>3. Known(x.type, x.assembly, << >>) /\ \E members : Known(Bridge("LocalLlm").type, x.assembly, members)
  BY LocalLlmInvoker_Type, FamilyTypes, LocalLlm_Known DEF LlmType
<1>4. x.reads = << >>
  BY DEF LocalLlmInvoker, Wrapper
<1>5. QED BY <1>1, <1>2, <1>3, <1>4, InvokerSound DEF Families

\* LocalLlmProvider and its type agree.
LEMMA LocalLlmProvider_Sound == Sound("LocalLlmProvider")
<1> DEFINE x == LocalLlmProvider
<1>1. Wrappers["LocalLlmProvider"] = x
  BY WrapperTable
<1>2. /\ x.type = Bridge("LocalLlm").CreateProvider /\ x.assembly \in LoadedAssemblies
      /\ x.make = CallStatic(Bridge("LocalLlm").type, "CreateProvider", 0)
  BY LocalLlmProvider_Type, FamilyTypes DEF LoadedAssemblies
<1>3. Known(x.type, x.assembly, << >>) /\ \E members : Known(Bridge("LocalLlm").type, x.assembly, members)
  BY LocalLlmProvider_Type, FamilyTypes, LocalLlm_Known DEF LlmType
<1>4. x.reads = Identity
  BY DEF LocalLlmProvider, Wrapper
<1>5. QED BY <1>1, <1>2, <1>3, <1>4, ProviderSound DEF Families

\* LocalLlmSettings and its type agree.
LEMMA LocalLlmSettings_Sound == Sound("LocalLlmSettings")
<1> DEFINE x == LocalLlmSettings
<1>1. Wrappers["LocalLlmSettings"] = x
  BY WrapperTable
<1>2. x.type = Settings["LocalLlm"] /\ x.make = Activate(0) /\ x.assembly \in LoadedAssemblies
  BY LocalLlmSettings_Type, FamilyTypes DEF LoadedAssemblies
<1>3. Known(x.type, x.assembly, LocalLlmSettingsType.members)
  BY LocalLlmSettings_Type, LocalLlm_Known DEF LlmType
<1>4. NoUri(LocalLlmSettingsType.members)
  BY LocalLlmSettingsType_Declared DEF NoUri
<1>5. QED BY <1>1, <1>2, <1>3, <1>4, LocalLlmSettings_Fits, LocalLlmSettingsType_Defaults, SettingsSound
      DEF Families, NoUri

\* MicrosoftAICredential and its type agree.
LEMMA MicrosoftAICredential_Sound == Sound("MicrosoftAICredential")
<1> DEFINE x == MicrosoftAICredential
<1>1. Wrappers["MicrosoftAICredential"] = x
  BY WrapperTable
<1>2. OfNoFamily(x.type)
  BY MicrosoftAICredential_Type, FamilyTypes, ContractTypeIsOther DEF OfNoFamily, Families
<1>3. Known(x.type, x.assembly, OpenAICompatibleCredentialType.members) /\ x.assembly \in LoadedAssemblies
  BY MicrosoftAICredential_Type, MicrosoftAI_Known DEF MicrosoftType, LoadedAssemblies
<1>4. NoUri(OpenAICompatibleCredentialType.members)
  BY OpenAICompatibleCredentialType_Declared DEF NoUri
<1>5. FitsMembers(x.reads, Members(x.type)) /\ NewFits(x.reads, x.type)
  BY <1>2, <1>3, <1>4, MicrosoftAICredential_Fits, OtherFits DEF OfNoFamily
<1>6. x.make.way = "static" /\ MadeByMethod(x)
  <2>1. /\ x.type = MicrosoftType("OpenAICompatibleCredential") /\ x.make.type = x.type
        /\ x.make.method = "Create" /\ x.make.arguments = 4 /\ x.make.way = "static"
    BY MicrosoftAICredential_Type, Ways DEF MicrosoftType
  <2>2. Resolves(x.make.type, x.assembly)
    BY <1>3, <2>1 DEF Known, Resolves
  <2>3. QED BY <2>1, <2>2, Methods, MethodsOfCredential DEF MadeByMethod
<1>7. QED BY <1>1, <1>2, <1>3, <1>5, <1>6 DEF Sound, OfNoFamily

\* MicrosoftAIHealthContext and its type agree.
LEMMA MicrosoftAIHealthContext_Sound == Sound("MicrosoftAIHealthContext")
<1> DEFINE x == MicrosoftAIHealthContext
<1>1. Wrappers["MicrosoftAIHealthContext"] = x
  BY WrapperTable
<1>2. OfNoFamily(x.type) /\ MadeOrGiven(x)
  BY MicrosoftAIHealthContext_Type, FamilyTypes, ContractTypeIsOther
     DEF OfNoFamily, MadeOrGiven, Families, ConstructorArity, FileSystems, Loggers
<1>3. Known(x.type, x.assembly,
      OpenAICompatibleProviderHealthContextType.members) /\ x.assembly \in LoadedAssemblies
  BY MicrosoftAIHealthContext_Type, MicrosoftAI_Known DEF MicrosoftType, LoadedAssemblies
<1>4. NoUri(OpenAICompatibleProviderHealthContextType.members)
  BY OpenAICompatibleProviderHealthContextType_Declared DEF NoUri
<1>5. QED BY <1>1, <1>2, <1>3, <1>4, MicrosoftAIHealthContext_Fits, OtherSound

\* MicrosoftAIProvider and its type agree.
LEMMA MicrosoftAIProvider_Sound == Sound("MicrosoftAIProvider")
<1> DEFINE x == MicrosoftAIProvider
<1>1. Wrappers["MicrosoftAIProvider"] = x
  BY WrapperTable
<1>2. OfNoFamily(x.type) /\ MadeOrGiven(x)
  BY MicrosoftAIProvider_Type, FamilyTypes, ContractTypeIsOther
     DEF OfNoFamily, MadeOrGiven, Families, ConstructorArity, FileSystems, Loggers
<1>3. Known(x.type, x.assembly, OpenAICompatibleProviderType.members) /\ x.assembly \in LoadedAssemblies
  BY MicrosoftAIProvider_Type, MicrosoftAI_Known DEF MicrosoftType, LoadedAssemblies
<1>4. NoUri(OpenAICompatibleProviderType.members)
  BY OpenAICompatibleProviderType_Declared DEF NoUri
<1>5. QED BY <1>1, <1>2, <1>3, <1>4, MicrosoftAIProvider_Fits, OtherSound

\* MicrosoftAIProviderCapabilities and its type agree.
LEMMA MicrosoftAIProviderCapabilities_Sound == Sound("MicrosoftAIProviderCapabilities")
<1> DEFINE x == MicrosoftAIProviderCapabilities
<1>1. Wrappers["MicrosoftAIProviderCapabilities"] = x
  BY WrapperTable
<1>2. OfNoFamily(x.type) /\ MadeOrGiven(x)
  BY MicrosoftAIProviderCapabilities_Type, FamilyTypes, ContractTypeIsOther
     DEF OfNoFamily, MadeOrGiven, Families, ConstructorArity, FileSystems, Loggers
<1>3. Known(x.type, x.assembly,
      OpenAICompatibleProviderCapabilitiesType.members) /\ x.assembly \in LoadedAssemblies
  BY MicrosoftAIProviderCapabilities_Type, MicrosoftAI_Known DEF MicrosoftType, LoadedAssemblies
<1>4. Members(x.type) = OpenAICompatibleProviderCapabilitiesType.members ++ CapabilitiesMembers
  BY <1>2, <1>3, MembersOf DEF ProviderTypes, OfNoFamily
<1>5. NoUri(OpenAICompatibleProviderCapabilitiesType.members) /\ NoUri(CapabilitiesMembers)
  BY OpenAICompatibleProviderCapabilitiesType_Declared, CapabilitiesMembersDeclared DEF NoUri
<1>6. FitsMembers(x.reads, Members(x.type)) /\ NewFits(x.reads, x.type)
  <2>1. FitsMembers(x.reads, Members(x.type))
    BY <1>4, MicrosoftAIProviderCapabilities_Fits
  <2>2. \A m \in DOMAIN Members(x.type) : Members(x.type)[m] # "Uri"
    BY <1>4, <1>5 DEF NoUri, ++
  <2>3. \A a \in DOMAIN x.reads : Members(x.type)[x.reads[a].member] # "Uri"
    BY <2>1, <2>2 DEF FitsMembers, Fitting
  <2>4. QED BY <1>2, <2>1, <2>3, FamilyOfType, NewPlain DEF OfNoFamily
<1>7. QED BY <1>1, <1>2, <1>3, <1>6, Ways DEF Sound, OfNoFamily, MadeOrGiven

\* MicrosoftAIProviderOptions and its type agree.
LEMMA MicrosoftAIProviderOptions_Sound == Sound("MicrosoftAIProviderOptions")
<1> DEFINE x == MicrosoftAIProviderOptions
<1>1. Wrappers["MicrosoftAIProviderOptions"] = x
  BY WrapperTable
<1>2. OfNoFamily(x.type) /\ MadeOrGiven(x)
  BY MicrosoftAIProviderOptions_Type, FamilyTypes, ContractTypeIsOther
     DEF OfNoFamily, MadeOrGiven, Families, ConstructorArity, FileSystems, Loggers
<1>3. Known(x.type, x.assembly, OpenAICompatibleProviderOptionsType.members) /\ x.assembly \in LoadedAssemblies
  BY MicrosoftAIProviderOptions_Type, MicrosoftAI_Known DEF MicrosoftType, LoadedAssemblies
<1>4. NoUri(OpenAICompatibleProviderOptionsType.members)
  BY OpenAICompatibleProviderOptionsType_Declared DEF NoUri
<1>5. QED BY <1>1, <1>2, <1>3, <1>4, MicrosoftAIProviderOptions_Fits, OtherSound

\* MicrosoftAIProviderOptionsValidator and its type agree.
LEMMA MicrosoftAIProviderOptionsValidator_Sound == Sound("MicrosoftAIProviderOptionsValidator")
<1> DEFINE x == MicrosoftAIProviderOptionsValidator
<1>1. Wrappers["MicrosoftAIProviderOptionsValidator"] = x
  BY WrapperTable
<1>2. OfNoFamily(x.type) /\ MadeOrGiven(x)
  BY MicrosoftAIProviderOptionsValidator_Type, FamilyTypes, ContractTypeIsOther
     DEF OfNoFamily, MadeOrGiven, Families, ConstructorArity, FileSystems, Loggers
<1>3. Known(x.type, x.assembly,
      OpenAICompatibleProviderOptionsValidatorType.members) /\ x.assembly \in LoadedAssemblies
  BY MicrosoftAIProviderOptionsValidator_Type, MicrosoftAI_Known DEF MicrosoftType, LoadedAssemblies
<1>4. NoUri(OpenAICompatibleProviderOptionsValidatorType.members)
  BY OpenAICompatibleProviderOptionsValidatorType_Declared DEF NoUri
<1>5. QED BY <1>1, <1>2, <1>3, <1>4, MicrosoftAIProviderOptionsValidator_Fits, OtherSound

\* MicrosoftAIResponseMapper and its type agree.
LEMMA MicrosoftAIResponseMapper_Sound == Sound("MicrosoftAIResponseMapper")
<1> DEFINE x == MicrosoftAIResponseMapper
<1>1. Wrappers["MicrosoftAIResponseMapper"] = x
  BY WrapperTable
<1>2. OfNoFamily(x.type) /\ MadeOrGiven(x)
  BY MicrosoftAIResponseMapper_Type, FamilyTypes, ContractTypeIsOther
     DEF OfNoFamily, MadeOrGiven, Families, ConstructorArity, FileSystems, Loggers
<1>3. Known(x.type, x.assembly, OpenAICompatibleResponseMapperType.members) /\ x.assembly \in LoadedAssemblies
  BY MicrosoftAIResponseMapper_Type, MicrosoftAI_Known DEF MicrosoftType, LoadedAssemblies
<1>4. NoUri(OpenAICompatibleResponseMapperType.members)
  BY OpenAICompatibleResponseMapperType_Declared DEF NoUri
<1>5. QED BY <1>1, <1>2, <1>3, <1>4, MicrosoftAIResponseMapper_Fits, OtherSound

\* MicrosoftAIResponseProjection and its type agree.
LEMMA MicrosoftAIResponseProjection_Sound == Sound("MicrosoftAIResponseProjection")
<1> DEFINE x == MicrosoftAIResponseProjection
<1>1. Wrappers["MicrosoftAIResponseProjection"] = x
  BY WrapperTable
<1>2. OfNoFamily(x.type) /\ MadeOrGiven(x)
  BY MicrosoftAIResponseProjection_Type, FamilyTypes, ContractTypeIsOther
     DEF OfNoFamily, MadeOrGiven, Families, ConstructorArity, FileSystems, Loggers
<1>3. Known(x.type, x.assembly,
      OpenAICompatibleResponseProjectionType.members) /\ x.assembly \in LoadedAssemblies
  BY MicrosoftAIResponseProjection_Type, MicrosoftAI_Known DEF MicrosoftType, LoadedAssemblies
<1>4. NoUri(OpenAICompatibleResponseProjectionType.members)
  BY OpenAICompatibleResponseProjectionType_Declared DEF NoUri
<1>5. QED BY <1>1, <1>2, <1>3, <1>4, MicrosoftAIResponseProjection_Fits, OtherSound

\* All wrappers are sound.
LEMMA WrappersSound == \A w \in DOMAIN Wrappers : Sound(w)
BY DriversSound, WrapperTable, ChatOpenAIClient_Sound, ChatOpenAIInvoker_Sound,
   ChatOpenAIProvider_Sound, ChatOpenAISettings_Sound, ChatHistoryMessages_Sound,
   ChatHistoryInvoker_Sound, ChatHistoryProvider_Sound, ChatHistoryRecord_Sound,
   ChatHistorySettings_Sound, CudaComputeInvoker_Sound, CudaComputeProvider_Sound,
   CudaComputeSettings_Sound, DynamicPipelineCompilerInvoker_Sound,
   DynamicPipelineCompilerProvider_Sound, DynamicPipelineCompilerSettings_Sound,
   LocalLlmInvoker_Sound, LocalLlmProvider_Sound, LocalLlmSettings_Sound,
   MicrosoftAICredential_Sound, MicrosoftAIHealthContext_Sound, MicrosoftAIProvider_Sound,
   MicrosoftAIProviderCapabilities_Sound, MicrosoftAIProviderOptions_Sound,
   MicrosoftAIProviderOptionsValidator_Sound, MicrosoftAIResponseMapper_Sound,
   MicrosoftAIResponseProjection_Sound

-----------------------------------------------------------------------------
(* What the caller holds.                                                  *)

\* What is held is an object of the type its wrapper is for, whose members
\* have values of the types declared, as far as the wrapper reads them.
HeldFits(h) ==
  /\ h.wrapper \in DOMAIN Wrappers
  /\ h.type = Wrappers[h.wrapper].type
  /\ DOMAIN h.members = DOMAIN Members(h.type)
  /\ \A a \in DOMAIN Wrappers[h.wrapper].reads :
       LET m == Wrappers[h.wrapper].reads[a].member IN
       m # "ToMetadata" => Fits(h.members[m], Members(h.type)[m])

\* The arguments that a capability passes.
Passed(f, given) == [i \in DOMAIN Capabilities[f].fields |-> given[Capabilities[f].fields[i]]]

\* A contract is the one of its arguments.
ContractFits(c) ==
  /\ c.family \in Families
  /\ DOMAIN c.given = ToSet(Capabilities[c.family].fields)
  /\ c.object = [type |-> CapabilityContract.type,
                 members |-> ToContract(c.family, Passed(c.family, c.given))]

InHands ==
  /\ held = << >> \/ \E h \in ToSet(held) : held = << h >> /\ HeldFits(h)
  /\ contract = << >> \/ \E c \in ToSet(contract) : contract = << c >> /\ ContractFits(c)

\* Sequences of one element, and of none.
LEMMA SingleElements ==
  /\ \A x : ToSet(<< x >>) = {x} /\ Len(<< x >>) = 1 /\ Head(<< x >>) = x /\ << x >> # << >>
  /\ ToSet(<< >>) = {} /\ Len(<< >>) = 0
BY DEF ToSet

\* A new object fits.
LEMMA NewObjectFits ==
  ASSUME NEW w \in DOMAIN Wrappers
  PROVE  HeldFits([wrapper |-> w, type |-> Wrappers[w].type, members |-> NewMembers(Wrappers[w].type)])
<1> DEFINE h == [wrapper |-> w, type |-> Wrappers[w].type, members |-> NewMembers(Wrappers[w].type)]
<1>1. h.wrapper = w /\ h.type = Wrappers[w].type /\ h.members = NewMembers(Wrappers[w].type)
  OBVIOUS
<1>2. Sound(w)
  BY WrappersSound
<1>3. NewFits(Wrappers[w].reads, Wrappers[w].type)
  BY <1>2 DEF Sound
<1> HIDE DEF h
<1>4. QED BY <1>1, <1>3, NewDomain DEF HeldFits, NewFits, h

\* Nor does a value of its type make a member misfit.
LEMMA GivenObjectFits ==
  ASSUME NEW w \in DOMAIN Wrappers, NEW a \in DOMAIN Wrappers[w].reads,
         NEW value \in MemberValues(Members(Wrappers[w].type)[Wrappers[w].reads[a].member])
  PROVE  HeldFits([wrapper |-> w, type |-> Wrappers[w].type,
                   members |-> [NewMembers(Wrappers[w].type) EXCEPT ![Wrappers[w].reads[a].member] = value]])
<1> DEFINE type == Wrappers[w].type
           m == Wrappers[w].reads[a].member
           members == [NewMembers(type) EXCEPT ![m] = value]
           h == [wrapper |-> w, type |-> type, members |-> members]
<1>1. h.wrapper = w /\ h.type = type /\ h.members = members
  OBVIOUS
<1>2. Sound(w)
  BY WrappersSound
<1>3. NewFits(Wrappers[w].reads, type) /\ FitsMembers(Wrappers[w].reads, Members(type))
  BY <1>2 DEF Sound
<1>4. DOMAIN members = DOMAIN Members(type)
  BY NewDomain
<1>5. Fits(value, Members(type)[m])
  BY ValuesFit
<1>6. m \in DOMAIN Members(type)
  BY <1>3 DEF FitsMembers, Fitting
<1>7. ASSUME NEW b \in DOMAIN Wrappers[w].reads, Wrappers[w].reads[b].member # "ToMetadata"
      PROVE  Fits(members[Wrappers[w].reads[b].member], Members(type)[Wrappers[w].reads[b].member])
  <2> DEFINE n == Wrappers[w].reads[b].member
  <2>1. n \in DOMAIN NewMembers(type)
    BY <1>3, NewDomain DEF FitsMembers, Fitting
  <2>2. Fits(NewMembers(type)[n], Members(type)[n])
    BY <1>3, <1>7 DEF NewFits
  <2>3. members[n] = IF n = m THEN value ELSE NewMembers(type)[n]
    BY <2>1
  <2>4. QED BY <1>5, <2>2, <2>3
<1> HIDE DEF h, members
<1>8. QED BY <1>1, <1>4, <1>7 DEF HeldFits, h, members

\* The attributes of what is held show its members.
LEMMA AttributeShows ==
  ASSUME NEW h, HeldFits(h), NEW a \in DOMAIN Wrappers[h.wrapper].reads
  PROVE  LET x == Wrappers[h.wrapper]
             v == MemberOf(h, x.reads[a].member)
         IN  /\ Attribute(x, h, a) = Convert(x.reads[a].as, v)
             /\ Shows(Convert(x.reads[a].as, v), v)
             /\ \E declared : Suits(x.reads[a].as, declared)
<1> DEFINE x == Wrappers[h.wrapper]
           m == x.reads[a].member
           v == MemberOf(h, m)
           declared == Members(h.type)[m]
<1>1. Sound(h.wrapper) /\ h.type = x.type
  BY WrappersSound DEF HeldFits
<1>2. Fitting(x.reads[a], Members(h.type))
  BY <1>1 DEF Sound, FitsMembers
<1>3. m \in DOMAIN h.members /\ Suits(x.reads[a].as, declared)
  BY <1>2 DEF HeldFits, Fitting
<1>4. Attribute(x, h, a) = Convert(x.reads[a].as, v)
  BY <1>3 DEF Attribute
<1>5. Shows(Convert(x.reads[a].as, v), v)
  <2>1. CASE m = "ToMetadata"
    <3>1. KindOf(declared) = "map"
      BY <1>2, <2>1, Kinds DEF Fitting
    <3>2. v.kind = "map"
      BY <2>1 DEF MemberOf, Map
    <3>3. QED BY <1>3, <3>1, <3>2, Conversion DEF Fits
  <2>2. CASE m # "ToMetadata"
    <3>1. Fits(v, declared)
      BY <2>2 DEF HeldFits, MemberOf
    <3>2. QED BY <1>3, <3>1, Conversion
  <2>3. QED BY <2>1, <2>2
<1>6. QED BY <1>3, <1>4, <1>5

-----------------------------------------------------------------------------
(* Contracts.                                                              *)

\* The settings wrapper of a family.
SettingsOf(f) == CASE f = "ChatOpenAI" -> ChatOpenAISettings
                   [] f = "ChatHistory" -> ChatHistorySettings
                   [] f = "CudaCompute" -> CudaComputeSettings
                   [] f = "DynamicPipelineCompiler" -> DynamicPipelineCompilerSettings
                   [] f = "LocalLlm" -> LocalLlmSettings

\* Texts and URIs.
LEMMA TextKinds ==
  \A t : /\ Text(t).kind = "string" /\ Text(t).items.value = t /\ ~IsNull(Text(t))
        /\ Managed("Uri", t).kind = "Uri"
        /\ \A k : Managed(k, t).kind = k /\ Managed(k, t).items.value = t
BY DEF Text, Managed, IsNull

\* The i-th argument of a capability is passed to the i-th parameter of its
\* bridge; both stand for the same member of the settings, a text or a URI.
CarriedAt(f, i) ==
  LET m == Parameters(f)[i]
      name == Capabilities[f].fields[i]
  IN  /\ m \in DOMAIN Defaults(f) /\ m # "ToMetadata" /\ m # "ApiKey"
      /\ Defaults(f)[m].kind \in {"string", "Uri"}
      /\ name \in DOMAIN SettingsOf(f).reads
      /\ SettingsOf(f).reads[name] = Str(m)
      /\ Members(Settings[f])[m] \in {"string", "Uri"}

Carried(f) ==
  LET c == Capabilities[f] IN
  /\ Len(c.fields) \in Nat /\ DOMAIN c.fields = 1..Len(c.fields)
  /\ Len(Parameters(f)) = Len(c.fields) /\ DOMAIN Parameters(f) = DOMAIN c.fields
  /\ \A i, j \in DOMAIN c.fields : Parameters(f)[i] = Parameters(f)[j] => i = j
  /\ \A i \in DOMAIN c.fields : CarriedAt(f, i)

\* ChatOpenAI: what is passed.
LEMMA ChatOpenAI_Passing ==
  /\ Capabilities["ChatOpenAI"].fields = << "provider_id", "model", "endpoint" >>
  /\ Capabilities["ChatOpenAI"].bridge = Bridge("ChatOpenAI").type
  /\ Capabilities["ChatOpenAI"].assembly = "ChatOpenAIProvider"
  /\ Parameters("ChatOpenAI") = << "ProviderId", "Model", "Endpoint" >>
  /\ SettingsOf("ChatOpenAI") = ChatOpenAISettings
<1>1. Capabilities["ChatOpenAI"] = ChatOpenAICapability
  BY DEF Capabilities
<1>2. /\ ChatOpenAICapability.fields = << "provider_id", "model", "endpoint" >>
      /\ ChatOpenAICapability.bridge = Bridge("ChatOpenAI").type
      /\ ChatOpenAICapability.assembly = "ChatOpenAIProvider"
  BY FamilyTypes DEF ChatOpenAICapability, Capability
<1>3. Bridge("ChatOpenAI") = ChatOpenAIPythonBridge
  BY ZenonT(30) DEF Bridge
<1>4. Parameters("ChatOpenAI") = << "ProviderId", "Model", "Endpoint" >>
  BY <1>3 DEF Parameters, ChatOpenAIPythonBridge, PythonBridge
<1>5. SettingsOf("ChatOpenAI") = ChatOpenAISettings
  BY ZenonT(30) DEF SettingsOf
<1>6. QED BY <1>1, <1>2, <1>4, <1>5

\* ChatOpenAI: every argument of a contract is carried into the settings.
LEMMA ChatOpenAI_Carried == Carried("ChatOpenAI")
<1>1. /\ "ProviderId" \in DOMAIN Defaults("ChatOpenAI")
      /\ Defaults("ChatOpenAI")["ProviderId"].kind \in {"string", "Uri"}
      /\ "Model" \in DOMAIN Defaults("ChatOpenAI") /\ Defaults("ChatOpenAI")["Model"].kind \in {"string", "Uri"}
      /\ "Endpoint" \in DOMAIN Defaults("ChatOpenAI")
      /\ Defaults("ChatOpenAI")["Endpoint"].kind \in {"string", "Uri"}
  <2>1. Defaults("ChatOpenAI") = ChatOpenAIDefaults
    BY ChatOpenAI_DefaultSettings
  <2>2. /\ "ProviderId" \in DOMAIN ChatOpenAIDefaults /\ ChatOpenAIDefaults["ProviderId"].kind = "string"
        /\ "Model" \in DOMAIN ChatOpenAIDefaults /\ ChatOpenAIDefaults["Model"].kind = "string"
        /\ "Endpoint" \in DOMAIN ChatOpenAIDefaults /\ ChatOpenAIDefaults["Endpoint"].kind = "Uri"
    BY DEF ChatOpenAIDefaults, Text, Managed
  <2>3. QED BY <2>1, <2>2
<1>2. /\ "provider_id" \in DOMAIN SettingsOf("ChatOpenAI").reads
      /\ SettingsOf("ChatOpenAI").reads["provider_id"] = Str("ProviderId")
      /\ "model" \in DOMAIN SettingsOf("ChatOpenAI").reads
      /\ SettingsOf("ChatOpenAI").reads["model"] = Str("Model")
      /\ "endpoint" \in DOMAIN SettingsOf("ChatOpenAI").reads
      /\ SettingsOf("ChatOpenAI").reads["endpoint"] = Str("Endpoint")
  <2>1. SettingsOf("ChatOpenAI") = ChatOpenAISettings
    BY ChatOpenAI_Passing
  <2>2. QED BY <2>1 DEF ChatOpenAISettings, Wrapper, Identity, Metadata, ++
<1>3. /\ Members(Settings["ChatOpenAI"])["ProviderId"] \in {"string", "Uri"}
      /\ Members(Settings["ChatOpenAI"])["Model"] \in {"string", "Uri"}
      /\ Members(Settings["ChatOpenAI"])["Endpoint"] \in {"string", "Uri"}
  <2>1. Known(Settings["ChatOpenAI"], "ChatOpenAIProvider", ChatOpenAISettingsType.members)
    BY ChatOpenAI_Known, FamilyTypes DEF OpenAIType
  <2>2. PICK more : Members(Settings["ChatOpenAI"]) = ChatOpenAISettingsType.members ++ more
    BY <2>1, MembersOf, ContractTypeIsOther DEF Families
  <2>3. \A m \in DOMAIN ChatOpenAISettingsType.members :
          Members(Settings["ChatOpenAI"])[m] = ChatOpenAISettingsType.members[m]
    BY <2>2 DEF ++
  <2>4. QED BY <2>3, ChatOpenAISettingsType_Declared
<1>4. /\ Len(Capabilities["ChatOpenAI"].fields) = 3 /\ Len(Parameters("ChatOpenAI")) = 3
      /\ DOMAIN Capabilities["ChatOpenAI"].fields = 1..3 /\ DOMAIN Parameters("ChatOpenAI") = 1..3
      /\ Capabilities["ChatOpenAI"].fields[1] = "provider_id" /\ Parameters("ChatOpenAI")[1] = "ProviderId"
      /\ Capabilities["ChatOpenAI"].fields[2] = "model" /\ Parameters("ChatOpenAI")[2] = "Model"
      /\ Capabilities["ChatOpenAI"].fields[3] = "endpoint" /\ Parameters("ChatOpenAI")[3] = "Endpoint"
  <2> DEFINE s == << "provider_id", "model", "endpoint" >>
             t == << "ProviderId", "Model", "Endpoint" >>
  <2>1. Len(s) = 3 /\ Len(t) = 3 /\ DOMAIN s = 1..3 /\ DOMAIN t = 1..3
    OBVIOUS
  <2>2. /\ s[1] = "provider_id" /\ t[1] = "ProviderId"
        /\ s[2] = "model" /\ t[2] = "Model"
        /\ s[3] = "endpoint" /\ t[3] = "Endpoint"
    OBVIOUS
  <2>3. Capabilities["ChatOpenAI"].fields = s /\ Parameters("ChatOpenAI") = t
    BY ChatOpenAI_Passing
  <2> HIDE DEF s, t
  <2>4. QED BY <2>1, <2>2, <2>3
<1>5. CarriedAt("ChatOpenAI", 1)
  BY <1>1, <1>2, <1>3, <1>4 DEF CarriedAt
<1>6. CarriedAt("ChatOpenAI", 2)
  BY <1>1, <1>2, <1>3, <1>4 DEF CarriedAt
<1>7. CarriedAt("ChatOpenAI", 3)
  BY <1>1, <1>2, <1>3, <1>4 DEF CarriedAt
<1>8. \A i \in 1..3 : i = 1 \/ i = 2 \/ i = 3
  OBVIOUS
<1>9. \A i, j \in DOMAIN Capabilities["ChatOpenAI"].fields :
        Parameters("ChatOpenAI")[i] = Parameters("ChatOpenAI")[j] => i = j
  BY <1>4, <1>8
<1>10. QED BY <1>4, <1>5, <1>6, <1>7, <1>8, <1>9 DEF Carried

\* ChatHistory: what is passed.
LEMMA ChatHistory_Passing ==
  /\ Capabilities["ChatHistory"].fields = << "provider_id" >>
  /\ Capabilities["ChatHistory"].bridge = Bridge("ChatHistory").type
  /\ Capabilities["ChatHistory"].assembly = "ChatHistoryProvider"
  /\ Parameters("ChatHistory") = << "ProviderId" >>
  /\ SettingsOf("ChatHistory") = ChatHistorySettings
<1>1. Capabilities["ChatHistory"] = ChatHistoryCapability
  BY DEF Capabilities
<1>2. /\ ChatHistoryCapability.fields = << "provider_id" >>
      /\ ChatHistoryCapability.bridge = Bridge("ChatHistory").type
      /\ ChatHistoryCapability.assembly = "ChatHistoryProvider"
  BY FamilyTypes DEF ChatHistoryCapability, Capability
<1>3. Bridge("ChatHistory") = ChatHistoryPythonBridge
  BY ZenonT(30) DEF Bridge
<1>4. Parameters("ChatHistory") = << "ProviderId" >>
  BY <1>3 DEF Parameters, ChatHistoryPythonBridge, PythonBridge
<1>5. SettingsOf("ChatHistory") = ChatHistorySettings
  BY ZenonT(30) DEF SettingsOf
<1>6. QED BY <1>1, <1>2, <1>4, <1>5

\* ChatHistory: every argument of a contract is carried into the settings.
LEMMA ChatHistory_Carried == Carried("ChatHistory")
<1>1. /\ "ProviderId" \in DOMAIN Defaults("ChatHistory")
      /\ Defaults("ChatHistory")["ProviderId"].kind \in {"string", "Uri"}
  <2>1. Defaults("ChatHistory") = ChatHistoryDefaults
    BY ChatHistory_DefaultSettings
  <2>2. /\ "ProviderId" \in DOMAIN ChatHistoryDefaults /\ ChatHistoryDefaults["ProviderId"].kind = "string"
    BY DEF ChatHistoryDefaults, Text, Managed
  <2>3. QED BY <2>1, <2>2
<1>2. /\ "provider_id" \in DOMAIN SettingsOf("ChatHistory").reads
      /\ SettingsOf("ChatHistory").reads["provider_id"] = Str("ProviderId")
  <2>1. SettingsOf("ChatHistory") = ChatHistorySettings
    BY ChatHistory_Passing
  <2>2. QED BY <2>1 DEF ChatHistorySettings, Wrapper, Identity, Metadata, ++
<1>3. /\ Members(Settings["ChatHistory"])["ProviderId"] \in {"string", "Uri"}
  <2>1. Known(Settings["ChatHistory"], "ChatHistoryProvider", ChatHistorySettingsType.members)
    BY ChatHistory_Known, FamilyTypes DEF HistoryType
  <2>2. PICK more : Members(Settings["ChatHistory"]) = ChatHistorySettingsType.members ++ more
    BY <2>1, MembersOf, ContractTypeIsOther DEF Families
  <2>3. \A m \in DOMAIN ChatHistorySettingsType.members :
          Members(Settings["ChatHistory"])[m] = ChatHistorySettingsType.members[m]
    BY <2>2 DEF ++
  <2>4. QED BY <2>3, ChatHistorySettingsType_Declared
<1>4. /\ Len(Capabilities["ChatHistory"].fields) = 1 /\ Len(Parameters("ChatHistory")) = 1
      /\ DOMAIN Capabilities["ChatHistory"].fields = 1..1 /\ DOMAIN Parameters("ChatHistory") = 1..1
      /\ Capabilities["ChatHistory"].fields[1] = "provider_id" /\ Parameters("ChatHistory")[1] = "ProviderId"
  <2> DEFINE s == << "provider_id" >>
             t == << "ProviderId" >>
  <2>1. Len(s) = 1 /\ Len(t) = 1 /\ DOMAIN s = 1..1 /\ DOMAIN t = 1..1
    OBVIOUS
  <2>2. /\ s[1] = "provider_id" /\ t[1] = "ProviderId"
    OBVIOUS
  <2>3. Capabilities["ChatHistory"].fields = s /\ Parameters("ChatHistory") = t
    BY ChatHistory_Passing
  <2> HIDE DEF s, t
  <2>4. QED BY <2>1, <2>2, <2>3
<1>5. CarriedAt("ChatHistory", 1)
  BY <1>1, <1>2, <1>3, <1>4 DEF CarriedAt
<1>6. \A i \in 1..1 : i = 1
  OBVIOUS
<1>7. \A i, j \in DOMAIN Capabilities["ChatHistory"].fields :
        Parameters("ChatHistory")[i] = Parameters("ChatHistory")[j] => i = j
  BY <1>4, <1>6
<1>8. QED BY <1>4, <1>5, <1>6, <1>7 DEF Carried

\* CudaCompute: what is passed.
LEMMA CudaCompute_Passing ==
  /\ Capabilities["CudaCompute"].fields = << "provider_id", "device_profile" >>
  /\ Capabilities["CudaCompute"].bridge = Bridge("CudaCompute").type
  /\ Capabilities["CudaCompute"].assembly = "CudaComputeProvider"
  /\ Parameters("CudaCompute") = << "ProviderId", "DeviceProfile" >>
  /\ SettingsOf("CudaCompute") = CudaComputeSettings
<1>1. Capabilities["CudaCompute"] = CudaComputeCapability
  BY DEF Capabilities
<1>2. /\ CudaComputeCapability.fields = << "provider_id", "device_profile" >>
      /\ CudaComputeCapability.bridge = Bridge("CudaCompute").type
      /\ CudaComputeCapability.assembly = "CudaComputeProvider"
  BY FamilyTypes DEF CudaComputeCapability, Capability
<1>3. Bridge("CudaCompute") = CudaComputePythonBridge
  BY ZenonT(30) DEF Bridge
<1>4. Parameters("CudaCompute") = << "ProviderId", "DeviceProfile" >>
  BY <1>3 DEF Parameters, CudaComputePythonBridge, PythonBridge
<1>5. SettingsOf("CudaCompute") = CudaComputeSettings
  BY ZenonT(30) DEF SettingsOf
<1>6. QED BY <1>1, <1>2, <1>4, <1>5

\* CudaCompute: every argument of a contract is carried into the settings.
LEMMA CudaCompute_Carried == Carried("CudaCompute")
<1>1. /\ "ProviderId" \in DOMAIN Defaults("CudaCompute")
      /\ Defaults("CudaCompute")["ProviderId"].kind \in {"string", "Uri"}
      /\ "DeviceProfile" \in DOMAIN Defaults("CudaCompute")
      /\ Defaults("CudaCompute")["DeviceProfile"].kind \in {"string", "Uri"}
  <2>1. Defaults("CudaCompute") = CudaComputeDefaults
    BY CudaCompute_DefaultSettings
  <2>2. /\ "ProviderId" \in DOMAIN CudaComputeDefaults /\ CudaComputeDefaults["ProviderId"].kind = "string"
        /\ "DeviceProfile" \in DOMAIN CudaComputeDefaults
        /\ CudaComputeDefaults["DeviceProfile"].kind = "string"
    BY DEF CudaComputeDefaults, Text, Managed
  <2>3. QED BY <2>1, <2>2
<1>2. /\ "provider_id" \in DOMAIN SettingsOf("CudaCompute").reads
      /\ SettingsOf("CudaCompute").reads["provider_id"] = Str("ProviderId")
      /\ "device_profile" \in DOMAIN SettingsOf("CudaCompute").reads
      /\ SettingsOf("CudaCompute").reads["device_profile"] = Str("DeviceProfile")
  <2>1. SettingsOf("CudaCompute") = CudaComputeSettings
    BY CudaCompute_Passing
  <2>2. QED BY <2>1 DEF CudaComputeSettings, Wrapper, Identity, Metadata, ++
<1>3. /\ Members(Settings["CudaCompute"])["ProviderId"] \in {"string", "Uri"}
      /\ Members(Settings["CudaCompute"])["DeviceProfile"] \in {"string", "Uri"}
  <2>1. Known(Settings["CudaCompute"], "CudaComputeProvider", CudaComputeSettingsType.members)
    BY CudaCompute_Known, FamilyTypes DEF CudaType
  <2>2. PICK more : Members(Settings["CudaCompute"]) = CudaComputeSettingsType.members ++ more
    BY <2>1, MembersOf, ContractTypeIsOther DEF Families
  <2>3. \A m \in DOMAIN CudaComputeSettingsType.members :
          Members(Settings["CudaCompute"])[m] = CudaComputeSettingsType.members[m]
    BY <2>2 DEF ++
  <2>4. QED BY <2>3, CudaComputeSettingsType_Declared
<1>4. /\ Len(Capabilities["CudaCompute"].fields) = 2 /\ Len(Parameters("CudaCompute")) = 2
      /\ DOMAIN Capabilities["CudaCompute"].fields = 1..2 /\ DOMAIN Parameters("CudaCompute") = 1..2
      /\ Capabilities["CudaCompute"].fields[1] = "provider_id" /\ Parameters("CudaCompute")[1] = "ProviderId"
      /\ Capabilities["CudaCompute"].fields[2] = "device_profile"
      /\ Parameters("CudaCompute")[2] = "DeviceProfile"
  <2> DEFINE s == << "provider_id", "device_profile" >>
             t == << "ProviderId", "DeviceProfile" >>
  <2>1. Len(s) = 2 /\ Len(t) = 2 /\ DOMAIN s = 1..2 /\ DOMAIN t = 1..2
    OBVIOUS
  <2>2. /\ s[1] = "provider_id" /\ t[1] = "ProviderId"
        /\ s[2] = "device_profile" /\ t[2] = "DeviceProfile"
    OBVIOUS
  <2>3. Capabilities["CudaCompute"].fields = s /\ Parameters("CudaCompute") = t
    BY CudaCompute_Passing
  <2> HIDE DEF s, t
  <2>4. QED BY <2>1, <2>2, <2>3
<1>5. CarriedAt("CudaCompute", 1)
  BY <1>1, <1>2, <1>3, <1>4 DEF CarriedAt
<1>6. CarriedAt("CudaCompute", 2)
  BY <1>1, <1>2, <1>3, <1>4 DEF CarriedAt
<1>7. \A i \in 1..2 : i = 1 \/ i = 2
  OBVIOUS
<1>8. \A i, j \in DOMAIN Capabilities["CudaCompute"].fields :
        Parameters("CudaCompute")[i] = Parameters("CudaCompute")[j] => i = j
  BY <1>4, <1>7
<1>9. QED BY <1>4, <1>5, <1>6, <1>7, <1>8 DEF Carried

\* DynamicPipelineCompiler: what is passed.
LEMMA DynamicPipelineCompiler_Passing ==
  /\ Capabilities["DynamicPipelineCompiler"].fields = << "provider_id", "dsl_schema_version" >>
  /\ Capabilities["DynamicPipelineCompiler"].bridge = Bridge("DynamicPipelineCompiler").type
  /\ Capabilities["DynamicPipelineCompiler"].assembly = "DynamicPipelineCompilerProvider"
  /\ Parameters("DynamicPipelineCompiler") = << "ProviderId", "DslSchemaVersion" >>
  /\ SettingsOf("DynamicPipelineCompiler") = DynamicPipelineCompilerSettings
<1>1. Capabilities["DynamicPipelineCompiler"] = DynamicPipelineCompilerCapability
  BY DEF Capabilities
<1>2. /\ DynamicPipelineCompilerCapability.fields = << "provider_id", "dsl_schema_version" >>
      /\ DynamicPipelineCompilerCapability.bridge = Bridge("DynamicPipelineCompiler").type
      /\ DynamicPipelineCompilerCapability.assembly = "DynamicPipelineCompilerProvider"
  BY FamilyTypes DEF DynamicPipelineCompilerCapability, Capability
<1>3. Bridge("DynamicPipelineCompiler") = DynamicPipelineCompilerPythonBridge
  BY ZenonT(30) DEF Bridge
<1>4. Parameters("DynamicPipelineCompiler") = << "ProviderId", "DslSchemaVersion" >>
  BY <1>3 DEF Parameters, DynamicPipelineCompilerPythonBridge, PythonBridge
<1>5. SettingsOf("DynamicPipelineCompiler") = DynamicPipelineCompilerSettings
  BY ZenonT(30) DEF SettingsOf
<1>6. QED BY <1>1, <1>2, <1>4, <1>5

\* DynamicPipelineCompiler: every argument of a contract is carried into the settings.
LEMMA DynamicPipelineCompiler_Carried == Carried("DynamicPipelineCompiler")
<1>1. /\ "ProviderId" \in DOMAIN Defaults("DynamicPipelineCompiler")
      /\ Defaults("DynamicPipelineCompiler")["ProviderId"].kind \in {"string", "Uri"}
      /\ "DslSchemaVersion" \in DOMAIN Defaults("DynamicPipelineCompiler")
      /\ Defaults("DynamicPipelineCompiler")["DslSchemaVersion"].kind \in {"string", "Uri"}
  <2>1. Defaults("DynamicPipelineCompiler") = DynamicPipelineCompilerDefaults
    BY DynamicPipelineCompiler_DefaultSettings
  <2>2. /\ "ProviderId" \in DOMAIN DynamicPipelineCompilerDefaults
        /\ DynamicPipelineCompilerDefaults["ProviderId"].kind = "string"
        /\ "DslSchemaVersion" \in DOMAIN DynamicPipelineCompilerDefaults
        /\ DynamicPipelineCompilerDefaults["DslSchemaVersion"].kind = "string"
    BY DEF DynamicPipelineCompilerDefaults, Text, Managed
  <2>3. QED BY <2>1, <2>2
<1>2. /\ "provider_id" \in DOMAIN SettingsOf("DynamicPipelineCompiler").reads
      /\ SettingsOf("DynamicPipelineCompiler").reads["provider_id"] = Str("ProviderId")
      /\ "dsl_schema_version" \in DOMAIN SettingsOf("DynamicPipelineCompiler").reads
      /\ SettingsOf("DynamicPipelineCompiler").reads["dsl_schema_version"] = Str("DslSchemaVersion")
  <2>1. SettingsOf("DynamicPipelineCompiler") = DynamicPipelineCompilerSettings
    BY DynamicPipelineCompiler_Passing
  <2>2. QED BY <2>1 DEF DynamicPipelineCompilerSettings, Wrapper, Identity, Metadata, ++
<1>3. /\ Members(Settings["DynamicPipelineCompiler"])["ProviderId"] \in {"string", "Uri"}
      /\ Members(Settings["DynamicPipelineCompiler"])["DslSchemaVersion"] \in {"string", "Uri"}
  <2>1. Known(Settings["DynamicPipelineCompiler"], "DynamicPipelineCompilerProvider",
        DynamicPipelineCompilerSettingsType.members)
    BY DynamicPipelineCompiler_Known, FamilyTypes DEF PipelineType
  <2>2. PICK more : Members(Settings["DynamicPipelineCompiler"]) = DynamicPipelineCompilerSettingsType.members ++ more
    BY <2>1, MembersOf, ContractTypeIsOther DEF Families
  <2>3. \A m \in DOMAIN DynamicPipelineCompilerSettingsType.members :
          Members(Settings["DynamicPipelineCompiler"])[m] = DynamicPipelineCompilerSettingsType.members[m]
    BY <2>2 DEF ++
  <2>4. QED BY <2>3, DynamicPipelineCompilerSettingsType_Declared
<1>4. /\ Len(Capabilities["DynamicPipelineCompiler"].fields) = 2
      /\ Len(Parameters("DynamicPipelineCompiler")) = 2
      /\ DOMAIN Capabilities["DynamicPipelineCompiler"].fields = 1..2
      /\ DOMAIN Parameters("DynamicPipelineCompiler") = 1..2
      /\ Capabilities["DynamicPipelineCompiler"].fields[1] = "provider_id"
      /\ Parameters("DynamicPipelineCompiler")[1] = "ProviderId"
      /\ Capabilities["DynamicPipelineCompiler"].fields[2] = "dsl_schema_version"
      /\ Parameters("DynamicPipelineCompiler")[2] = "DslSchemaVersion"
  <2> DEFINE s == << "provider_id", "dsl_schema_version" >>
             t == << "ProviderId", "DslSchemaVersion" >>
  <2>1. Len(s) = 2 /\ Len(t) = 2 /\ DOMAIN s = 1..2 /\ DOMAIN t = 1..2
    OBVIOUS
  <2>2. /\ s[1] = "provider_id" /\ t[1] = "ProviderId"
        /\ s[2] = "dsl_schema_version" /\ t[2] = "DslSchemaVersion"
    OBVIOUS
  <2>3. Capabilities["DynamicPipelineCompiler"].fields = s /\ Parameters("DynamicPipelineCompiler") = t
    BY DynamicPipelineCompiler_Passing
  <2> HIDE DEF s, t
  <2>4. QED BY <2>1, <2>2, <2>3
<1>5. CarriedAt("DynamicPipelineCompiler", 1)
  BY <1>1, <1>2, <1>3, <1>4 DEF CarriedAt
<1>6. CarriedAt("DynamicPipelineCompiler", 2)
  BY <1>1, <1>2, <1>3, <1>4 DEF CarriedAt
<1>7. \A i \in 1..2 : i = 1 \/ i = 2
  OBVIOUS
<1>8. \A i, j \in DOMAIN Capabilities["DynamicPipelineCompiler"].fields :
        Parameters("DynamicPipelineCompiler")[i] = Parameters("DynamicPipelineCompiler")[j] => i = j
  BY <1>4, <1>7
<1>9. QED BY <1>4, <1>5, <1>6, <1>7, <1>8 DEF Carried

\* LocalLlm: what is passed.
LEMMA LocalLlm_Passing ==
  /\ Capabilities["LocalLlm"].fields = << "provider_id", "runtime" >>
  /\ Capabilities["LocalLlm"].bridge = Bridge("LocalLlm").type
  /\ Capabilities["LocalLlm"].assembly = "LocalLlmProvider"
  /\ Parameters("LocalLlm") = << "ProviderId", "Runtime" >>
  /\ SettingsOf("LocalLlm") = LocalLlmSettings
<1>1. Capabilities["LocalLlm"] = LocalLlmCapability
  BY DEF Capabilities
<1>2. /\ LocalLlmCapability.fields = << "provider_id", "runtime" >>
      /\ LocalLlmCapability.bridge = Bridge("LocalLlm").type
      /\ LocalLlmCapability.assembly = "LocalLlmProvider"
  BY FamilyTypes DEF LocalLlmCapability, Capability
<1>3. Bridge("LocalLlm") = LocalLlmPythonBridge
  BY ZenonT(30) DEF Bridge
<1>4. Parameters("LocalLlm") = << "ProviderId", "Runtime" >>
  BY <1>3 DEF Parameters, LocalLlmPythonBridge, PythonBridge
<1>5. SettingsOf("LocalLlm") = LocalLlmSettings
  BY ZenonT(30) DEF SettingsOf
<1>6. QED BY <1>1, <1>2, <1>4, <1>5

\* LocalLlm: every argument of a contract is carried into the settings.
LEMMA LocalLlm_Carried == Carried("LocalLlm")
<1>1. /\ "ProviderId" \in DOMAIN Defaults("LocalLlm")
      /\ Defaults("LocalLlm")["ProviderId"].kind \in {"string", "Uri"}
      /\ "Runtime" \in DOMAIN Defaults("LocalLlm") /\ Defaults("LocalLlm")["Runtime"].kind \in {"string", "Uri"}
  <2>1. Defaults("LocalLlm") = LocalLlmDefaults
    BY LocalLlm_DefaultSettings
  <2>2. /\ "ProviderId" \in DOMAIN LocalLlmDefaults /\ LocalLlmDefaults["ProviderId"].kind = "string"
        /\ "Runtime" \in DOMAIN LocalLlmDefaults /\ LocalLlmDefaults["Runtime"].kind = "string"
    BY DEF LocalLlmDefaults, Text, Managed
  <2>3. QED BY <2>1, <2>2
<1>2. /\ "provider_id" \in DOMAIN SettingsOf("LocalLlm").reads
      /\ SettingsOf("LocalLlm").reads["provider_id"] = Str("ProviderId")
      /\ "runtime" \in DOMAIN SettingsOf("LocalLlm").reads
      /\ SettingsOf("LocalLlm").reads["runtime"] = Str("Runtime")
  <2>1. SettingsOf("LocalLlm") = LocalLlmSettings
    BY LocalLlm_Passing
  <2>2. QED BY <2>1 DEF LocalLlmSettings, Wrapper, Identity, Metadata, ++
<1>3. /\ Members(Settings["LocalLlm"])["ProviderId"] \in {"string", "Uri"}
      /\ Members(Settings["LocalLlm"])["Runtime"] \in {"string", "Uri"}
  <2>1. Known(Settings["LocalLlm"], "LocalLlmProvider", LocalLlmSettingsType.members)
    BY LocalLlm_Known, FamilyTypes DEF LlmType
  <2>2. PICK more : Members(Settings["LocalLlm"]) = LocalLlmSettingsType.members ++ more
    BY <2>1, MembersOf, ContractTypeIsOther DEF Families
  <2>3. \A m \in DOMAIN LocalLlmSettingsType.members :
          Members(Settings["LocalLlm"])[m] = LocalLlmSettingsType.members[m]
    BY <2>2 DEF ++
  <2>4. QED BY <2>3, LocalLlmSettingsType_Declared
<1>4. /\ Len(Capabilities["LocalLlm"].fields) = 2 /\ Len(Parameters("LocalLlm")) = 2
      /\ DOMAIN Capabilities["LocalLlm"].fields = 1..2 /\ DOMAIN Parameters("LocalLlm") = 1..2
      /\ Capabilities["LocalLlm"].fields[1] = "provider_id" /\ Parameters("LocalLlm")[1] = "ProviderId"
      /\ Capabilities["LocalLlm"].fields[2] = "runtime" /\ Parameters("LocalLlm")[2] = "Runtime"
  <2> DEFINE s == << "provider_id", "runtime" >>
             t == << "ProviderId", "Runtime" >>
  <2>1. Len(s) = 2 /\ Len(t) = 2 /\ DOMAIN s = 1..2 /\ DOMAIN t = 1..2
    OBVIOUS
  <2>2. /\ s[1] = "provider_id" /\ t[1] = "ProviderId"
        /\ s[2] = "runtime" /\ t[2] = "Runtime"
    OBVIOUS
  <2>3. Capabilities["LocalLlm"].fields = s /\ Parameters("LocalLlm") = t
    BY LocalLlm_Passing
  <2> HIDE DEF s, t
  <2>4. QED BY <2>1, <2>2, <2>3
<1>5. CarriedAt("LocalLlm", 1)
  BY <1>1, <1>2, <1>3, <1>4 DEF CarriedAt
<1>6. CarriedAt("LocalLlm", 2)
  BY <1>1, <1>2, <1>3, <1>4 DEF CarriedAt
<1>7. \A i \in 1..2 : i = 1 \/ i = 2
  OBVIOUS
<1>8. \A i, j \in DOMAIN Capabilities["LocalLlm"].fields :
        Parameters("LocalLlm")[i] = Parameters("LocalLlm")[j] => i = j
  BY <1>4, <1>7
<1>9. QED BY <1>4, <1>5, <1>6, <1>7, <1>8 DEF Carried

\* Every family carries its arguments.
LEMMA AllCarried == \A f \in Families : Carried(f)
BY ChatOpenAI_Carried, ChatHistory_Carried, CudaCompute_Carried, DynamicPipelineCompiler_Carried,
    LocalLlm_Carried DEF Families

\* The settings that a bridge fills in.
Filled(f, given) == GivenSettings(f, Passed(f, given))

\* The settings that a bridge fills in: the arguments, and the defaults elsewhere.
LEMMA FilledMembers ==
  ASSUME NEW f \in Families, NEW given
  PROVE  /\ DOMAIN Filled(f, given) = DOMAIN Defaults(f)
         /\ \A i \in DOMAIN Capabilities[f].fields :
              Filled(f, given)[Parameters(f)[i]] =
                Managed(Defaults(f)[Parameters(f)[i]].kind, given[Capabilities[f].fields[i]])
         /\ \A m \in DOMAIN Defaults(f) :
              (\A i \in DOMAIN Capabilities[f].fields : Parameters(f)[i] # m)
                => Filled(f, given)[m] = Defaults(f)[m]
<1> DEFINE fields == Capabilities[f].fields
           args == Passed(f, given)
<1>1. DOMAIN args = DOMAIN fields /\ \A i \in DOMAIN fields : args[i] = given[fields[i]]
  BY DEF Passed
<1>2. Carried(f)
  BY AllCarried
<1> HIDE DEF args
<1>3. ASSUME NEW i \in DOMAIN fields
      PROVE  Filled(f, given)[Parameters(f)[i]] = Managed(Defaults(f)[Parameters(f)[i]].kind, given[fields[i]])
  <2> DEFINE m == Parameters(f)[i]
  <2>1. m \in DOMAIN Defaults(f)
    BY <1>2 DEF Carried, CarriedAt
  <2>2. \A j \in DOMAIN args : Parameters(f)[j] = m => j = i
    BY <1>1, <1>2 DEF Carried
  <2>3. (CHOOSE j \in DOMAIN args : Parameters(f)[j] = m) = i
    BY <1>1, <2>2
  <2>4. Filled(f, given)[m] = Managed(Defaults(f)[m].kind, args[i])
    BY <1>1, <2>1, <2>3 DEF Filled, GivenSettings, args
  <2>5. QED BY <1>1, <2>4
<1>4. \A m \in DOMAIN Defaults(f) :
        (\A i \in DOMAIN fields : Parameters(f)[i] # m) => Filled(f, given)[m] = Defaults(f)[m]
  BY <1>1 DEF Filled, GivenSettings, args
<1>5. DOMAIN Filled(f, given) = DOMAIN Defaults(f)
  BY DEF Filled, GivenSettings
<1>6. QED BY <1>3, <1>4, <1>5

\* Two values that no map of metadata tells apart.
Same(u, v) == u.items.value = v.items.value /\ (NullOrBlank(u) <=> NullOrBlank(v))

\* The entries depend on the text of the members alone.
LEMMA SameEntries ==
  ASSUME NEW all, NEW other, NEW optional, DOMAIN all = DOMAIN other,
         \A k \in DOMAIN all : Same(all[k], other[k])
  PROVE  Entries(all, optional) = Entries(other, optional)
BY DEF Entries, Same

\* A member that is never left out is shown as it is.
LEMMA EntryShown ==
  ASSUME NEW all, NEW optional, NEW k \in DOMAIN all, k \notin optional
  PROVE  k \in DOMAIN Entries(all, optional) /\ Entries(all, optional)[k] = all[k].items.value
BY DEF Entries

\* ChatOpenAI: the metadata of settings.
LEMMA ChatOpenAI_Metadata ==
  ASSUME NEW s
  PROVE  /\ ToMetadata("ChatOpenAI", s) = ChatOpenAIMetadata(s)
         /\ "version" \in DOMAIN ToMetadata("ChatOpenAI", s)
         /\ ToMetadata("ChatOpenAI", s)["version"] = s.Version.items.value
         /\ ToMetadata("ChatOpenAI", s)["model"] = s.Model.items.value
         /\ ToMetadata("ChatOpenAI", s)["endpoint"] = WithoutSlash[s.Endpoint.items.value]
<1> DEFINE all == [endpoint |-> Text(WithoutSlash[s.Endpoint.items.value]), model |-> s.Model,
      version |-> s.Version, embedding_model |-> s.EmbeddingModel]
           optional == {"embedding_model"}
<1>1. ToMetadata("ChatOpenAI", s) = ChatOpenAIMetadata(s)
  BY ZenonT(30) DEF ToMetadata
<1>2. ChatOpenAIMetadata(s) = Entries(all, optional)
  BY DEF ChatOpenAIMetadata
<1>3. "version" \in DOMAIN all /\ "version" \notin optional /\ all["version"] = s.Version
  OBVIOUS
<1>4. "model" \in DOMAIN all /\ "model" \notin optional /\ all["model"] = s.Model
  OBVIOUS
<1>5. "endpoint" \in DOMAIN all /\ "endpoint" \notin optional /\ all["endpoint"] = Text(WithoutSlash[s.Endpoint.items.value])
  OBVIOUS
<1> HIDE DEF all, optional
<1>6. QED BY <1>1, <1>2, <1>3, <1>4, <1>5, EntryShown, TextKinds

\* ChatOpenAI: equal settings have equal metadata.
LEMMA ChatOpenAI_SameMetadata ==
  ASSUME NEW s, NEW t, \A m \in {"Endpoint", "Model", "Version", "EmbeddingModel"} : Same(s[m], t[m])
  PROVE  ToMetadata("ChatOpenAI", s) = ToMetadata("ChatOpenAI", t)
<1> DEFINE all == [endpoint |-> Text(WithoutSlash[s.Endpoint.items.value]), model |-> s.Model,
      version |-> s.Version, embedding_model |-> s.EmbeddingModel]
           other == [endpoint |-> Text(WithoutSlash[t.Endpoint.items.value]), model |-> t.Model,
               version |-> t.Version, embedding_model |-> t.EmbeddingModel]
           optional == {"embedding_model"}
<1>1. ToMetadata("ChatOpenAI", s) = Entries(all, optional) /\ ToMetadata("ChatOpenAI", t) = Entries(other,
      optional)
  BY ChatOpenAI_Metadata DEF ChatOpenAIMetadata
<1>2. /\ WithoutSlash[s.Endpoint.items.value] = WithoutSlash[t.Endpoint.items.value]
      /\ Same(s.Model, t.Model)
      /\ Same(s.Version, t.Version)
      /\ Same(s.EmbeddingModel, t.EmbeddingModel)
  BY DEF Same
<1>3. DOMAIN all = {"endpoint", "model", "version", "embedding_model"} /\ DOMAIN other = DOMAIN all
  OBVIOUS
<1>4. /\ Same(all["endpoint"], other["endpoint"])
      /\ Same(all["model"], other["model"])
      /\ Same(all["version"], other["version"])
      /\ Same(all["embedding_model"], other["embedding_model"])
  BY <1>2 DEF Same
<1> HIDE DEF all, other, optional
<1>5. QED BY <1>1, <1>3, <1>4, SameEntries

\* ChatHistory: the metadata of settings.
LEMMA ChatHistory_Metadata ==
  ASSUME NEW s
  PROVE  /\ ToMetadata("ChatHistory", s) = ChatHistoryMetadata(s)
         /\ "version" \in DOMAIN ToMetadata("ChatHistory", s)
         /\ ToMetadata("ChatHistory", s)["version"] = s.Version.items.value
<1> DEFINE all == [version |-> s.Version, source_uri |-> s.SourceUri, artifact_hash |-> s.ArtifactHash]
           optional == {"source_uri", "artifact_hash"}
<1>1. ToMetadata("ChatHistory", s) = ChatHistoryMetadata(s)
  BY ZenonT(30) DEF ToMetadata
<1>2. ChatHistoryMetadata(s) = Entries(all, optional)
  BY DEF ChatHistoryMetadata
<1>3. "version" \in DOMAIN all /\ "version" \notin optional /\ all["version"] = s.Version
  OBVIOUS
<1> HIDE DEF all, optional
<1>4. QED BY <1>1, <1>2, <1>3, EntryShown, TextKinds

\* ChatHistory: equal settings have equal metadata.
LEMMA ChatHistory_SameMetadata ==
  ASSUME NEW s, NEW t, \A m \in {"Version", "SourceUri", "ArtifactHash"} : Same(s[m], t[m])
  PROVE  ToMetadata("ChatHistory", s) = ToMetadata("ChatHistory", t)
<1> DEFINE all == [version |-> s.Version, source_uri |-> s.SourceUri, artifact_hash |-> s.ArtifactHash]
           other == [version |-> t.Version, source_uri |-> t.SourceUri, artifact_hash |-> t.ArtifactHash]
           optional == {"source_uri", "artifact_hash"}
<1>1. ToMetadata("ChatHistory", s) = Entries(all, optional) /\ ToMetadata("ChatHistory", t) = Entries(other,
      optional)
  BY ChatHistory_Metadata DEF ChatHistoryMetadata
<1>2. /\ Same(s.Version, t.Version)
      /\ Same(s.SourceUri, t.SourceUri)
      /\ Same(s.ArtifactHash, t.ArtifactHash)
  BY DEF Same
<1>3. DOMAIN all = {"version", "source_uri", "artifact_hash"} /\ DOMAIN other = DOMAIN all
  OBVIOUS
<1>4. /\ Same(all["version"], other["version"])
      /\ Same(all["source_uri"], other["source_uri"])
      /\ Same(all["artifact_hash"], other["artifact_hash"])
  BY <1>2
<1> HIDE DEF all, other, optional
<1>5. QED BY <1>1, <1>3, <1>4, SameEntries

\* CudaCompute: the metadata of settings.
LEMMA CudaCompute_Metadata ==
  ASSUME NEW s
  PROVE  /\ ToMetadata("CudaCompute", s) = CudaComputeMetadata(s)
         /\ "version" \in DOMAIN ToMetadata("CudaCompute", s)
         /\ ToMetadata("CudaCompute", s)["version"] = s.Version.items.value
         /\ ToMetadata("CudaCompute", s)["device_profile"] = s.DeviceProfile.items.value
<1> DEFINE all == [backend |-> s.BackendName, backend_id |-> s.BackendName, device_profile |-> s.DeviceProfile,
      entry_point |-> s.EntryPoint, module_id |-> s.ModuleId, native_module_ref |-> s.NativeModuleRef,
          version |-> s.Version, abi_version |-> s.AbiVersion, backend_version |-> s.BackendVersion,
              package_id |-> s.PackageId, max_device_memory_bytes |-> s.MaxDeviceMemoryBytes,
                  loader_json |-> s.LoaderJson, artifact_hash |-> s.ArtifactHash]
           optional == {"abi_version", "backend_version", "package_id", "max_device_memory_bytes",
               "loader_json", "artifact_hash"}
<1>1. ToMetadata("CudaCompute", s) = CudaComputeMetadata(s)
  BY ZenonT(30) DEF ToMetadata
<1>2. CudaComputeMetadata(s) = Entries(all, optional)
  BY DEF CudaComputeMetadata
<1>3. "version" \in DOMAIN all /\ "version" \notin optional /\ all["version"] = s.Version
  OBVIOUS
<1>4. "device_profile" \in DOMAIN all /\ "device_profile" \notin optional /\ all["device_profile"] = s.DeviceProfile
  OBVIOUS
<1> HIDE DEF all, optional
<1>5. QED BY <1>1, <1>2, <1>3, <1>4, EntryShown, TextKinds

\* CudaCompute: equal settings have equal metadata.
LEMMA CudaCompute_SameMetadata ==
  ASSUME NEW s, NEW t, \A m \in {"BackendName", "DeviceProfile", "EntryPoint", "ModuleId", "NativeModuleRef",
      "Version", "AbiVersion", "BackendVersion", "PackageId", "MaxDeviceMemoryBytes", "LoaderJson",
          "ArtifactHash"} : Same(s[m], t[m])
  PROVE  ToMetadata("CudaCompute", s) = ToMetadata("CudaCompute", t)
<1> DEFINE all == [backend |-> s.BackendName, backend_id |-> s.BackendName, device_profile |-> s.DeviceProfile,
      entry_point |-> s.EntryPoint, module_id |-> s.ModuleId, native_module_ref |-> s.NativeModuleRef,
          version |-> s.Version, abi_version |-> s.AbiVersion, backend_version |-> s.BackendVersion,
              package_id |-> s.PackageId, max_device_memory_bytes |-> s.MaxDeviceMemoryBytes,
                  loader_json |-> s.LoaderJson, artifact_hash |-> s.ArtifactHash]
           other == [backend |-> t.BackendName, backend_id |-> t.BackendName,
               device_profile |-> t.DeviceProfile, entry_point |-> t.EntryPoint, module_id |-> t.ModuleId,
                   native_module_ref |-> t.NativeModuleRef, version |-> t.Version, abi_version |-> t.AbiVersion,
                       backend_version |-> t.BackendVersion, package_id |-> t.PackageId,
                           max_device_memory_bytes |-> t.MaxDeviceMemoryBytes, loader_json |-> t.LoaderJson,
                               artifact_hash |-> t.ArtifactHash]
           optional == {"abi_version", "backend_version", "package_id", "max_device_memory_bytes",
               "loader_json", "artifact_hash"}
<1>1. ToMetadata("CudaCompute", s) = Entries(all, optional) /\ ToMetadata("CudaCompute", t) = Entries(other,
      optional)
  BY CudaCompute_Metadata DEF CudaComputeMetadata
<1>2. /\ Same(s.BackendName, t.BackendName)
      /\ Same(s.DeviceProfile, t.DeviceProfile)
      /\ Same(s.EntryPoint, t.EntryPoint)
      /\ Same(s.ModuleId, t.ModuleId)
      /\ Same(s.NativeModuleRef, t.NativeModuleRef)
      /\ Same(s.Version, t.Version)
      /\ Same(s.AbiVersion, t.AbiVersion)
      /\ Same(s.BackendVersion, t.BackendVersion)
      /\ Same(s.PackageId, t.PackageId)
      /\ Same(s.MaxDeviceMemoryBytes, t.MaxDeviceMemoryBytes)
      /\ Same(s.LoaderJson, t.LoaderJson)
      /\ Same(s.ArtifactHash, t.ArtifactHash)
  BY DEF Same
<1>3. DOMAIN all = {"backend", "backend_id", "device_profile", "entry_point", "module_id", "native_module_ref",
      "version", "abi_version", "backend_version", "package_id", "max_device_memory_bytes", "loader_json",
          "artifact_hash"} /\ DOMAIN other = DOMAIN all
  OBVIOUS
<1>4. /\ Same(all["backend"], other["backend"])
      /\ Same(all["backend_id"], other["backend_id"])
      /\ Same(all["device_profile"], other["device_profile"])
      /\ Same(all["entry_point"], other["entry_point"])
      /\ Same(all["module_id"], other["module_id"])
      /\ Same(all["native_module_ref"], other["native_module_ref"])
      /\ Same(all["version"], other["version"])
      /\ Same(all["abi_version"], other["abi_version"])
      /\ Same(all["backend_version"], other["backend_version"])
      /\ Same(all["package_id"], other["package_id"])
      /\ Same(all["max_device_memory_bytes"], other["max_device_memory_bytes"])
      /\ Same(all["loader_json"], other["loader_json"])
      /\ Same(all["artifact_hash"], other["artifact_hash"])
  BY <1>2
<1> HIDE DEF all, other, optional
<1>5. QED BY <1>1, <1>3, <1>4, SameEntries

\* DynamicPipelineCompiler: the metadata of settings.
LEMMA DynamicPipelineCompiler_Metadata ==
  ASSUME NEW s
  PROVE  /\ ToMetadata("DynamicPipelineCompiler", s) = DynamicPipelineCompilerMetadata(s)
         /\ "version" \in DOMAIN ToMetadata("DynamicPipelineCompiler", s)
         /\ ToMetadata("DynamicPipelineCompiler", s)["version"] = s.Version.items.value
         /\ ToMetadata("DynamicPipelineCompiler", s)["dsl_schema_version"] = s.DslSchemaVersion.items.value
<1> DEFINE all == [dsl_schema_version |-> s.DslSchemaVersion, version |-> s.Version,
      dsl_schema_uri |-> s.DslSchemaUri]
           optional == {"dsl_schema_uri"}
<1>1. ToMetadata("DynamicPipelineCompiler", s) = DynamicPipelineCompilerMetadata(s)
  BY ZenonT(30) DEF ToMetadata
<1>2. DynamicPipelineCompilerMetadata(s) = Entries(all, optional)
  BY DEF DynamicPipelineCompilerMetadata
<1>3. "version" \in DOMAIN all /\ "version" \notin optional /\ all["version"] = s.Version
  OBVIOUS
<1>4. "dsl_schema_version" \in DOMAIN all /\ "dsl_schema_version" \notin optional /\ all["dsl_schema_version"] = s.DslSchemaVersion
  OBVIOUS
<1> HIDE DEF all, optional
<1>5. QED BY <1>1, <1>2, <1>3, <1>4, EntryShown, TextKinds

\* DynamicPipelineCompiler: equal settings have equal metadata.
LEMMA DynamicPipelineCompiler_SameMetadata ==
  ASSUME NEW s, NEW t, \A m \in {"DslSchemaVersion", "Version", "DslSchemaUri"} : Same(s[m], t[m])
  PROVE  ToMetadata("DynamicPipelineCompiler", s) = ToMetadata("DynamicPipelineCompiler", t)
<1> DEFINE all == [dsl_schema_version |-> s.DslSchemaVersion, version |-> s.Version,
      dsl_schema_uri |-> s.DslSchemaUri]
           other == [dsl_schema_version |-> t.DslSchemaVersion, version |-> t.Version,
               dsl_schema_uri |-> t.DslSchemaUri]
           optional == {"dsl_schema_uri"}
<1>1. ToMetadata("DynamicPipelineCompiler", s) = Entries(all, optional) /\ ToMetadata("DynamicPipelineCompiler",
      t) = Entries(other, optional)
  BY DynamicPipelineCompiler_Metadata DEF DynamicPipelineCompilerMetadata
<1>2. /\ Same(s.DslSchemaVersion, t.DslSchemaVersion)
      /\ Same(s.Version, t.Version)
      /\ Same(s.DslSchemaUri, t.DslSchemaUri)
  BY DEF Same
<1>3. DOMAIN all = {"dsl_schema_version", "version", "dsl_schema_uri"} /\ DOMAIN other = DOMAIN all
  OBVIOUS
<1>4. /\ Same(all["dsl_schema_version"], other["dsl_schema_version"])
      /\ Same(all["version"], other["version"])
      /\ Same(all["dsl_schema_uri"], other["dsl_schema_uri"])
  BY <1>2
<1> HIDE DEF all, other, optional
<1>5. QED BY <1>1, <1>3, <1>4, SameEntries

\* LocalLlm: the metadata of settings.
LEMMA LocalLlm_Metadata ==
  ASSUME NEW s
  PROVE  /\ ToMetadata("LocalLlm", s) = LocalLlmMetadata(s)
         /\ "version" \in DOMAIN ToMetadata("LocalLlm", s)
         /\ ToMetadata("LocalLlm", s)["version"] = s.Version.items.value
         /\ ToMetadata("LocalLlm", s)["runtime"] = s.Runtime.items.value
<1> DEFINE all == [runtime |-> s.Runtime, version |-> s.Version, runtime_uri |-> s.RuntimeUri,
      artifact_hash |-> s.ArtifactHash]
           optional == {"runtime_uri", "artifact_hash"}
<1>1. ToMetadata("LocalLlm", s) = LocalLlmMetadata(s)
  BY ZenonT(30) DEF ToMetadata
<1>2. LocalLlmMetadata(s) = Entries(all, optional)
  BY DEF LocalLlmMetadata
<1>3. "version" \in DOMAIN all /\ "version" \notin optional /\ all["version"] = s.Version
  OBVIOUS
<1>4. "runtime" \in DOMAIN all /\ "runtime" \notin optional /\ all["runtime"] = s.Runtime
  OBVIOUS
<1> HIDE DEF all, optional
<1>5. QED BY <1>1, <1>2, <1>3, <1>4, EntryShown, TextKinds

\* LocalLlm: equal settings have equal metadata.
LEMMA LocalLlm_SameMetadata ==
  ASSUME NEW s, NEW t, \A m \in {"Runtime", "Version", "RuntimeUri", "ArtifactHash"} : Same(s[m], t[m])
  PROVE  ToMetadata("LocalLlm", s) = ToMetadata("LocalLlm", t)
<1> DEFINE all == [runtime |-> s.Runtime, version |-> s.Version, runtime_uri |-> s.RuntimeUri,
      artifact_hash |-> s.ArtifactHash]
           other == [runtime |-> t.Runtime, version |-> t.Version, runtime_uri |-> t.RuntimeUri,
               artifact_hash |-> t.ArtifactHash]
           optional == {"runtime_uri", "artifact_hash"}
<1>1. ToMetadata("LocalLlm", s) = Entries(all, optional) /\ ToMetadata("LocalLlm", t) = Entries(other, optional)
  BY LocalLlm_Metadata DEF LocalLlmMetadata
<1>2. /\ Same(s.Runtime, t.Runtime)
      /\ Same(s.Version, t.Version)
      /\ Same(s.RuntimeUri, t.RuntimeUri)
      /\ Same(s.ArtifactHash, t.ArtifactHash)
  BY DEF Same
<1>3. DOMAIN all = {"runtime", "version", "runtime_uri", "artifact_hash"} /\ DOMAIN other = DOMAIN all
  OBVIOUS
<1>4. /\ Same(all["runtime"], other["runtime"])
      /\ Same(all["version"], other["version"])
      /\ Same(all["runtime_uri"], other["runtime_uri"])
      /\ Same(all["artifact_hash"], other["artifact_hash"])
  BY <1>2
<1> HIDE DEF all, other, optional
<1>5. QED BY <1>1, <1>3, <1>4, SameEntries

\* What a contract shows, and what it is declared to be.
LEMMA ContractDeclared ==
  /\ CapabilityModuleDescriptor["CapabilityId"] = "string"
  /\ CapabilityModuleDescriptor["Name"] = "string"
  /\ CapabilityModuleDescriptor["Kind"] = "enum"
  /\ CapabilityModuleDescriptor["InvocationMode"] = "enum"
  /\ CapabilityModuleDescriptor["Version"] = "string"
  /\ CapabilityModuleDescriptor["ProvidedOperations"] = "IReadOnlyList<string>"
  /\ CapabilityModuleDescriptor["RequiredPermissions"] = "IReadOnlyList<string>"
  /\ CapabilityModuleDescriptor["Metadata"] = "IReadOnlyDictionary<string, string>"
  /\ DOMAIN CapabilityModuleDescriptor =
       {"CapabilityId", "Name", "Kind", "InvocationMode", "Version", "ProvidedOperations",
        "RequiredPermissions", "Metadata"}
BY DEF CapabilityModuleDescriptor

\* The attributes of a contract, and the members they read.
LEMMA ContractReads ==
  /\ DOMAIN CapabilityContract.reads =
       {"capability_id", "name", "kind", "invocation_mode", "version", "provided_operations",
        "required_permissions", "metadata"}
  /\ CapabilityContract.reads["capability_id"] = Str("CapabilityId")
  /\ CapabilityContract.reads["name"] = Str("Name")
  /\ CapabilityContract.reads["kind"] = Str("Kind")
  /\ CapabilityContract.reads["invocation_mode"] = Str("InvocationMode")
  /\ CapabilityContract.reads["version"] = Str("Version")
  /\ CapabilityContract.reads["provided_operations"] = Tuple("ProvidedOperations")
  /\ CapabilityContract.reads["required_permissions"] = Tuple("RequiredPermissions")
  /\ CapabilityContract.reads["metadata"] = Read("Metadata", "dict")
BY DEF CapabilityContract, Wrapper

\* The attributes of a contract fit the type of its object.
LEMMA ContractReadsFit == FitsMembers(CapabilityContract.reads, CapabilityModuleDescriptor)
<1> DEFINE M == CapabilityModuleDescriptor
<1>1. /\ Fitting(Str("CapabilityId"), M) /\ Fitting(Str("Name"), M)
      /\ Fitting(Str("Kind"), M) /\ Fitting(Str("InvocationMode"), M)
      /\ Fitting(Str("Version"), M)
      /\ Fitting(Tuple("ProvidedOperations"), M) /\ Fitting(Tuple("RequiredPermissions"), M)
      /\ Fitting(Read("Metadata", "dict"), M)
  <2> HIDE DEF M
  <2>1. QED BY ContractDeclared, FittingReads DEF M
<1>2. QED BY <1>1, ContractReads DEF FitsMembers

\* What a descriptor says.
LEMMA DescriptorMembers ==
  ASSUME NEW id, NEW metadata, NEW name, NEW kind, NEW mode, NEW operations, NEW permissions
  PROVE  LET d == Descriptor(id, metadata, name, kind, mode, operations, permissions) IN
         /\ DOMAIN d = DOMAIN CapabilityModuleDescriptor
         /\ d["CapabilityId"] = id /\ d["Name"] = Text(name)
         /\ d["Version"] = Text(VersionOf(metadata)) /\ d["Metadata"] = Map(metadata)
         /\ d["Kind"].kind = "enum" /\ d["InvocationMode"].kind = "enum"
         /\ d["ProvidedOperations"].kind = "list" /\ d["RequiredPermissions"].kind = "list"
BY ContractDeclared DEF Descriptor, Managed, List

\* The members of a descriptor fit what its type declares.
LEMMA DescriptorFits ==
  ASSUME NEW id, NEW metadata, NEW name, NEW kind, NEW mode, NEW operations, NEW permissions,
         id.kind = "string", NEW m \in DOMAIN CapabilityModuleDescriptor
  PROVE  Fits(Descriptor(id, metadata, name, kind, mode, operations, permissions)[m],
              CapabilityModuleDescriptor[m])
<1> DEFINE d == Descriptor(id, metadata, name, kind, mode, operations, permissions)
<1>1. /\ d["CapabilityId"].kind = "string" /\ d["Name"].kind = "string"
      /\ d["Version"].kind = "string" /\ d["Metadata"].kind = "map"
      /\ d["Kind"].kind = "enum" /\ d["InvocationMode"].kind = "enum"
      /\ d["ProvidedOperations"].kind = "list" /\ d["RequiredPermissions"].kind = "list"
  <2>1. /\ d["CapabilityId"] = id /\ d["Name"] = Text(name)
        /\ d["Version"] = Text(VersionOf(metadata)) /\ d["Metadata"] = Map(metadata)
        /\ d["Kind"].kind = "enum" /\ d["InvocationMode"].kind = "enum"
        /\ d["ProvidedOperations"].kind = "list" /\ d["RequiredPermissions"].kind = "list"
    BY DescriptorMembers
  <2>2. Map(metadata).kind = "map"
    BY DEF Map
  <2> HIDE DEF d
  <2>3. QED BY <2>1, <2>2, TextKinds
<1> HIDE DEF d
<1>2. d[m].kind = KindOf(CapabilityModuleDescriptor[m])
  <2> DEFINE M == CapabilityModuleDescriptor
  <2>1. /\ KindOf(M["CapabilityId"]) = "string" /\ KindOf(M["Name"]) = "string"
        /\ KindOf(M["Version"]) = "string" /\ KindOf(M["Metadata"]) = "map"
        /\ KindOf(M["Kind"]) = "enum" /\ KindOf(M["InvocationMode"]) = "enum"
        /\ KindOf(M["ProvidedOperations"]) = "list" /\ KindOf(M["RequiredPermissions"]) = "list"
    BY ContractDeclared, Kinds
  <2>2. m \in {"CapabilityId", "Name", "Kind", "InvocationMode", "Version", "ProvidedOperations",
              "RequiredPermissions", "Metadata"}
    BY ContractDeclared
  <2> HIDE DEF M
  <2>3. d[m].kind = KindOf(M[m])
    BY <1>1, <2>1, <2>2
  <2>4. QED BY <2>3 DEF M
<1>3. QED BY <1>2 DEF Fits, d

\* The contract of a family is a descriptor of its settings.
ContractObject(f, s) ==
  \E kind, mode, operations, permissions, name :
    /\ ContractOf(f, s.ProviderId, ToMetadata(f, s)) =
         Descriptor(s.ProviderId, ToMetadata(f, s), name, kind, mode, operations, permissions)
    /\ Defaults(f).Name = Text(name)

\* The contract of every family is such an object.
LEMMA ContractObjects == \A f \in Families : \A s : ContractObject(f, s)
<1>1. SUFFICES ASSUME NEW f \in Families, NEW s PROVE ContractObject(f, s)
  OBVIOUS
<1> DEFINE M == ToMetadata(f, s)
<1>2. CASE f = "ChatOpenAI"
  <2>1. ContractOf("ChatOpenAI", s.ProviderId, M) = ChatOpenAIContract(s.ProviderId, M)
    BY ZenonT(30) DEF ContractOf
  <2>2. ChatOpenAIContract(s.ProviderId, M) =
          Descriptor(s.ProviderId, M, "Chat OpenAI Provider", "RemoteEndpoint", "Remote", << "chat.completion",
              "embedding", "moderation" >>, << "network.egress", "llm.remote" >>)
    BY Zenon DEF ChatOpenAIContract
  <2>3. Defaults("ChatOpenAI").Name = Text("Chat OpenAI Provider")
    BY ChatOpenAI_DefaultSettings
  <2>4. QED BY <1>2, <2>1, <2>2, <2>3, Zenon DEF ContractObject
<1>3. CASE f = "ChatHistory"
  <2>1. ContractOf("ChatHistory", s.ProviderId, M) = ChatHistoryContract(s.ProviderId, M)
    BY ZenonT(30) DEF ContractOf
  <2>2. ChatHistoryContract(s.ProviderId, M) =
          Descriptor(s.ProviderId, M, "Chat History Provider", "ManagedAssembly", "AssemblyReference",
              << "chat.history.read", "chat.history.filter", "chat.history.latest" >>, << "history.read",
                  "chat.read" >>)
    BY Zenon DEF ChatHistoryContract
  <2>3. Defaults("ChatHistory").Name = Text("Chat History Provider")
    BY ChatHistory_DefaultSettings
  <2>4. QED BY <1>3, <2>1, <2>2, <2>3, Zenon DEF ContractObject
<1>4. CASE f = "CudaCompute"
  <2>1. ContractOf("CudaCompute", s.ProviderId, M) = CudaComputeContract(s.ProviderId, M)
    BY ZenonT(30) DEF ContractOf
  <2>2. CudaComputeContract(s.ProviderId, M) =
          Descriptor(s.ProviderId, M, "CUDA Compute Provider", "NativeLibrary", "NativeAbi", << "tensor.matmul",
              "tensor.softmax", "tensor.conv2d", "tensor.layernorm" >>, << "native.load", "tensor.compute" >>)
    BY Zenon DEF CudaComputeContract
  <2>3. Defaults("CudaCompute").Name = Text("CUDA Compute Provider")
    BY CudaCompute_DefaultSettings
  <2>4. QED BY <1>4, <2>1, <2>2, <2>3, Zenon DEF ContractObject
<1>5. CASE f = "DynamicPipelineCompiler"
  <2>1. ContractOf("DynamicPipelineCompiler", s.ProviderId, M) = DynamicPipelineCompilerContract(s.ProviderId,
        M)
    BY ZenonT(30) DEF ContractOf
  <2>2. DynamicPipelineCompilerContract(s.ProviderId, M) =
          Descriptor(s.ProviderId, M, "Dynamic Pipeline Compiler Provider", "ManagedAssembly",
              "AssemblyReference", << "pipeline.compile", "pipeline.execute", "pipeline.validate" >>,
                  << "dsl.read", "capability.register" >>)
    BY Zenon DEF DynamicPipelineCompilerContract
  <2>3. Defaults("DynamicPipelineCompiler").Name = Text("Dynamic Pipeline Compiler Provider")
    BY DynamicPipelineCompiler_DefaultSettings
  <2>4. QED BY <1>5, <2>1, <2>2, <2>3, Zenon DEF ContractObject
<1>6. CASE f = "LocalLlm"
  <2>1. ContractOf("LocalLlm", s.ProviderId, M) = LocalLlmContract(s.ProviderId, M)
    BY ZenonT(30) DEF ContractOf
  <2>2. LocalLlmContract(s.ProviderId, M) =
          Descriptor(s.ProviderId, M, "Local LLM Provider", "ManagedAssembly", "AssemblyReference",
              << "chat.local", "embedding.local" >>, << "local.process", "llm.local" >>)
    BY Zenon DEF LocalLlmContract
  <2>3. Defaults("LocalLlm").Name = Text("Local LLM Provider")
    BY LocalLlm_DefaultSettings
  <2>4. QED BY <1>6, <2>1, <2>2, <2>3, Zenon DEF ContractObject
<1>7. QED BY <1>2, <1>3, <1>4, <1>5, <1>6 DEF Families

\* What is in the descriptor of a contract.
LEMMA ContractShows ==
  ASSUME NEW c, ContractFits(c)
  PROVE  LET f == c.family
             s == Filled(f, c.given)
             d == c.object.members
         IN  /\ DOMAIN d = DOMAIN CapabilityModuleDescriptor
             /\ d["CapabilityId"] = s["ProviderId"] /\ d["Name"] = Defaults(f)["Name"]
             /\ d["Version"] = Text(VersionOf(ToMetadata(f, s)))
             /\ d["Metadata"] = Map(ToMetadata(f, s))
             /\ \A m \in DOMAIN CapabilityModuleDescriptor : Fits(d[m], CapabilityModuleDescriptor[m])
<1> DEFINE f == c.family
           s == Filled(f, c.given)
           d == c.object.members
<1>1. f \in Families
  BY DEF ContractFits
<1>2. d = ContractOf(f, s.ProviderId, ToMetadata(f, s))
  BY DEF ContractFits, ToContract, Filled
<1>3. PICK kind, mode, operations, permissions, name :
        /\ d = Descriptor(s.ProviderId, ToMetadata(f, s), name, kind, mode, operations, permissions)
        /\ Defaults(f).Name = Text(name)
  BY <1>1, <1>2, ContractObjects DEF ContractObject
<1>4. s.ProviderId.kind = "string"
  <2>1. Capabilities[f].fields[1] = "provider_id" /\ Parameters(f)[1] = "ProviderId"
        /\ 1 \in DOMAIN Capabilities[f].fields
    BY <1>1, ChatOpenAI_Passing, ChatHistory_Passing, CudaCompute_Passing,
       DynamicPipelineCompiler_Passing, LocalLlm_Passing DEF Families
  <2>2. s["ProviderId"] = Managed(Defaults(f)["ProviderId"].kind, c.given["provider_id"])
    BY <1>1, <2>1, FilledMembers
  <2>3. Defaults(f)["ProviderId"].kind = "string"
    <3>1. "ProviderId" \in DOMAIN Defaults(f)
      BY <1>1, <2>1, AllCarried DEF Carried, CarriedAt
    <3>2. Fits(Defaults(f)["ProviderId"], "string")
      BY <1>1, <3>1, IdentityDefaults
    <3>3. QED BY <3>2, Kinds DEF Fits, Nullable
  <2>4. QED BY <2>2, <2>3, TextKinds
<1> HIDE DEF f, s, d
<1>5. QED BY <1>3, <1>4, DescriptorMembers, DescriptorFits DEF f, s, d

\* Sequences without repetitions have as many elements as positions.
LEMMA CountListed ==
  ASSUME NEW n \in Nat, NEW s, DOMAIN s = 1..n, \A i, j \in 1..n : s[i] = s[j] => i = j,
         NEW S, S = {s[i] : i \in 1..n}
  PROVE  Cardinality(S) = n
<1> DEFINE g == [i \in 1..n |-> s[i]]
<1>1. g \in Bijection(1..n, S)
  <2>1. g \in [1..n -> S]
    OBVIOUS
  <2>2. \A i, j \in 1..n : g[i] = g[j] => i = j
    OBVIOUS
  <2>3. \A t \in S : \E i \in 1..n : g[i] = t
    OBVIOUS
  <2>4. QED BY <2>1, <2>2, <2>3, Fun_IsBij
<1>2. IsFiniteSet(1..n) /\ Cardinality(1..n) = n
  BY FS_Interval
<1>3. ExistsBijection(1..n, S)
  BY <1>1 DEF ExistsBijection
<1>4. QED BY <1>2, <1>3, FS_Bijection

\* The drivers announced, in the order of the file.
AnnouncedIds ==
  << "providers.compute.cpu",
     "providers.fs.memory",
     "providers.fs.physical",
     "providers.fs.zip",
     "providers.logging.console",
     "providers.logging.file",
     "providers.network.standard",
     "providers.network.http",
     "providers.network.websocket",
     "providers.process.supervisor",
     "providers.process.supervisor.default",
     "providers.eventbus.memory",
     "providers.scheduler.standard",
     "providers.profiler.standard" >>

AnnouncedNames ==
  << "CpuComputeProvider",
     "MemoryFileSystemProvider",
     "PhysicalFileSystemProvider",
     "ZipFileSystemProvider",
     "ConsoleLoggingProvider",
     "FileLoggingProvider",
     "NetworkProvider",
     "HttpNetworkProvider",
     "WebSocketNetworkProvider",
     "ProcessSupervisorProvider",
     "DefaultProcessSupervisorProvider",
     "EventBusProvider",
     "SchedulerProvider",
     "ProfilerProvider" >>

\* No identifier and no name is announced twice.
LEMMA AnnouncedCount ==
  /\ Cardinality({AnnouncedIds[i] : i \in 1..14}) = 14
  /\ Cardinality({AnnouncedNames[i] : i \in 1..14}) = 14
<1>1. DOMAIN AnnouncedIds = 1..14 /\ \A i, j \in 1..14 : AnnouncedIds[i] = AnnouncedIds[j] => i = j
  BY DEF AnnouncedIds
<1>2. DOMAIN AnnouncedNames = 1..14 /\ \A i, j \in 1..14 : AnnouncedNames[i] = AnnouncedNames[j] => i = j
  BY DEF AnnouncedNames
<1>3. Cardinality({AnnouncedIds[i] : i \in 1..14}) = 14
  <2> DEFINE n == 14
             S == {AnnouncedIds[i] : i \in 1..n}
  <2>1. n \in Nat /\ DOMAIN AnnouncedIds = 1..n
    BY <1>1
  <2>2. \A i, j \in 1..n : AnnouncedIds[i] = AnnouncedIds[j] => i = j
    BY <1>1
  <2>3. S = {AnnouncedIds[i] : i \in 1..n}
    OBVIOUS
  <2> HIDE DEF n, S
  <2>4. Cardinality(S) = n
    BY <2>1, <2>2, <2>3, CountListed
  <2>5. QED BY <2>4 DEF n, S
<1>4. Cardinality({AnnouncedNames[i] : i \in 1..14}) = 14
  <2> DEFINE n == 14
             S == {AnnouncedNames[i] : i \in 1..n}
  <2>1. n \in Nat /\ DOMAIN AnnouncedNames = 1..n
    BY <1>2
  <2>2. \A i, j \in 1..n : AnnouncedNames[i] = AnnouncedNames[j] => i = j
    BY <1>2
  <2>3. S = {AnnouncedNames[i] : i \in 1..n}
    OBVIOUS
  <2> HIDE DEF n, S
  <2>4. Cardinality(S) = n
    BY <2>1, <2>2, <2>3, CountListed
  <2>5. QED BY <2>4 DEF n, S
<1>5. QED BY <1>3, <1>4

\* What is announced is what there is.
LEMMA Announced ==
  LET announced == ToSet(standard_driver_contracts) IN
  /\ {c.managed_type : c \in announced} = {Drivers[w].type : w \in DOMAIN Drivers}
  /\ Cardinality({c.provider_id : c \in announced}) = Cardinality(DOMAIN Drivers)
<1> DEFINE s == standard_driver_contracts
<1>1. DOMAIN s = 1..14
  BY DEF standard_driver_contracts
<1>2. \A i \in 1..14 : s[i].provider_id = AnnouncedIds[i]
  <2>1. s[1].provider_id = AnnouncedIds[1]
    BY DEF standard_driver_contracts, AnnouncedIds, StandardDriverContract
  <2>2. s[2].provider_id = AnnouncedIds[2]
    BY DEF standard_driver_contracts, AnnouncedIds, StandardDriverContract
  <2>3. s[3].provider_id = AnnouncedIds[3]
    BY DEF standard_driver_contracts, AnnouncedIds, StandardDriverContract
  <2>4. s[4].provider_id = AnnouncedIds[4]
    BY DEF standard_driver_contracts, AnnouncedIds, StandardDriverContract
  <2>5. s[5].provider_id = AnnouncedIds[5]
    BY DEF standard_driver_contracts, AnnouncedIds, StandardDriverContract
  <2>6. s[6].provider_id = AnnouncedIds[6]
    BY DEF standard_driver_contracts, AnnouncedIds, StandardDriverContract
  <2>7. s[7].provider_id = AnnouncedIds[7]
    BY DEF standard_driver_contracts, AnnouncedIds, StandardDriverContract
  <2>8. s[8].provider_id = AnnouncedIds[8]
    BY DEF standard_driver_contracts, AnnouncedIds, StandardDriverContract
  <2>9. s[9].provider_id = AnnouncedIds[9]
    BY DEF standard_driver_contracts, AnnouncedIds, StandardDriverContract
  <2>10. s[10].provider_id = AnnouncedIds[10]
    BY DEF standard_driver_contracts, AnnouncedIds, StandardDriverContract
  <2>11. s[11].provider_id = AnnouncedIds[11]
    BY DEF standard_driver_contracts, AnnouncedIds, StandardDriverContract
  <2>12. s[12].provider_id = AnnouncedIds[12]
    BY DEF standard_driver_contracts, AnnouncedIds, StandardDriverContract
  <2>13. s[13].provider_id = AnnouncedIds[13]
    BY DEF standard_driver_contracts, AnnouncedIds, StandardDriverContract
  <2>14. s[14].provider_id = AnnouncedIds[14]
    BY DEF standard_driver_contracts, AnnouncedIds, StandardDriverContract
  <2> HIDE DEF s
  <2>15. QED BY <2>1, <2>2, <2>3, <2>4, <2>5, <2>6, <2>7, <2>8, <2>9, <2>10, <2>11, <2>12, <2>13, <2>14
<1>3. \A i \in 1..14 : AnnouncedNames[i] \in DOMAIN Drivers /\ s[i].managed_type = Drivers[AnnouncedNames[i]].type
  <2>1. AnnouncedNames[1] = "CpuComputeProvider" /\ s[1].managed_type = CpuComputeProvider.type
    BY DEF standard_driver_contracts, AnnouncedNames, StandardDriverContract, CpuComputeProvider, Driver,
        Wrapper
  <2>2. AnnouncedNames[2] = "MemoryFileSystemProvider" /\ s[2].managed_type = MemoryFileSystemProvider.type
    BY DEF standard_driver_contracts, AnnouncedNames, StandardDriverContract, MemoryFileSystemProvider, Driver,
        Wrapper
  <2>3. AnnouncedNames[3] = "PhysicalFileSystemProvider" /\ s[3].managed_type = PhysicalFileSystemProvider.type
    BY DEF standard_driver_contracts, AnnouncedNames, StandardDriverContract, PhysicalFileSystemProvider,
        Driver, Wrapper
  <2>4. AnnouncedNames[4] = "ZipFileSystemProvider" /\ s[4].managed_type = ZipFileSystemProvider.type
    BY DEF standard_driver_contracts, AnnouncedNames, StandardDriverContract, ZipFileSystemProvider, Driver,
        Wrapper
  <2>5. AnnouncedNames[5] = "ConsoleLoggingProvider" /\ s[5].managed_type = ConsoleLoggingProvider.type
    BY DEF standard_driver_contracts, AnnouncedNames, StandardDriverContract, ConsoleLoggingProvider, Driver,
        Wrapper
  <2>6. AnnouncedNames[6] = "FileLoggingProvider" /\ s[6].managed_type = FileLoggingProvider.type
    BY DEF standard_driver_contracts, AnnouncedNames, StandardDriverContract, FileLoggingProvider, Driver,
        Wrapper
  <2>7. AnnouncedNames[7] = "NetworkProvider" /\ s[7].managed_type = NetworkProvider.type
    BY DEF standard_driver_contracts, AnnouncedNames, StandardDriverContract, NetworkProvider, Driver, Wrapper
  <2>8. AnnouncedNames[8] = "HttpNetworkProvider" /\ s[8].managed_type = HttpNetworkProvider.type
    BY DEF standard_driver_contracts, AnnouncedNames, StandardDriverContract, HttpNetworkProvider, Driver,
        Wrapper
  <2>9. AnnouncedNames[9] = "WebSocketNetworkProvider" /\ s[9].managed_type = WebSocketNetworkProvider.type
    BY DEF standard_driver_contracts, AnnouncedNames, StandardDriverContract, WebSocketNetworkProvider, Driver,
        Wrapper
  <2>10. AnnouncedNames[10] = "ProcessSupervisorProvider" /\ s[10].managed_type = ProcessSupervisorProvider.type
    BY DEF standard_driver_contracts, AnnouncedNames, StandardDriverContract, ProcessSupervisorProvider, Driver,
        Wrapper
  <2>11. AnnouncedNames[11] = "DefaultProcessSupervisorProvider" /\ s[11].managed_type = DefaultProcessSupervisorProvider.type
    BY DEF standard_driver_contracts, AnnouncedNames, StandardDriverContract, DefaultProcessSupervisorProvider,
        Driver, Wrapper
  <2>12. AnnouncedNames[12] = "EventBusProvider" /\ s[12].managed_type = EventBusProvider.type
    BY DEF standard_driver_contracts, AnnouncedNames, StandardDriverContract, EventBusProvider, Driver, Wrapper
  <2>13. AnnouncedNames[13] = "SchedulerProvider" /\ s[13].managed_type = SchedulerProvider.type
    BY DEF standard_driver_contracts, AnnouncedNames, StandardDriverContract, SchedulerProvider, Driver, Wrapper
  <2>14. AnnouncedNames[14] = "ProfilerProvider" /\ s[14].managed_type = ProfilerProvider.type
    BY DEF standard_driver_contracts, AnnouncedNames, StandardDriverContract, ProfilerProvider, Driver, Wrapper
  <2> HIDE DEF s
  <2>15. QED BY <2>1, <2>2, <2>3, <2>4, <2>5, <2>6, <2>7, <2>8, <2>9, <2>10, <2>11, <2>12, <2>13, <2>14,
        WrapperTable
<1>4. {AnnouncedNames[i] : i \in 1..14} = DOMAIN Drivers
  BY WrapperTable DEF AnnouncedNames
<1> HIDE DEF s
<1>5. {c.managed_type : c \in ToSet(s)} = {Drivers[w].type : w \in DOMAIN Drivers}
  <2>1. \A w \in DOMAIN Drivers : \E i \in 1..14 : w = AnnouncedNames[i]
    BY <1>4
  <2>2. QED BY <1>1, <1>3, <2>1 DEF ToSet
<1>6. {c.provider_id : c \in ToSet(s)} = {AnnouncedIds[i] : i \in 1..14}
  BY <1>1, <1>2 DEF ToSet
<1>7. QED BY <1>4, <1>5, <1>6, AnnouncedCount DEF s

-----------------------------------------------------------------------------
(* Steps.                                                                  *)

\* What an answer says of what was asked, and of what the caller holds then.
AnswerFits(l, hs, cs) ==
  /\ l.value.kind \in PythonKinds
  /\ l.call \in {"create", "exception_types"} /\ l.value.kind = "error"
       => l.of = "MicrosoftAICredential" /\ l.value.items = << "TargetInvocationException" >>
  /\ l.call = "read" /\ l.of # "CapabilityContract" =>
       Shows(l.value, MemberOf(Head(hs), Wrappers[l.of].reads[l.attribute].member))
  /\ l.call = "read" /\ l.of = "CapabilityContract" =>
       Shows(l.value, Head(cs).object.members[CapabilityContract.reads[l.attribute].member])
  /\ l.call = "find" => /\ l.value = Python("descriptor", << Wrappers[l.of].assembly >>)
                        /\ Wrappers[l.of].assembly \in DOMAIN managed_api_summary
  /\ l.call = "to_contract" /\ l.value.kind = "error" =>
       l.of = "ChatOpenAI" /\ l.value.items = << "TargetInvocationException" >>

SurfaceInv == InHands /\ AnswerFits(last, held, contract)

\* The values that the calls answer with.
LEMMA Answers ==
  /\ \A kind, items : Python(kind, items).kind = kind /\ Python(kind, items).items = items
  /\ \A error : Raised(error).kind = "error" /\ Raised(error).items = << error >>
BY DEF Python, Raised

\* The answer of a call, part by part.
LEMMA AnswerFields ==
  ASSUME NEW call, NEW of, NEW attribute, NEW value, Answer(call, of, attribute, value)
  PROVE  last'.call = call /\ last'.of = of /\ last'.attribute = attribute /\ last'.value = value
BY DEF Answer

\* Calls whose answer says nothing about a managed value.
LEMMA PlainAnswer ==
  ASSUME NEW call, NEW of, NEW attribute, NEW value, Answer(call, of, attribute, value),
         call \notin {"read", "find"}, value.kind \in PythonKinds,
         value.kind = "error" /\ call \in {"create", "exception_types"} =>
           of = "MicrosoftAICredential" /\ value.items = << "TargetInvocationException" >>,
         value.kind = "error" /\ call = "to_contract" =>
           of = "ChatOpenAI" /\ value.items = << "TargetInvocationException" >>
  PROVE  AnswerFits(last', held', contract')
BY AnswerFields DEF AnswerFits

\* Another object in the caller's hands.
LEMMA HoldKeeps ==
  ASSUME InHands, NEW h, HeldFits(h), held' = << h >>, contract' = contract
  PROVE  InHands'
<1>1. h \in ToSet(held')
  BY SingleElements
<1>2. QED BY <1>1 DEF InHands

\* The wrapped type is found.
LEMMA SoundResolves ==
  ASSUME NEW w \in DOMAIN Wrappers
  PROVE  /\ Resolves(Wrappers[w].type, Wrappers[w].assembly)
         /\ find_managed_type(Wrappers[w].type) = << Catalogue[Wrappers[w].type] >>
         /\ Catalogue[Wrappers[w].type].assembly = Wrappers[w].assembly
         /\ Wrappers[w].assembly \in DOMAIN managed_api_summary
<1>1. /\ \E members : Known(Wrappers[w].type, Wrappers[w].assembly, members)
      /\ Wrappers[w].assembly \in LoadedAssemblies
  BY WrappersSound DEF Sound
<1>2. PICK members : Known(Wrappers[w].type, Wrappers[w].assembly, members)
  BY <1>1
<1>3. DOMAIN managed_api_summary = {e.assembly : e \in ToSet(managed_api_catalog)}
  BY DEF managed_api_summary
<1>4. QED BY <1>1, <1>2, <1>3 DEF Known, Resolves

\* An object made by its constructor.
LEMMA CreateByActivatorKeeps ==
  ASSUME InHands, NEW w \in DOMAIN Wrappers, CreateByActivator(w)
  PROVE  InHands' /\ AnswerFits(last', held', contract')
<1> DEFINE x == Wrappers[w]
           h == [wrapper |-> w, type |-> x.type, members |-> NewMembers(x.type)]
<1>1. x.make.way = "activate" /\ Resolves(x.type, x.assembly)
  BY SoundResolves DEF CreateByActivator
<1>2. ConstructorArity(x.type) = x.make.arguments
  BY <1>1, WrappersSound DEF Sound
<1>3. Answer("create", w, "none", Python("wrapper", << w >>)) /\ Hold(w, x.type, NewMembers(x.type))
  BY <1>1, <1>2 DEF CreateByActivator
<1>4. held' = << h >> /\ contract' = contract
  BY <1>3 DEF Hold
<1>5. HeldFits(h)
  BY NewObjectFits
<1>6. InHands'
  <2> HIDE DEF h
  <2>1. QED BY <1>4, <1>5, HoldKeeps
<1>7. AnswerFits(last', held', contract')
  BY <1>3, PlainAnswer, Answers DEF PythonKinds
<1>8. QED BY <1>6, <1>7

\* An object made by a static method.
LEMMA CreateByMethodKeeps ==
  ASSUME InHands, NEW w \in DOMAIN Wrappers, CreateByMethod(w)
  PROVE  InHands' /\ AnswerFits(last', held', contract')
<1> DEFINE x == Wrappers[w]
           methods == {m \in StaticMethods : m.type = x.make.type /\ m.method = x.make.method}
           h == [wrapper |-> w, type |-> x.type, members |-> NewMembers(x.type)]
<1>1. x.make.way = "static"
  BY DEF CreateByMethod
<1>2. MadeByMethod(x) /\ (x.make.method = "Create" => w = "MicrosoftAICredential")
  BY <1>1, WrappersSound DEF Sound
<1>3. Resolves(x.make.type, x.assembly) /\ methods # {}
      /\ \A m \in methods : m.arity = x.make.arguments /\ m.result = x.type
  BY <1>2 DEF MadeByMethod
<1>4. \E m \in methods, refused \in BOOLEAN :
        IF refused /\ m.method = "Create"
        THEN Fail("create", w, "TargetInvocationException")
        ELSE /\ Answer("create", w, "none", Python("wrapper", << w >>))
             /\ Hold(w, m.result, NewMembers(m.result))
  BY <1>3 DEF CreateByMethod
<1>5. \/ w = "MicrosoftAICredential" /\ Fail("create", w, "TargetInvocationException")
      \/ Answer("create", w, "none", Python("wrapper", << w >>)) /\ Hold(w, x.type, NewMembers(x.type))
  BY <1>2, <1>3, <1>4
<1>6. ASSUME w = "MicrosoftAICredential", Fail("create", w, "TargetInvocationException")
      PROVE  InHands' /\ AnswerFits(last', held', contract')
  <2>1. InHands'
    BY <1>6 DEF Fail, InHands
  <2>2. AnswerFits(last', held', contract')
    BY <1>6, PlainAnswer, Answers DEF Fail, PythonKinds
  <2>3. QED BY <2>1, <2>2
<1>7. ASSUME Answer("create", w, "none", Python("wrapper", << w >>)), Hold(w, x.type, NewMembers(x.type))
      PROVE  InHands' /\ AnswerFits(last', held', contract')
  <2>1. held' = << h >> /\ contract' = contract
    BY <1>7 DEF Hold
  <2>2. HeldFits(h)
    BY NewObjectFits
  <2>3. InHands'
    <3> HIDE DEF h
    <3>1. QED BY <2>1, <2>2, HoldKeeps
  <2>4. AnswerFits(last', held', contract')
    BY <1>7, PlainAnswer, Answers DEF PythonKinds
  <2>5. QED BY <2>3, <2>4
<1>8. QED BY <1>5, <1>6, <1>7

\* An object that the caller was given.
LEMMA WrapGivenKeeps ==
  ASSUME InHands, NEW w \in DOMAIN Wrappers, WrapGiven(w)
  PROVE  InHands' /\ AnswerFits(last', held', contract')
<1> DEFINE x == Wrappers[w]
           new == NewMembers(x.type)
<1>1. Answer("wrap", w, "none", Python("wrapper", << w >>))
  BY DEF WrapGiven
<1>2. PICK a \in DOMAIN x.reads : \E value \in MemberValues(Members(x.type)[x.reads[a].member]) :
        Hold(w, x.type, [new EXCEPT ![x.reads[a].member] = value])
  BY DEF WrapGiven
<1>3. PICK value \in MemberValues(Members(x.type)[x.reads[a].member]) :
        Hold(w, x.type, [new EXCEPT ![x.reads[a].member] = value])
  BY <1>2
<1> DEFINE h == [wrapper |-> w, type |-> x.type, members |-> [new EXCEPT ![x.reads[a].member] = value]]
<1>4. held' = << h >> /\ contract' = contract
  BY <1>3 DEF Hold
<1>5. HeldFits(h)
  BY GivenObjectFits
<1>6. InHands'
  <2> HIDE DEF h
  <2>1. QED BY <1>4, <1>5, HoldKeeps
<1>7. AnswerFits(last', held', contract')
  BY <1>1, PlainAnswer, Answers DEF PythonKinds
<1>8. QED BY <1>6, <1>7

\* A type looked up in the catalogue.
LEMMA FindManagedTypeKeeps ==
  ASSUME InHands, NEW w \in DOMAIN Wrappers, FindManagedType(w)
  PROVE  InHands' /\ AnswerFits(last', held', contract')
<1> DEFINE x == Wrappers[w]
           hits == find_managed_type(x.type)
<1>1. /\ hits = << Catalogue[x.type] >> /\ Catalogue[x.type].assembly = x.assembly
      /\ x.assembly \in DOMAIN managed_api_summary
  BY SoundResolves
<1>2. hits # << >> /\ Head(hits).assembly = x.assembly
  BY <1>1, SingleElements
<1>3. Answer("find", w, "none", Python("descriptor", << x.assembly >>)) /\ UNCHANGED << held, contract >>
  BY <1>2 DEF FindManagedType
<1>4. InHands'
  BY <1>3 DEF InHands
<1>5. AnswerFits(last', held', contract')
  <2>1. last'.call = "find" /\ last'.of = w /\ last'.value = Python("descriptor", << x.assembly >>)
    BY <1>3, AnswerFields
  <2>2. last'.value.kind \in PythonKinds
    BY <2>1, Answers DEF PythonKinds
  <2>3. QED BY <1>1, <2>1, <2>2 DEF AnswerFits
<1>6. QED BY <1>4, <1>5

\* The exception types of the bridge.
LEMMA ExceptionTypesKeeps ==
  ASSUME InHands, ExceptionTypes
  PROVE  InHands' /\ AnswerFits(last', held', contract')
<1>1. \A type \in microsoft_ai_exception_types : Resolves(type, "AIKernel.Providers.MicrosoftAI")
  <2>1. "AIKernel.Providers.MicrosoftAI" \in LoadedAssemblies
    BY DEF LoadedAssemblies
  <2>2. \A type \in microsoft_ai_exception_types : \E members : Known(type, "AIKernel.Providers.MicrosoftAI",
        members)
    BY MicrosoftAI_Known
  <2>3. QED BY <2>1, <2>2 DEF Known, Resolves
<1>2. Answer("exception_types", "none", "none", Python("dict", << >>)) /\ UNCHANGED << held, contract >>
  BY <1>1 DEF ExceptionTypes
<1>3. InHands'
  BY <1>2 DEF InHands
<1>4. AnswerFits(last', held', contract')
  BY <1>2, PlainAnswer, Answers DEF PythonKinds
<1>5. QED BY <1>3, <1>4

\* A conversion that suits some type makes a Python value.
LEMMA ConvertedKinds ==
  ASSUME NEW as, NEW declared, Suits(as, declared), NEW v
  PROVE  Convert(as, v).kind \in PythonKinds
<1>1. as \in {"str", "str | None", "int", "int | None", "bool", "tuple", "dict", "messages",
              "wrapper", "managed"}
  BY DEF Suits
<1>2. AsStr(v).kind \in PythonKinds
  BY Answers DEF AsStr, PythonKinds
<1>3. AsInt(v).kind \in PythonKinds
  BY Answers DEF AsInt, PythonKinds
<1>4. AsBool(v).kind \in PythonKinds /\ AsTuple(v).kind \in PythonKinds
  BY Answers DEF AsBool, AsTuple, PythonKinds
<1>5. to_python_dict(v).kind \in PythonKinds
  BY Answers DEF to_python_dict, PythonKinds
<1>6. \A items : Python("NoneType", items).kind \in PythonKinds /\ Python("tuple", items).kind \in PythonKinds
                 /\ Python("wrapper", items).kind \in PythonKinds
                 /\ Python("managed", items).kind \in PythonKinds
  BY Answers DEF PythonKinds
<1> HIDE DEF PythonKinds
<1>7. QED BY <1>1, <1>2, <1>3, <1>4, <1>5, <1>6 DEF Convert

\* An attribute of a wrapped object.
LEMMA ReadAttributeKeeps ==
  ASSUME InHands, NEW attribute, ReadAttribute(attribute)
  PROVE  InHands' /\ AnswerFits(last', held', contract')
<1>1. PICK h \in ToSet(held) : held = << h >> /\ HeldFits(h)
  BY DEF ReadAttribute, InHands
<1> DEFINE x == Wrappers[h.wrapper]
           v == MemberOf(h, x.reads[attribute].member)
           value == Convert(x.reads[attribute].as, v)
<1>2. Head(held) = h
  BY <1>1, SingleElements
<1>3. /\ attribute \in DOMAIN x.reads
      /\ Answer("read", h.wrapper, attribute, Attribute(x, h, attribute))
      /\ UNCHANGED << held, contract >>
  BY <1>2 DEF ReadAttribute
<1>4. /\ Attribute(x, h, attribute) = value /\ Shows(value, v)
      /\ \E declared : Suits(x.reads[attribute].as, declared)
  BY <1>1, <1>3, AttributeShows
<1>5. value.kind \in PythonKinds
  BY <1>4, ConvertedKinds
<1>6. h.wrapper # "CapabilityContract"
  <2>1. h.wrapper \in DOMAIN Wrappers
    BY <1>1 DEF HeldFits
  <2>2. QED BY <2>1, WrapperTable
<1>7. InHands'
  BY <1>3 DEF InHands
<1> HIDE DEF value
<1>8. last'.call = "read" /\ last'.of = h.wrapper /\ last'.attribute = attribute /\ last'.value = value
  BY <1>3, <1>4, AnswerFields
<1>9. AnswerFits(last', held', contract')
  BY <1>2, <1>3, <1>4, <1>5, <1>6, <1>8 DEF AnswerFits
<1>10. QED BY <1>7, <1>9

\* An attribute of a contract.
LEMMA ReadContractKeeps ==
  ASSUME InHands, NEW attribute, ReadContract(attribute)
  PROVE  InHands' /\ AnswerFits(last', held', contract')
<1>1. PICK c \in ToSet(contract) : contract = << c >> /\ ContractFits(c)
  BY DEF ReadContract, InHands
<1> DEFINE read == CapabilityContract.reads[attribute]
           v == c.object.members[read.member]
           value == Convert(read.as, v)
<1>2. Head(contract) = c
  BY <1>1, SingleElements
<1>3. /\ attribute \in DOMAIN CapabilityContract.reads
      /\ Answer("read", "CapabilityContract", attribute, Attribute(CapabilityContract, c.object, attribute))
      /\ UNCHANGED << held, contract >>
  BY <1>2 DEF ReadContract
<1>4. Fitting(read, CapabilityModuleDescriptor)
  BY <1>3, ContractReadsFit DEF FitsMembers
<1>5. /\ DOMAIN c.object.members = DOMAIN CapabilityModuleDescriptor
      /\ \A m \in DOMAIN CapabilityModuleDescriptor :
           Fits(c.object.members[m], CapabilityModuleDescriptor[m])
  BY <1>1, ContractShows
<1>6. /\ read.member \in DOMAIN CapabilityModuleDescriptor
      /\ Suits(read.as, CapabilityModuleDescriptor[read.member])
  BY <1>4 DEF Fitting
<1>7. Shows(value, v) /\ value.kind \in PythonKinds
  BY <1>5, <1>6, Conversion, ConvertedKinds
<1>8. read.member # "ToMetadata"
  BY <1>6, ContractDeclared
<1>9. Attribute(CapabilityContract, c.object, attribute) = value
  BY <1>5, <1>6, <1>8 DEF Attribute, MemberOf
<1>10. InHands'
  BY <1>3 DEF InHands
<1> HIDE DEF value
<1>11. last'.call = "read" /\ last'.of = "CapabilityContract" /\ last'.attribute = attribute /\ last'.value = value
  BY <1>3, <1>9, AnswerFields
<1>12. AnswerFits(last', held', contract')
  BY <1>2, <1>3, <1>7, <1>11 DEF AnswerFits
<1>13. QED BY <1>10, <1>12

\* The bridge of a capability is found, and only an endpoint may be refused.
LEMMA BridgesResolve ==
  ASSUME NEW f \in Families
  PROVE  /\ Resolves(Capabilities[f].bridge, Capabilities[f].assembly)
         /\ \A i \in DOMAIN Capabilities[f].fields : Parameters(f)[i] = "Endpoint" => f = "ChatOpenAI"
<1> DEFINE Goal == /\ \E members : Known(Capabilities[f].bridge, Capabilities[f].assembly, members)
                   /\ Capabilities[f].assembly \in LoadedAssemblies
                   /\ \A i \in DOMAIN Capabilities[f].fields :
                        Parameters(f)[i] = "Endpoint" => f = "ChatOpenAI"
<1>1. ASSUME f = "ChatOpenAI" PROVE Goal
  <2>1. Capabilities[f].bridge = OpenAIType("ChatOpenAIPythonBridge")
    BY <1>1, ChatOpenAI_Passing, FamilyTypes
  <2>2. \E members : Known(Capabilities[f].bridge, Capabilities[f].assembly, members)
    BY <1>1, <2>1, ChatOpenAI_Passing, ChatOpenAI_Known
  <2>3. QED BY <1>1, <2>2, ChatOpenAI_Passing DEF LoadedAssemblies
<1>2. ASSUME f = "ChatHistory" PROVE Goal
  <2>1. Capabilities[f].bridge = HistoryType("ChatHistoryPythonBridge")
    BY <1>2, ChatHistory_Passing, FamilyTypes
  <2>2. \E members : Known(Capabilities[f].bridge, Capabilities[f].assembly, members)
    BY <1>2, <2>1, ChatHistory_Passing, ChatHistory_Known
  <2>3. QED BY <1>2, <2>2, ChatHistory_Passing DEF LoadedAssemblies
<1>3. ASSUME f = "CudaCompute" PROVE Goal
  <2>1. Capabilities[f].bridge = CudaType("CudaComputePythonBridge")
    BY <1>3, CudaCompute_Passing, FamilyTypes
  <2>2. \E members : Known(Capabilities[f].bridge, Capabilities[f].assembly, members)
    BY <1>3, <2>1, CudaCompute_Passing, CudaCompute_Known
  <2>3. QED BY <1>3, <2>2, CudaCompute_Passing DEF LoadedAssemblies
<1>4. ASSUME f = "DynamicPipelineCompiler" PROVE Goal
  <2>1. Capabilities[f].bridge = PipelineType("DynamicPipelineCompilerPythonBridge")
    BY <1>4, DynamicPipelineCompiler_Passing, FamilyTypes
  <2>2. \E members : Known(Capabilities[f].bridge, Capabilities[f].assembly, members)
    BY <1>4, <2>1, DynamicPipelineCompiler_Passing, DynamicPipelineCompiler_Known
  <2>3. QED BY <1>4, <2>2, DynamicPipelineCompiler_Passing DEF LoadedAssemblies
<1>5. ASSUME f = "LocalLlm" PROVE Goal
  <2>1. Capabilities[f].bridge = LlmType("LocalLlmPythonBridge")
    BY <1>5, LocalLlm_Passing, FamilyTypes
  <2>2. \E members : Known(Capabilities[f].bridge, Capabilities[f].assembly, members)
    BY <1>5, <2>1, LocalLlm_Passing, LocalLlm_Known
  <2>3. QED BY <1>5, <2>2, LocalLlm_Passing DEF LoadedAssemblies
<1>6. Goal
  BY <1>1, <1>2, <1>3, <1>4, <1>5 DEF Families
<1>7. QED BY <1>6 DEF Known, Resolves

\* A contract made from arguments.
LEMMA MakeContractKeeps ==
  ASSUME InHands, NEW f \in Families, NEW given \in ArgumentsOf(f), MakeContract(f, given)
  PROVE  InHands' /\ AnswerFits(last', held', contract')
<1> DEFINE args == Passed(f, given)
           c == [family |-> f, given |-> given,
                 object |-> [type |-> CapabilityContract.type, members |-> ToContract(f, args)]]
<1>1. Carried(f) /\ Resolves(Capabilities[f].bridge, Capabilities[f].assembly)
  BY AllCarried, BridgesResolve
<1>2. DOMAIN args = DOMAIN Capabilities[f].fields /\ Len(args) = Len(Parameters(f))
  BY <1>1 DEF Carried, Passed
<1>3. DOMAIN given = ToSet(Capabilities[f].fields)
  BY DEF ArgumentsOf
<1>4. IF ~Accepted(f, args) THEN Fail("to_contract", f, "TargetInvocationException")
      ELSE /\ Answer("to_contract", f, "none", Python("wrapper", << "CapabilityContract" >>))
           /\ contract' = << c >> /\ UNCHANGED held
  BY <1>1, <1>2 DEF MakeContract, Passed
<1>5. ~Accepted(f, args) => f = "ChatOpenAI"
  BY <1>2, BridgesResolve DEF Accepted
<1>6. ASSUME ~Accepted(f, args)
      PROVE  InHands' /\ AnswerFits(last', held', contract')
  <2>1. Fail("to_contract", f, "TargetInvocationException") /\ f = "ChatOpenAI"
    BY <1>4, <1>5, <1>6
  <2>2. InHands'
    BY <2>1 DEF Fail, InHands
  <2>3. AnswerFits(last', held', contract')
    BY <2>1, PlainAnswer, Answers DEF Fail, PythonKinds
  <2>4. QED BY <2>2, <2>3
<1>7. ASSUME Accepted(f, args)
      PROVE  InHands' /\ AnswerFits(last', held', contract')
  <2>1. /\ Answer("to_contract", f, "none", Python("wrapper", << "CapabilityContract" >>))
        /\ contract' = << c >> /\ held' = held
    BY <1>4, <1>7
  <2>2. ContractFits(c)
    BY <1>3 DEF ContractFits
  <2>3. InHands'
    <3> HIDE DEF c
    <3>1. c \in ToSet(contract')
      BY <2>1, SingleElements
    <3>2. QED BY <2>1, <2>2, <3>1 DEF InHands
  <2>4. AnswerFits(last', held', contract')
    BY <2>1, PlainAnswer, Answers DEF PythonKinds
  <2>5. QED BY <2>3, <2>4
<1>8. QED BY <1>6, <1>7

\* The inductive invariant holds at first.
LEMMA SurfaceInvInit == SurfaceInit => SurfaceInv
<1> SUFFICES ASSUME SurfaceInit PROVE SurfaceInv
  OBVIOUS
<1>1. InHands
  BY DEF SurfaceInit, InHands
<1>2. AnswerFits(last, held, contract)
  BY Answers DEF SurfaceInit, NoCall, AnswerFits, PythonKinds
<1>3. QED BY <1>1, <1>2 DEF SurfaceInv

\* Every call keeps the inductive invariant.
LEMMA SurfaceInvStep == SurfaceInv /\ [SurfaceNext]_surfaceVars => SurfaceInv'
<1> SUFFICES ASSUME SurfaceInv, [SurfaceNext]_surfaceVars PROVE SurfaceInv'
  OBVIOUS
<1>0. InHands /\ AnswerFits(last, held, contract)
  BY DEF SurfaceInv
<1>1. ASSUME NEW w \in DOMAIN Wrappers,
             CreateByActivator(w) \/ CreateByMethod(w) \/ WrapGiven(w) \/ FindManagedType(w)
      PROVE  SurfaceInv'
  BY <1>0, <1>1, CreateByActivatorKeeps, CreateByMethodKeeps, WrapGivenKeeps, FindManagedTypeKeeps
     DEF SurfaceInv
<1>2. ASSUME NEW attribute, ReadAttribute(attribute) \/ ReadContract(attribute)
      PROVE  SurfaceInv'
  BY <1>0, <1>2, ReadAttributeKeeps, ReadContractKeeps DEF SurfaceInv
<1>3. ASSUME NEW f \in Families, NEW given \in ArgumentsOf(f), MakeContract(f, given)
      PROVE  SurfaceInv'
  BY <1>0, <1>3, MakeContractKeeps DEF SurfaceInv
<1>4. CASE ExceptionTypes
  BY <1>0, <1>4, ExceptionTypesKeeps DEF SurfaceInv
<1>5. CASE LetGo
  <2>1. held' = << >> /\ contract' = << >> /\ last' = NoCall
    BY <1>5 DEF LetGo
  <2>2. InHands'
    BY <2>1 DEF InHands
  <2>3. AnswerFits(last', held', contract')
    BY <2>1, Answers DEF NoCall, AnswerFits, PythonKinds
  <2>4. QED BY <2>2, <2>3 DEF SurfaceInv
<1>6. CASE UNCHANGED surfaceVars
  BY <1>0, <1>6 DEF surfaceVars, SurfaceInv, InHands
<1>7. QED BY <1>1, <1>2, <1>3, <1>4, <1>5, <1>6 DEF SurfaceNext

\* The inductive invariant holds always.
LEMMA SurfaceInvCorrect == SurfaceSpec => []SurfaceInv
BY SurfaceInvInit, SurfaceInvStep, PTL DEF SurfaceSpec

\* The objects in the caller's hands, one by one.
LEMMA HandsFit ==
  ASSUME InHands
  PROVE  /\ Len(held) <= 1 /\ \A h \in ToSet(held) : held = << h >> /\ HeldFits(h)
         /\ Len(contract) <= 1 /\ \A c \in ToSet(contract) : contract = << c >> /\ ContractFits(c)
<1>1. Len(held) <= 1 /\ \A h \in ToSet(held) : held = << h >> /\ HeldFits(h)
  <2>1. CASE held = << >>
    BY <2>1, SingleElements
  <2>2. ASSUME NEW g \in ToSet(held), held = << g >>, HeldFits(g)
        PROVE  Len(held) <= 1 /\ \A h \in ToSet(held) : held = << h >> /\ HeldFits(h)
    <3>1. ToSet(held) = {g} /\ Len(held) = 1
      BY <2>2, SingleElements
    <3>2. QED BY <2>2, <3>1
  <2>3. QED BY <2>1, <2>2 DEF InHands
<1>2. Len(contract) <= 1 /\ \A c \in ToSet(contract) : contract = << c >> /\ ContractFits(c)
  <2>1. CASE contract = << >>
    BY <2>1, SingleElements
  <2>2. ASSUME NEW d \in ToSet(contract), contract = << d >>, ContractFits(d)
        PROVE  Len(contract) <= 1 /\ \A c \in ToSet(contract) : contract = << c >> /\ ContractFits(c)
    <3>1. ToSet(contract) = {d} /\ Len(contract) = 1
      BY <2>2, SingleElements
    <3>2. QED BY <2>2, <3>1
  <2>3. QED BY <2>1, <2>2 DEF InHands
<1>3. QED BY <1>1, <1>2

\* For all texts and URIs: what a caller gets is a Python value, and what it
\* holds has the members of the managed types that it is for.
THEOREM SurfaceTypeCorrect == SurfaceSpec => []SurfaceTypeOK
<1>1. SurfaceInv => SurfaceTypeOK
  <2> SUFFICES ASSUME SurfaceInv PROVE SurfaceTypeOK
    OBVIOUS
  <2>1. InHands /\ last.value.kind \in PythonKinds
    BY DEF SurfaceInv, AnswerFits
  <2>2. Len(held) <= 1 /\ \A h \in ToSet(held) : HeldFits(h)
    BY <2>1, HandsFit
  <2>3. Len(contract) <= 1 /\ \A c \in ToSet(contract) : ContractFits(c)
    BY <2>1, HandsFit
  <2>4. \A c \in ToSet(contract) : c.family \in Families /\ DOMAIN c.object.members = DOMAIN CapabilityModuleDescriptor
    BY <2>3, ContractShows DEF ContractFits
  <2>5. QED BY <2>1, <2>2, <2>3, <2>4 DEF SurfaceTypeOK, HeldFits
<1>2. QED BY <1>1, SurfaceInvCorrect, PTL

\* For all texts and URIs: the wrappers fit the managed types that they name.
THEOREM WrappersFitTheirTypesCorrect == SurfaceSpec => []WrappersFitTheirTypes
<1>1. SurfaceInv => WrappersFitTheirTypes
  <2> SUFFICES ASSUME SurfaceInv PROVE WrappersFitTheirTypes
    OBVIOUS
  <2>1. InHands /\ AnswerFits(last, held, contract)
    BY DEF SurfaceInv
  <2>2. \A h \in ToSet(held) : h.type = Wrappers[h.wrapper].type
    BY <2>1, HandsFit DEF HeldFits
  <2>3. QED BY <2>1, <2>2, Announced DEF WrappersFitTheirTypes, AnswerFits
<1>2. QED BY <1>1, SurfaceInvCorrect, PTL
-----------------------------------------------------------------------------
(* Contracts and settings.                                                 *)

\* The wrapper of a settings object is the settings wrapper of its family.
LEMMA SettingsWrapper ==
  ASSUME NEW w \in DOMAIN Wrappers, NEW f \in Families, Wrappers[w].type = Settings[f]
  PROVE  Wrappers[w] = SettingsOf(f)
<1>1. w \notin DOMAIN Drivers
  <2>1. SUFFICES ASSUME w \in DOMAIN Drivers PROVE FALSE
    OBVIOUS
  <2>2. Wrappers[w].type[1] = Drivers[w].type[1]
    BY <2>1 DEF Wrappers, ++
  <2>3. Settings[f][1] \notin {"AIKernel.Providers.Standard.Compute", FileSystems, Loggers, Networks,
                               Supervisors, "AIKernel.Providers.Standard.EventBus",
                               "AIKernel.Providers.Standard.Scheduler",
                               "AIKernel.Providers.Standard.Profiler"}
    BY FamilyTypes DEF Families, FileSystems, Loggers, Networks, Supervisors
  <2>4. QED BY <2>1, <2>2, <2>3, DriverTypes DEF IsDriver, DriverNamespaces
<1>2. /\ SettingsOf("ChatOpenAI") = ChatOpenAISettings /\ SettingsOf("ChatHistory") = ChatHistorySettings
      /\ SettingsOf("CudaCompute") = CudaComputeSettings
      /\ SettingsOf("DynamicPipelineCompiler") = DynamicPipelineCompilerSettings
      /\ SettingsOf("LocalLlm") = LocalLlmSettings
  BY ChatOpenAI_Passing, ChatHistory_Passing, CudaCompute_Passing, DynamicPipelineCompiler_Passing,
     LocalLlm_Passing
<1> DEFINE SettingsNames == {"ChatOpenAISettings", "ChatHistorySettings", "CudaComputeSettings",
    "DynamicPipelineCompilerSettings", "LocalLlmSettings"}
<1>3. Settings[f][2] \in SettingsNames
  BY FamilyTypes DEF Families
<1>4. w \notin {"ChatOpenAIClient", "ChatOpenAIInvoker", "ChatOpenAIProvider"}
  BY <1>3, WrapperTable, ChatOpenAIClient_Type, ChatOpenAIInvoker_Type, ChatOpenAIProvider_Type
<1>5. w \notin {"ChatHistory", "ChatHistoryInvoker", "ChatHistoryProvider", "ChatHistoryRecord"}
  BY <1>3, WrapperTable, ChatHistoryMessages_Type, ChatHistoryInvoker_Type, ChatHistoryProvider_Type,
      ChatHistoryRecord_Type
<1>6. w \notin {"CudaComputeInvoker", "CudaComputeProvider"}
  BY <1>3, WrapperTable, CudaComputeInvoker_Type, CudaComputeProvider_Type
<1>7. w \notin {"DynamicPipelineCompilerInvoker", "DynamicPipelineCompilerProvider"}
  BY <1>3, WrapperTable, DynamicPipelineCompilerInvoker_Type, DynamicPipelineCompilerProvider_Type
<1>8. w \notin {"LocalLlmInvoker", "LocalLlmProvider"}
  BY <1>3, WrapperTable, LocalLlmInvoker_Type, LocalLlmProvider_Type
<1>9. w \notin {"MicrosoftAICredential", "MicrosoftAIHealthContext", "MicrosoftAIProvider",
      "MicrosoftAIProviderCapabilities", "MicrosoftAIProviderOptions",
      "MicrosoftAIProviderOptionsValidator", "MicrosoftAIResponseMapper", "MicrosoftAIResponseProjection"}
  BY <1>3, WrapperTable, MicrosoftAICredential_Type, MicrosoftAIHealthContext_Type, MicrosoftAIProvider_Type,
     MicrosoftAIProviderCapabilities_Type, MicrosoftAIProviderOptions_Type,
     MicrosoftAIProviderOptionsValidator_Type, MicrosoftAIResponseMapper_Type,
     MicrosoftAIResponseProjection_Type DEF MicrosoftType
<1>10. w \in SettingsNames
  BY <1>1, <1>4, <1>5, <1>6, <1>7, <1>8, <1>9, WrapperTable
<1>11. QED BY <1>2, <1>10, WrapperTable, FamilyTypes,
        ChatOpenAISettings_Type, ChatHistorySettings_Type, CudaComputeSettings_Type,
        DynamicPipelineCompilerSettings_Type, LocalLlmSettings_Type DEF Families

\* The settings of a family: who they are, and how they are read.
SettingsKnown(f) ==
  /\ LET reads == SettingsOf(f).reads IN
     /\ {"to_metadata", "name", "version"} \subseteq DOMAIN reads
     /\ reads["to_metadata"] = Read("ToMetadata", "dict")
     /\ reads["name"] = Str("Name") /\ reads["version"] = Str("Version")
  /\ DOMAIN Defaults(f) \cup {"ToMetadata"} \subseteq DOMAIN Members(Settings[f])
  /\ {"Name", "Version"} \subseteq DOMAIN Defaults(f)
  /\ Defaults(f)["Version"] = Text("0.1.1") /\ Defaults(f)["Name"].kind = "string"
  /\ \A i \in DOMAIN Parameters(f) : Parameters(f)[i] \notin {"Name", "Version"}

\* The metadata of settings: they show the version and the arguments, and tell
\* no more than the settings do.
MetadataTells(f) ==
  /\ \A s : /\ "version" \in DOMAIN ToMetadata(f, s)
            /\ ToMetadata(f, s)["version"] = s["Version"].items.value
  /\ \A s, t : (\A m \in DOMAIN Defaults(f) \ {"ApiKey"} : Same(s[m], t[m]))
                 => ToMetadata(f, s) = ToMetadata(f, t)
  /\ \A i \in DOMAIN Parameters(f) :
       LET m == Parameters(f)[i]
           name == Capabilities[f].fields[i]
       IN  /\ name = "provider_id" => m = "ProviderId"
           /\ name # "provider_id" => \A s :
                ToMetadata(f, s)[name] =
                  IF name = "endpoint" THEN WithoutSlash[s[m].items.value] ELSE s[m].items.value

\* ChatOpenAI: the settings and their metadata.
LEMMA ChatOpenAI_Settled == SettingsKnown("ChatOpenAI") /\ MetadataTells("ChatOpenAI")
<1> DEFINE F == "ChatOpenAI"
<1>1. LET reads == SettingsOf(F).reads IN
        /\ {"to_metadata", "name", "version"} \subseteq DOMAIN reads
        /\ reads["to_metadata"] = Read("ToMetadata", "dict")
        /\ reads["name"] = Str("Name") /\ reads["version"] = Str("Version")
  <2>1. SettingsOf(F) = ChatOpenAISettings
    BY ChatOpenAI_Passing
  <2>2. QED BY <2>1 DEF ChatOpenAISettings, Wrapper, Identity, Metadata, ++
<1>2. DOMAIN Defaults(F) \cup {"ToMetadata"} \subseteq DOMAIN Members(Settings[F])
  <2>1. Known(Settings[F], "ChatOpenAIProvider", ChatOpenAISettingsType.members)
    BY ChatOpenAI_Known, FamilyTypes DEF OpenAIType
  <2>2. PICK more : Members(Settings[F]) = ChatOpenAISettingsType.members ++ more
    BY <2>1, MembersOf, ContractTypeIsOther DEF Families
  <2>3. DOMAIN ChatOpenAISettingsType.members \subseteq DOMAIN Members(Settings[F])
    BY <2>2 DEF ++
  <2>4. QED BY <2>3, ChatOpenAISettingsType_Declared, ChatOpenAISettingsType_Defaults DEF DefaultsFit
<1>3. /\ {"Name", "Version"} \subseteq DOMAIN Defaults(F)
      /\ Defaults(F)["Version"] = Text("0.1.1") /\ Defaults(F)["Name"].kind = "string"
  <2>1. Defaults(F)["Name"] = Text("Chat OpenAI Provider")
    BY ChatOpenAI_DefaultSettings
  <2>2. Text("Chat OpenAI Provider").kind = "string"
    BY TextKinds
  <2>3. QED BY <2>1, <2>2, ChatOpenAI_DefaultSettings
<1>4. DOMAIN Parameters(F) = 1..3
  BY ChatOpenAI_Passing
<1>5. Parameters(F)[1] = "ProviderId" /\ Parameters(F)[2] = "Model" /\ Parameters(F)[3] = "Endpoint"
  BY ChatOpenAI_Passing
<1>6. Capabilities[F].fields[1] = "provider_id" /\ Capabilities[F].fields[2] = "model" /\ Capabilities[F].fields[3] = "endpoint"
  BY ChatOpenAI_Passing
<1>7. SettingsKnown(F)
  BY <1>1, <1>2, <1>3, <1>4, <1>5 DEF SettingsKnown
<1>8. \A s, t : (\A m \in DOMAIN Defaults(F) \ {"ApiKey"} : Same(s[m], t[m]))
                    => ToMetadata(F, s) = ToMetadata(F, t)
  BY ChatOpenAI_DefaultSettings, ChatOpenAI_SameMetadata
<1>9. \A i \in 1..3 : LET m == Parameters(F)[i]
                          name == Capabilities[F].fields[i] IN
        /\ name = "provider_id" => m = "ProviderId"
        /\ name # "provider_id" => \A s :
             ToMetadata(F, s)[name] =
               IF name = "endpoint" THEN WithoutSlash[s[m].items.value] ELSE s[m].items.value
  <2>1. \A i \in 1..3 : i = 1 \/ i = 2 \/ i = 3
    OBVIOUS
  <2>2. QED BY <1>5, <1>6, <2>1, ChatOpenAI_Metadata, ZenonT(60)
<1>10. MetadataTells(F)
  BY <1>4, <1>8, <1>9, ChatOpenAI_Metadata DEF MetadataTells
<1>11. QED BY <1>7, <1>10

\* ChatHistory: the settings and their metadata.
LEMMA ChatHistory_Settled == SettingsKnown("ChatHistory") /\ MetadataTells("ChatHistory")
<1> DEFINE F == "ChatHistory"
<1>1. LET reads == SettingsOf(F).reads IN
        /\ {"to_metadata", "name", "version"} \subseteq DOMAIN reads
        /\ reads["to_metadata"] = Read("ToMetadata", "dict")
        /\ reads["name"] = Str("Name") /\ reads["version"] = Str("Version")
  <2>1. SettingsOf(F) = ChatHistorySettings
    BY ChatHistory_Passing
  <2>2. QED BY <2>1 DEF ChatHistorySettings, Wrapper, Identity, Metadata, ++
<1>2. DOMAIN Defaults(F) \cup {"ToMetadata"} \subseteq DOMAIN Members(Settings[F])
  <2>1. Known(Settings[F], "ChatHistoryProvider", ChatHistorySettingsType.members)
    BY ChatHistory_Known, FamilyTypes DEF HistoryType
  <2>2. PICK more : Members(Settings[F]) = ChatHistorySettingsType.members ++ more
    BY <2>1, MembersOf, ContractTypeIsOther DEF Families
  <2>3. DOMAIN ChatHistorySettingsType.members \subseteq DOMAIN Members(Settings[F])
    BY <2>2 DEF ++
  <2>4. QED BY <2>3, ChatHistorySettingsType_Declared, ChatHistorySettingsType_Defaults DEF DefaultsFit
<1>3. /\ {"Name", "Version"} \subseteq DOMAIN Defaults(F)
      /\ Defaults(F)["Version"] = Text("0.1.1") /\ Defaults(F)["Name"].kind = "string"
  <2>1. Defaults(F)["Name"] = Text("Chat History Provider")
    BY ChatHistory_DefaultSettings
  <2>2. Text("Chat History Provider").kind = "string"
    BY TextKinds
  <2>3. QED BY <2>1, <2>2, ChatHistory_DefaultSettings
<1>4. DOMAIN Parameters(F) = 1..1
  BY ChatHistory_Passing
<1>5. Parameters(F)[1] = "ProviderId"
  BY ChatHistory_Passing
<1>6. Capabilities[F].fields[1] = "provider_id"
  BY ChatHistory_Passing
<1>7. SettingsKnown(F)
  BY <1>1, <1>2, <1>3, <1>4, <1>5 DEF SettingsKnown
<1>8. \A s, t : (\A m \in DOMAIN Defaults(F) \ {"ApiKey"} : Same(s[m], t[m]))
                    => ToMetadata(F, s) = ToMetadata(F, t)
  BY ChatHistory_DefaultSettings, ChatHistory_SameMetadata
<1>9. \A i \in 1..1 : LET m == Parameters(F)[i]
                          name == Capabilities[F].fields[i] IN
        /\ name = "provider_id" => m = "ProviderId"
        /\ name # "provider_id" => \A s :
             ToMetadata(F, s)[name] =
               IF name = "endpoint" THEN WithoutSlash[s[m].items.value] ELSE s[m].items.value
  <2>1. \A i \in 1..1 : i = 1
    OBVIOUS
  <2>2. QED BY <1>5, <1>6, <2>1, ChatHistory_Metadata
<1>10. MetadataTells(F)
  BY <1>4, <1>8, <1>9, ChatHistory_Metadata DEF MetadataTells
<1>11. QED BY <1>7, <1>10

\* CudaCompute: the settings and their metadata.
LEMMA CudaCompute_Settled == SettingsKnown("CudaCompute") /\ MetadataTells("CudaCompute")
<1> DEFINE F == "CudaCompute"
<1>1. LET reads == SettingsOf(F).reads IN
        /\ {"to_metadata", "name", "version"} \subseteq DOMAIN reads
        /\ reads["to_metadata"] = Read("ToMetadata", "dict")
        /\ reads["name"] = Str("Name") /\ reads["version"] = Str("Version")
  <2>1. SettingsOf(F) = CudaComputeSettings
    BY CudaCompute_Passing
  <2>2. QED BY <2>1 DEF CudaComputeSettings, Wrapper, Identity, Metadata, ++
<1>2. DOMAIN Defaults(F) \cup {"ToMetadata"} \subseteq DOMAIN Members(Settings[F])
  <2>1. Known(Settings[F], "CudaComputeProvider", CudaComputeSettingsType.members)
    BY CudaCompute_Known, FamilyTypes DEF CudaType
  <2>2. PICK more : Members(Settings[F]) = CudaComputeSettingsType.members ++ more
    BY <2>1, MembersOf, ContractTypeIsOther DEF Families
  <2>3. DOMAIN CudaComputeSettingsType.members \subseteq DOMAIN Members(Settings[F])
    BY <2>2 DEF ++
  <2>4. QED BY <2>3, CudaComputeSettingsType_Declared, CudaComputeSettingsType_Defaults DEF DefaultsFit
<1>3. /\ {"Name", "Version"} \subseteq DOMAIN Defaults(F)
      /\ Defaults(F)["Version"] = Text("0.1.1") /\ Defaults(F)["Name"].kind = "string"
  <2>1. Defaults(F)["Name"] = Text("CUDA Compute Provider")
    BY CudaCompute_DefaultSettings
  <2>2. Text("CUDA Compute Provider").kind = "string"
    BY TextKinds
  <2>3. QED BY <2>1, <2>2, CudaCompute_DefaultSettings
<1>4. DOMAIN Parameters(F) = 1..2
  BY CudaCompute_Passing
<1>5. Parameters(F)[1] = "ProviderId" /\ Parameters(F)[2] = "DeviceProfile"
  BY CudaCompute_Passing
<1>6. Capabilities[F].fields[1] = "provider_id" /\ Capabilities[F].fields[2] = "device_profile"
  BY CudaCompute_Passing
<1>7. SettingsKnown(F)
  BY <1>1, <1>2, <1>3, <1>4, <1>5 DEF SettingsKnown
<1>8. \A s, t : (\A m \in DOMAIN Defaults(F) \ {"ApiKey"} : Same(s[m], t[m]))
                    => ToMetadata(F, s) = ToMetadata(F, t)
  BY CudaCompute_DefaultSettings, CudaCompute_SameMetadata
<1>9. \A i \in 1..2 : LET m == Parameters(F)[i]
                          name == Capabilities[F].fields[i] IN
        /\ name = "provider_id" => m = "ProviderId"
        /\ name # "provider_id" => \A s :
             ToMetadata(F, s)[name] =
               IF name = "endpoint" THEN WithoutSlash[s[m].items.value] ELSE s[m].items.value
  <2>1. \A i \in 1..2 : i = 1 \/ i = 2
    OBVIOUS
  <2>2. QED BY <1>5, <1>6, <2>1, CudaCompute_Metadata
<1>10. MetadataTells(F)
  BY <1>4, <1>8, <1>9, CudaCompute_Metadata DEF MetadataTells
<1>11. QED BY <1>7, <1>10

\* DynamicPipelineCompiler: the settings and their metadata.
LEMMA DynamicPipelineCompiler_Settled == SettingsKnown("DynamicPipelineCompiler") /\ MetadataTells("DynamicPipelineCompiler")
<1> DEFINE F == "DynamicPipelineCompiler"
<1>1. LET reads == SettingsOf(F).reads IN
        /\ {"to_metadata", "name", "version"} \subseteq DOMAIN reads
        /\ reads["to_metadata"] = Read("ToMetadata", "dict")
        /\ reads["name"] = Str("Name") /\ reads["version"] = Str("Version")
  <2>1. SettingsOf(F) = DynamicPipelineCompilerSettings
    BY DynamicPipelineCompiler_Passing
  <2>2. QED BY <2>1 DEF DynamicPipelineCompilerSettings, Wrapper, Identity, Metadata, ++
<1>2. DOMAIN Defaults(F) \cup {"ToMetadata"} \subseteq DOMAIN Members(Settings[F])
  <2>1. Known(Settings[F], "DynamicPipelineCompilerProvider", DynamicPipelineCompilerSettingsType.members)
    BY DynamicPipelineCompiler_Known, FamilyTypes DEF PipelineType
  <2>2. PICK more : Members(Settings[F]) = DynamicPipelineCompilerSettingsType.members ++ more
    BY <2>1, MembersOf, ContractTypeIsOther DEF Families
  <2>3. DOMAIN DynamicPipelineCompilerSettingsType.members \subseteq DOMAIN Members(Settings[F])
    BY <2>2 DEF ++
  <2>4. QED BY <2>3, DynamicPipelineCompilerSettingsType_Declared, DynamicPipelineCompilerSettingsType_Defaults
        DEF DefaultsFit
<1>3. /\ {"Name", "Version"} \subseteq DOMAIN Defaults(F)
      /\ Defaults(F)["Version"] = Text("0.1.1") /\ Defaults(F)["Name"].kind = "string"
  <2>1. Defaults(F)["Name"] = Text("Dynamic Pipeline Compiler Provider")
    BY DynamicPipelineCompiler_DefaultSettings
  <2>2. Text("Dynamic Pipeline Compiler Provider").kind = "string"
    BY TextKinds
  <2>3. QED BY <2>1, <2>2, DynamicPipelineCompiler_DefaultSettings
<1>4. DOMAIN Parameters(F) = 1..2
  BY DynamicPipelineCompiler_Passing
<1>5. Parameters(F)[1] = "ProviderId" /\ Parameters(F)[2] = "DslSchemaVersion"
  BY DynamicPipelineCompiler_Passing
<1>6. Capabilities[F].fields[1] = "provider_id" /\ Capabilities[F].fields[2] = "dsl_schema_version"
  BY DynamicPipelineCompiler_Passing
<1>7. SettingsKnown(F)
  BY <1>1, <1>2, <1>3, <1>4, <1>5 DEF SettingsKnown
<1>8. \A s, t : (\A m \in DOMAIN Defaults(F) \ {"ApiKey"} : Same(s[m], t[m]))
                    => ToMetadata(F, s) = ToMetadata(F, t)
  BY DynamicPipelineCompiler_DefaultSettings, DynamicPipelineCompiler_SameMetadata
<1>9. \A i \in 1..2 : LET m == Parameters(F)[i]
                          name == Capabilities[F].fields[i] IN
        /\ name = "provider_id" => m = "ProviderId"
        /\ name # "provider_id" => \A s :
             ToMetadata(F, s)[name] =
               IF name = "endpoint" THEN WithoutSlash[s[m].items.value] ELSE s[m].items.value
  <2>1. \A i \in 1..2 : i = 1 \/ i = 2
    OBVIOUS
  <2>2. QED BY <1>5, <1>6, <2>1, DynamicPipelineCompiler_Metadata
<1>10. MetadataTells(F)
  BY <1>4, <1>8, <1>9, DynamicPipelineCompiler_Metadata DEF MetadataTells
<1>11. QED BY <1>7, <1>10

\* LocalLlm: the settings and their metadata.
LEMMA LocalLlm_Settled == SettingsKnown("LocalLlm") /\ MetadataTells("LocalLlm")
<1> DEFINE F == "LocalLlm"
<1>1. LET reads == SettingsOf(F).reads IN
        /\ {"to_metadata", "name", "version"} \subseteq DOMAIN reads
        /\ reads["to_metadata"] = Read("ToMetadata", "dict")
        /\ reads["name"] = Str("Name") /\ reads["version"] = Str("Version")
  <2>1. SettingsOf(F) = LocalLlmSettings
    BY LocalLlm_Passing
  <2>2. QED BY <2>1 DEF LocalLlmSettings, Wrapper, Identity, Metadata, ++
<1>2. DOMAIN Defaults(F) \cup {"ToMetadata"} \subseteq DOMAIN Members(Settings[F])
  <2>1. Known(Settings[F], "LocalLlmProvider", LocalLlmSettingsType.members)
    BY LocalLlm_Known, FamilyTypes DEF LlmType
  <2>2. PICK more : Members(Settings[F]) = LocalLlmSettingsType.members ++ more
    BY <2>1, MembersOf, ContractTypeIsOther DEF Families
  <2>3. DOMAIN LocalLlmSettingsType.members \subseteq DOMAIN Members(Settings[F])
    BY <2>2 DEF ++
  <2>4. QED BY <2>3, LocalLlmSettingsType_Declared, LocalLlmSettingsType_Defaults DEF DefaultsFit
<1>3. /\ {"Name", "Version"} \subseteq DOMAIN Defaults(F)
      /\ Defaults(F)["Version"] = Text("0.1.1") /\ Defaults(F)["Name"].kind = "string"
  <2>1. Defaults(F)["Name"] = Text("Local LLM Provider")
    BY LocalLlm_DefaultSettings
  <2>2. Text("Local LLM Provider").kind = "string"
    BY TextKinds
  <2>3. QED BY <2>1, <2>2, LocalLlm_DefaultSettings
<1>4. DOMAIN Parameters(F) = 1..2
  BY LocalLlm_Passing
<1>5. Parameters(F)[1] = "ProviderId" /\ Parameters(F)[2] = "Runtime"
  BY LocalLlm_Passing
<1>6. Capabilities[F].fields[1] = "provider_id" /\ Capabilities[F].fields[2] = "runtime"
  BY LocalLlm_Passing
<1>7. SettingsKnown(F)
  BY <1>1, <1>2, <1>3, <1>4, <1>5 DEF SettingsKnown
<1>8. \A s, t : (\A m \in DOMAIN Defaults(F) \ {"ApiKey"} : Same(s[m], t[m]))
                    => ToMetadata(F, s) = ToMetadata(F, t)
  BY LocalLlm_DefaultSettings, LocalLlm_SameMetadata
<1>9. \A i \in 1..2 : LET m == Parameters(F)[i]
                          name == Capabilities[F].fields[i] IN
        /\ name = "provider_id" => m = "ProviderId"
        /\ name # "provider_id" => \A s :
             ToMetadata(F, s)[name] =
               IF name = "endpoint" THEN WithoutSlash[s[m].items.value] ELSE s[m].items.value
  <2>1. \A i \in 1..2 : i = 1 \/ i = 2
    OBVIOUS
  <2>2. QED BY <1>5, <1>6, <2>1, LocalLlm_Metadata
<1>10. MetadataTells(F)
  BY <1>4, <1>8, <1>9, LocalLlm_Metadata DEF MetadataTells
<1>11. QED BY <1>7, <1>10

\* The settings of every family are settled, and tell in their metadata.
LEMMA AllSettled == \A f \in Families : SettingsKnown(f) /\ MetadataTells(f)
BY ChatOpenAI_Settled, ChatHistory_Settled, CudaCompute_Settled, DynamicPipelineCompiler_Settled,
   LocalLlm_Settled DEF Families

\* What is read as a string, or as a dictionary.
LEMMA ConvertedValues ==
  ASSUME NEW v
  PROVE  /\ Convert("str", v) = AsStr(v)
         /\ \A t : AsStr(Text(t)) = Python("str", [value |-> t])
         /\ ~IsNull(v) => AsStr(v).items = v.items
         /\ \A items : Convert("dict", Map(items)) = Python("dict", items)
BY DEF Convert, AsStr, to_python_dict, Map, Text, Managed, Python, IsNull

\* What a contract shows of the settings that were filled in.
LEMMA ContractView ==
  ASSUME NEW c, ContractFits(c)
  PROVE  LET f == c.family
             s == Filled(f, c.given)
             View(a) == Attribute(CapabilityContract, c.object, a)
         IN  /\ View("capability_id") = AsStr(s["ProviderId"])
             /\ View("name") = AsStr(Defaults(f)["Name"])
             /\ View("version") = AsStr(Text(VersionOf(ToMetadata(f, s))))
             /\ View("metadata") = Python("dict", ToMetadata(f, s))
<1> DEFINE f == c.family
           s == Filled(f, c.given)
           d == c.object.members
           View(a) == Attribute(CapabilityContract, c.object, a)
<1>1. /\ DOMAIN d = DOMAIN CapabilityModuleDescriptor
      /\ d["CapabilityId"] = s["ProviderId"] /\ d["Name"] = Defaults(f)["Name"]
      /\ d["Version"] = Text(VersionOf(ToMetadata(f, s))) /\ d["Metadata"] = Map(ToMetadata(f, s))
  BY ContractShows
<1>2. \A member : member # "ToMetadata" => MemberOf(c.object, member) = d[member]
  BY DEF MemberOf
<1>3. ASSUME NEW a, NEW m \in DOMAIN CapabilityModuleDescriptor, m # "ToMetadata",
             CapabilityContract.reads[a] = Str(m)
      PROVE  View(a) = AsStr(d[m])
  <2>1. CapabilityContract.reads[a].member = m /\ CapabilityContract.reads[a].as = "str"
    BY <1>3 DEF Str, Read
  <2>2. View(a) = Convert("str", d[m])
    BY <1>1, <1>2, <1>3, <2>1 DEF Attribute
  <2>3. QED BY <2>2, ConvertedValues
<1> HIDE DEF View
<1>4. View("capability_id") = AsStr(s["ProviderId"])
  <2>1. "CapabilityId" \in DOMAIN CapabilityModuleDescriptor
    BY ContractDeclared
  <2>2. CapabilityContract.reads["capability_id"] = Str("CapabilityId")
    BY ContractReads
  <2>3. QED BY <1>1, <1>3, <2>1, <2>2
<1>5. View("name") = AsStr(Defaults(f)["Name"])
  <2>1. "Name" \in DOMAIN CapabilityModuleDescriptor
    BY ContractDeclared
  <2>2. CapabilityContract.reads["name"] = Str("Name")
    BY ContractReads
  <2>3. QED BY <1>1, <1>3, <2>1, <2>2
<1>6. View("version") = AsStr(Text(VersionOf(ToMetadata(f, s))))
  <2>1. "Version" \in DOMAIN CapabilityModuleDescriptor
    BY ContractDeclared
  <2>2. CapabilityContract.reads["version"] = Str("Version")
    BY ContractReads
  <2>3. QED BY <1>1, <1>3, <2>1, <2>2
<1>7. View("metadata") = Python("dict", ToMetadata(f, s))
  <2>1. CapabilityContract.reads["metadata"].member = "Metadata" /\ CapabilityContract.reads["metadata"].as = "dict"
    BY ContractReads DEF Read
  <2>2. View("metadata") = Convert("dict", Map(ToMetadata(f, s)))
    BY <1>1, <1>2, <2>1, ContractDeclared DEF Attribute, View
  <2>3. QED BY <2>2, ConvertedValues
<1>8. QED BY <1>4, <1>5, <1>6, <1>7 DEF View

\* A contract shows every argument under its own name.
LEMMA ArgumentsShown ==
  ASSUME NEW c, ContractFits(c), NEW name \in DOMAIN c.given
  PROVE  ShownArgument(c, name) = IF name = "endpoint" THEN WithoutSlash[c.given[name]] ELSE c.given[name]
<1> DEFINE f == c.family
           s == Filled(f, c.given)
<1>1. f \in Families /\ Carried(f) /\ MetadataTells(f)
  BY AllCarried, AllSettled DEF ContractFits
<1>2. PICK i \in DOMAIN Capabilities[f].fields : Capabilities[f].fields[i] = name
  BY DEF ContractFits, ToSet
<1> DEFINE m == Parameters(f)[i]
<1>3. s[m] = Managed(Defaults(f)[m].kind, c.given[name])
  BY <1>1, <1>2, FilledMembers
<1>4. s[m].items.value = c.given[name] /\ s[m].kind = Defaults(f)[m].kind
  BY <1>3, TextKinds
<1>5. Defaults(f)[m].kind \in {"string", "Uri"}
  BY <1>1, <1>2 DEF Carried, CarriedAt
<1>6. i \in DOMAIN Parameters(f)
  BY <1>1, <1>2 DEF Carried
<1> HIDE DEF s
<1>7. CASE name = "provider_id"
  <2>1. m = "ProviderId"
    BY <1>1, <1>2, <1>6, <1>7 DEF MetadataTells
  <2>2. ~IsNull(s[m])
    BY <1>4, <1>5 DEF IsNull
  <2>3. Attribute(CapabilityContract, c.object, "capability_id") = AsStr(s[m])
    BY <2>1, ContractView DEF s
  <2>4. Attribute(CapabilityContract, c.object, "capability_id").items.value = c.given[name]
    BY <1>4, <2>2, <2>3, ConvertedValues
  <2>5. QED BY <1>7, <2>4 DEF ShownArgument
<1>8. CASE name # "provider_id"
  <2>1. ToMetadata(f, s)[name] = IF name = "endpoint" THEN WithoutSlash[s[m].items.value] ELSE s[m].items.value
    BY <1>1, <1>2, <1>6, <1>8 DEF MetadataTells
  <2>2. Attribute(CapabilityContract, c.object, "metadata").items = ToMetadata(f, s)
    BY ContractView, Answers DEF s
  <2>3. QED BY <1>4, <1>8, <2>1, <2>2 DEF ShownArgument
<1>9. QED BY <1>7, <1>8

\* Settings that are described by the arguments of a contract of their family,
\* and that have their defaults otherwise, show what the contract shows.
LEMMA SettingsShown ==
  ASSUME NEW c, ContractFits(c), NEW h, HeldFits(h), h.type = Settings[c.family], Described(c, h),
         \A m \in (DOMAIN Defaults(c.family) \cap DOMAIN h.members)
                    \ (ToSet(Parameters(c.family)) \cup {"ApiKey"}) :
           h.members[m] = Defaults(c.family)[m]
  PROVE  /\ Attribute(Wrappers[h.wrapper], h, "to_metadata")
              = Attribute(CapabilityContract, c.object, "metadata")
         /\ \A a \in {"name", "version"} :
              Attribute(Wrappers[h.wrapper], h, a) = Attribute(CapabilityContract, c.object, a)
<1> DEFINE f == c.family
           s == Filled(f, c.given)
           x == Wrappers[h.wrapper]
<1>1. f \in Families /\ Carried(f) /\ SettingsKnown(f) /\ MetadataTells(f)
  BY AllCarried, AllSettled DEF ContractFits
<1>2. h.wrapper \in DOMAIN Wrappers /\ x.type = Settings[f] /\ x = SettingsOf(f)
  BY <1>1, SettingsWrapper DEF HeldFits
<1>3. DOMAIN Defaults(f) \cup {"ToMetadata"} \subseteq DOMAIN h.members
  BY <1>1 DEF SettingsKnown, HeldFits
<1>4. ASSUME NEW i \in DOMAIN Capabilities[f].fields
      PROVE  Same(s[Parameters(f)[i]], h.members[Parameters(f)[i]])
  <2> DEFINE m == Parameters(f)[i]
             name == Capabilities[f].fields[i]
             v == h.members[m]
  <2>1. CarriedAt(f, i)
    BY <1>1, <1>4 DEF Carried
  <2>2. /\ m # "ToMetadata" /\ m \in DOMAIN h.members /\ Defaults(f)[m].kind \in {"string", "Uri"}
        /\ name \in DOMAIN x.reads /\ x.reads[name] = Str(m)
        /\ Members(h.type)[m] \in {"string", "Uri"}
    BY <1>2, <1>3, <2>1 DEF CarriedAt
  <2>3. x.reads[name].member = m /\ x.reads[name].as = "str"
    BY <2>2 DEF Str, Read
  <2>4. Fits(v, Members(h.type)[m])
    BY <2>2, <2>3 DEF HeldFits
  <2>5. v.kind \in {"string", "Uri"}
    BY <2>2, <2>4, Kinds DEF Fits, Nullable
  <2>6. name \in DOMAIN c.given
    BY <1>4 DEF ContractFits, ToSet
  <2>7. Attribute(x, h, name) = AsStr(v)
    BY <2>2, <2>3, ConvertedValues DEF Attribute, MemberOf
  <2>8. v.items.value = c.given[name]
    <3>1. Attribute(x, h, name).items.value = c.given[name]
      BY <2>6 DEF Described
    <3>2. AsStr(v).items = v.items
      BY <2>5, ConvertedValues DEF IsNull
    <3>3. QED BY <2>7, <3>1, <3>2
  <2>9. s[m] = Managed(Defaults(f)[m].kind, c.given[name])
    BY <1>1, <1>4, FilledMembers
  <2>10. s[m].items.value = c.given[name] /\ s[m].kind \in {"string", "Uri"}
    <3> HIDE DEF s, m, name
    <3>1. \A k, t : Managed(k, t).kind = k /\ Managed(k, t).items.value = t
      BY TextKinds
    <3>2. s[m].items.value = c.given[name] /\ s[m].kind = Defaults(f)[m].kind
      BY <2>9, <3>1
    <3>3. QED BY <2>2, <3>2
  <2>11. QED BY <2>5, <2>8, <2>10, ZenonT(60) DEF Same, NullOrBlank, IsNull
<1>5. DOMAIN Parameters(f) = DOMAIN Capabilities[f].fields
  BY <1>1 DEF Carried
<1>6. \A m \in DOMAIN Defaults(f) \ {"ApiKey"} : m \notin ToSet(Parameters(f)) => h.members[m] = Defaults(f)[m]
  BY <1>3
<1>7. \A m \in DOMAIN Defaults(f) : m \notin ToSet(Parameters(f)) => s[m] = Defaults(f)[m]
  BY <1>1, <1>5, FilledMembers DEF ToSet
<1>8. ASSUME NEW m \in DOMAIN Defaults(f) \ {"ApiKey"} PROVE Same(s[m], h.members[m])
  <2>1. CASE m \in ToSet(Parameters(f))
    <3>1. PICK i \in DOMAIN Parameters(f) : Parameters(f)[i] = m
      BY <2>1 DEF ToSet
    <3>2. QED BY <1>4, <1>5, <3>1
  <2>2. CASE m \notin ToSet(Parameters(f))
    <3>1. s[m] = h.members[m]
      BY <1>6, <1>7, <1>8, <2>2
    <3>2. QED BY <3>1 DEF Same
  <2>3. QED BY <2>1, <2>2
<1>9. {"Name", "Version"} \subseteq DOMAIN Defaults(f) /\ Defaults(f)["Version"] = Text("0.1.1")
      /\ "Name" \notin ToSet(Parameters(f)) /\ "Version" \notin ToSet(Parameters(f))
  BY <1>1 DEF SettingsKnown, ToSet
<1>10. ToMetadata(f, s) = ToMetadata(f, h.members)
  BY <1>1, <1>8 DEF MetadataTells
<1>11. Attribute(x, h, "to_metadata") = Attribute(CapabilityContract, c.object, "metadata")
  <2>1. "to_metadata" \in DOMAIN x.reads /\ x.reads["to_metadata"].member = "ToMetadata"
        /\ x.reads["to_metadata"].as = "dict"
    BY <1>1, <1>2 DEF SettingsKnown, Read
  <2>2. FamiliesOf(h.type) = {f}
    BY <1>1, FamilyOfType
  <2>3. (CHOOSE g \in FamiliesOf(h.type) : TRUE) = f
    BY <2>2
  <2>4. MemberOf(h, "ToMetadata") = Map(ToMetadata(f, h.members))
    BY <2>3 DEF MemberOf
  <2>5. Attribute(x, h, "to_metadata") = Convert("dict", Map(ToMetadata(f, h.members)))
    BY <1>3, <2>1, <2>4 DEF Attribute
  <2>6. Attribute(CapabilityContract, c.object, "metadata") = Python("dict", ToMetadata(f, s))
    BY ContractView
  <2>7. QED BY <1>10, <2>5, <2>6, ConvertedValues
<1>12. Attribute(x, h, "name") = Attribute(CapabilityContract, c.object, "name")
  <2>1. x.reads["name"].member = "Name" /\ x.reads["name"].as = "str"
    BY <1>1, <1>2 DEF SettingsKnown, Str, Read
  <2>2. h.members["Name"] = Defaults(f)["Name"]
    BY <1>6, <1>9
  <2>3. Attribute(x, h, "name") = AsStr(Defaults(f)["Name"])
    BY <1>3, <1>9, <2>1, <2>2, ConvertedValues DEF Attribute, MemberOf
  <2>4. QED BY <2>3, ContractView
<1>13. Attribute(x, h, "version") = Attribute(CapabilityContract, c.object, "version")
  <2>1. x.reads["version"].member = "Version" /\ x.reads["version"].as = "str"
    BY <1>1, <1>2 DEF SettingsKnown, Str, Read
  <2>2. h.members["Version"] = Text("0.1.1") /\ s["Version"] = Text("0.1.1")
    BY <1>6, <1>7, <1>9
  <2>3. Attribute(x, h, "version") = AsStr(Text("0.1.1"))
    BY <1>3, <1>9, <2>1, <2>2, ConvertedValues DEF Attribute, MemberOf
  <2>4. "version" \in DOMAIN ToMetadata(f, s) /\ ToMetadata(f, s)["version"] = s["Version"].items.value
    BY <1>1 DEF MetadataTells
  <2>5. VersionOf(ToMetadata(f, s)) = "0.1.1"
    BY <2>2, <2>4, TextKinds DEF VersionOf
  <2>6. QED BY <2>3, <2>5, ContractView
<1>14. QED BY <1>11, <1>12, <1>13

\* For all texts and URIs: a contract shows its arguments, and those of settings
\* describe the settings.
THEOREM ContractsDescribeTheSettingsCorrect == SurfaceSpec => []ContractsDescribeTheSettings
<1>1. SurfaceInv => ContractsDescribeTheSettings
  <2> SUFFICES ASSUME SurfaceInv PROVE ContractsDescribeTheSettings
    OBVIOUS
  <2>1. InHands /\ AnswerFits(last, held, contract)
    BY DEF SurfaceInv
  <2>2. \A h \in ToSet(held) : HeldFits(h)
    BY <2>1, HandsFit
  <2>3. \A c \in ToSet(contract) : ContractFits(c)
    BY <2>1, HandsFit
  <2>4. last.call = "to_contract" /\ last.value.kind = "error" =>
          last.of = "ChatOpenAI" /\ last.value.items = << "TargetInvocationException" >>
    BY <2>1 DEF AnswerFits
  <2>5. \A c \in ToSet(contract) : \A name \in DOMAIN c.given :
          ShownArgument(c, name) = IF name = "endpoint" THEN WithoutSlash[c.given[name]] ELSE c.given[name]
    BY <2>3, ArgumentsShown
  <2>6. ASSUME NEW c \in ToSet(contract), NEW h \in ToSet(held),
               h.type = Settings[c.family], Described(c, h),
               \A m \in (DOMAIN Defaults(c.family) \cap DOMAIN h.members)
                          \ (ToSet(Parameters(c.family)) \cup {"ApiKey"}) :
                 h.members[m] = Defaults(c.family)[m]
        PROVE  /\ Attribute(Wrappers[h.wrapper], h, "to_metadata")
                    = Attribute(CapabilityContract, c.object, "metadata")
               /\ \A a \in {"name", "version"} :
                    Attribute(Wrappers[h.wrapper], h, a) = Attribute(CapabilityContract, c.object, a)
    <3>1. ContractFits(c) /\ HeldFits(h)
      BY <2>2, <2>3
    <3>2. QED BY <2>6, <3>1, SettingsShown
  <2>7. QED BY <2>4, <2>5, <2>6 DEF ContractsDescribeTheSettings
<1>2. QED BY <1>1, SurfaceInvCorrect, PTL
=============================================================================
