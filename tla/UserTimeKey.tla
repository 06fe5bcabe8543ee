----------------------------- MODULE UserTimeKey -----------------------------
(***************************************************************************)
(* The key of a transfer's session (src/src/clogic.cpp, number and every   *)
(* user_time; src/include/clogic.h).  userid * number() + timestamp is     *)
(* computed in 64 bits and given to a MyMap<int, FileInfo*>: its parameter *)
(* keeps the lower 32 bits, so two transfers share an entry when their     *)
(* sums leave the same remainder.                                          *)
(***************************************************************************)
EXTENDS Integers, TLAPS

number == 1000000000
Width  == 4294967296       \* 2^32

user_time(userid, timestamp) == userid * number + timestamp
Key(userid, timestamp) == user_time(userid, timestamp) % Width

(* An id is an int that is not negative; a timestamp has the nine digits    *)
(* that number() leaves room for.                                           *)
IsUser(u) == u \in Nat /\ u < 2147483648
IsTimestamp(t) == t \in Nat /\ t < number

-----------------------------------------------------------------------------
LEMMA Remainder ==
  ASSUME NEW x \in Int, NEW y \in Int
  PROVE  x % Width = y % Width <=> (x - y) % Width = 0
BY SMTT(30) DEF Width

LEMMA SmallMultiple ==
  ASSUME NEW d \in Int, d % Width = 0, d > 0 - Width, d < Width
  PROVE  d = 0
BY SMTT(30) DEF Width

(* user_time has no overflow: in 64 bits the sum is exact for every user,   *)
(* which is what number() is a function of type long for.                   *)
THEOREM SumIsExact ==
  ASSUME NEW u, IsUser(u), NEW t, IsTimestamp(t)
  PROVE  user_time(u, t) \in Nat /\ user_time(u, t) < 2147483648 * number
BY SMT DEF IsUser, IsTimestamp, user_time, number

(* Two transfers of one user never share a session in the map, although the *)
(* key is cut to 32 bits.                                                   *)
THEOREM OneUserNeverCollides ==
  ASSUME NEW u, IsUser(u), NEW s, IsTimestamp(s), NEW t, IsTimestamp(t),
         Key(u, s) = Key(u, t)
  PROVE  s = t
<1> DEFINE d == user_time(u, s) - user_time(u, t)
<1>1. d = s - t /\ d \in Int /\ d > 0 - Width /\ d < Width
  BY SMT DEF user_time, IsUser, IsTimestamp, number, Width
<1>2. user_time(u, s) \in Int /\ user_time(u, t) \in Int
  BY SMT DEF user_time, IsUser, IsTimestamp, number
<1>3. d % Width = 0
  BY SMT, <1>2, Remainder DEF Key
<1>4. d = 0
  BY SMT, <1>1, <1>3, SmallMultiple
<1> QED
  BY SMT, <1>1, <1>4 DEF IsTimestamp

(* Nor do the transfers of two users whose ids are at most three apart: the *)
(* sums then differ by less than 2^32.                                      *)
THEOREM NeighboursNeverCollide ==
  ASSUME NEW u, IsUser(u), NEW v, IsUser(v), NEW s, IsTimestamp(s), NEW t, IsTimestamp(t),
         u # v, u - v <= 3, v - u <= 3
  PROVE  Key(u, s) # Key(v, t)
<1> DEFINE d == user_time(u, s) - user_time(v, t)
<1>1. d \in Int /\ d > 0 - Width /\ d < Width /\ d # 0
  BY SMT DEF user_time, IsUser, IsTimestamp, number, Width
<1>2. user_time(u, s) \in Int /\ user_time(v, t) \in Int
  BY SMT DEF user_time, IsUser, IsTimestamp, number
<1> QED
  BY SMT, <1>1, <1>2, Remainder, SmallMultiple DEF Key

(* The transfers of users four apart do, for timestamps that differ by      *)
(* 294967296: the insert of the later one replaces the session of the other.*)
THEOREM FourApartCollide ==
  ASSUME NEW u, IsUser(u), NEW t, IsTimestamp(t)
  PROVE  Key(u + 4, t + 294967296) = Key(u, t)
<1>1. user_time(u + 4, t + 294967296) - user_time(u, t) = Width
  BY SMT DEF user_time, IsUser, IsTimestamp, number, Width
<1>2. user_time(u + 4, t + 294967296) \in Int /\ user_time(u, t) \in Int
  BY SMT DEF user_time, IsUser, IsTimestamp, number
<1>3. Width % Width = 0
  BY SMT DEF Width
<1> QED
  BY SMT, <1>1, <1>2, <1>3, Remainder DEF Key

LEMMA SmallRemainder ==
  ASSUME NEW x \in Nat, x < Width
  PROVE  x % Width = x /\ (x + Width) % Width = x
BY SMTT(30) DEF Width

(* continueUpload looks a session up by its timestamp alone, where none is  *)
(* stored: the keys of the first three users are no timestamps.             *)
THEOREM FirstUsersKeysAreNoTimestamps ==
  ASSUME NEW u \in 1..3, NEW s, IsTimestamp(s), NEW t, IsTimestamp(t)
  PROVE  Key(u, s) # t
<1>1. user_time(u, s) \in Nat /\ user_time(u, s) < Width /\ user_time(u, s) >= number
  BY SMT DEF user_time, IsTimestamp, number, Width
<1>2. Key(u, s) = user_time(u, s)
  BY SMT, <1>1, SmallRemainder DEF Key
<1> QED
  BY SMT, <1>1, <1>2 DEF IsTimestamp, number

(* Those of the fifth user can be: the lookup then finds a session of his,  *)
(* whoever asks.                                                            *)
THEOREM FifthUsersKeysAreTimestamps ==
  ASSUME NEW s, IsTimestamp(s), s < 294967296
  PROVE  Key(5, s) = s + 705032704 /\ IsTimestamp(s + 705032704)
<1>1. s \in Nat /\ s + 705032704 \in Nat /\ s + 705032704 < number
  BY SMT DEF IsTimestamp, number
<1>2. user_time(5, s) = (s + 705032704) + Width
  BY SMT, <1>1 DEF user_time, number, Width
<1>3. s + 705032704 < Width
  BY SMT, <1>1 DEF number, Width
<1> QED
  BY SMT, <1>1, <1>2, <1>3, SmallRemainder DEF Key, IsTimestamp
=============================================================================
