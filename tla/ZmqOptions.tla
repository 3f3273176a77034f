----------------------------- MODULE ZmqOptions -----------------------------
(***************************************************************************)
(* Socket options of zmq.hpp: how a value is handed to libzmq by the set   *)
(* overloads, and what the get overloads make of what libzmq hands back.   *)
(* Bytes are numbers, and 0 ends a C string.                               *)
(***************************************************************************)
EXTENDS ZmqCalls

\* NullTerm of array_option: 0, 1 and 2.
Kinds == {"binary", "text", "key"}

-----------------------------------------------------------------------------
(* set.                                                                    *)

\* strlen finds the end of a const char*.
FromPointer(s) ==
  LET ends == {i \in 1 .. Len(s) : s[i] = 0}
  IN  IF ends = {} THEN s ELSE SubSeq(s, 1, (CHOOSE i \in ends : \A j \in ends : i <= j) - 1)

\* A std::string, a string_view or a const_buffer has its size.
FromString(s) == s

\* A bool for an integral option.
FromBool(b) == IF b THEN 1 ELSE 0

-----------------------------------------------------------------------------
(* get.                                                                    *)

\* What libzmq writes into room bytes: << >> for a buffer that does not do.  A
\* curve key is handed out as 32 bytes or as 40 characters.
Written(kind, stored, room) ==
  LET bytes == CASE kind = "binary" -> stored
                 [] kind = "text"   -> Append(stored, 0)
                 [] kind = "key"    -> IF room = 41 THEN Append(stored, 0)
                                       ELSE SubSeq(stored, 1, 32)
      fits  == IF kind = "key" THEN room \in {32, 41} ELSE Len(bytes) <= room
  IN  IF fits THEN <<bytes>> ELSE << >>

\* A number of width bytes, read into a T of room bytes.
GetNumber(v, width, room) ==
  IF width > room THEN Throwing("EINVAL") ELSE IF width < room THEN Asserts ELSE Returns(v)

\* The size that get(opt, buf) returns.
GetBytes(kind, stored, room) ==
  LET w == Written(kind, stored, room)
  IN  IF w = << >> THEN Throwing("EINVAL") ELSE Returns(Len(w[1]))

\* get(opt, init_size): a string without the null character.
GetString(kind, stored, init) ==
  LET room    == IF kind = "key" /\ init = 1024 THEN 41 ELSE init
      got     == GetBytes(kind, stored, room)
      str     == Written(kind, stored, room)[1]
      trimmed == kind = "text" \/ (kind = "key" /\ got[2] = 41)
  IN  IF got = Throwing("EINVAL") THEN got
      ELSE IF ~trimmed \/ got[2] = 0 THEN Returns(str)
      ELSE IF str[got[2]] # 0 THEN Asserts
      ELSE Returns(SubSeq(str, 1, got[2] - 1))
=============================================================================
