---------------------------- MODULE AccountsProofs ----------------------------
(***************************************************************************)
(* What holds of Accounts for any users, codes and requests, any number of *)
(* them at a time.  The invariant says what each request has in memory: a  *)
(* save() writes values that were those of the row once, or that the       *)
(* request has made itself.                                                *)
(***************************************************************************)
EXTENDS Accounts, FiniteSetTheorems, TLAPS

-----------------------------------------------------------------------------
(* The inductive invariant. *)

\* The columns of f have values of their types.
Typed(f) ==
    /\ DOMAIN f \subseteq Columns
    /\ "status" \in DOMAIN f => f["status"] \in Statuses
    /\ "verified" \in DOMAIN f => f["verified"] \in BOOLEAN
    /\ "attempts" \in DOMAIN f => f["attempts"] \in 0 .. Allowed
    /\ "code" \in DOMAIN f => f["code"] \in Codes
    /\ "password" \in DOMAIN f => f["password"] \in Passwords
    /\ "profile" \in DOMAIN f => f["profile"] \in Profiles

\* n wrong passwords account for what f says.
Earned(f, n) ==
    /\ "attempts" \in DOMAIN f => f["attempts"] <= n
    /\ "status" \in DOMAIN f /\ f["status"] = "locked" => n > Allowed

Good(u, f, wrong) == Typed(f) /\ (u \in Users => Earned(f, wrong[u]))

Rereads == {"reread", "select", "update"}

\* The row a request works on, and what it is to write there.
Target(r) ==
    /\ pc[r] = "read" /\ op[r] = "signUp" => user[r] \in Users
    /\ pc[r] \in Rereads => op[r] # "signUp"
    /\ pc[r] \in Rereads \cup {"publish", "commit"} =>
          user[r] \in Users /\ (op[r] = "signUp" \/ users[user[r]] # None)
    /\ pc[r] = "insert" => op[r] = "signUp" /\ user[r] \in Users /\ write[r] \in Fresh
    /\ pc[r] \in {"publish", "commit"} /\ op[r] = "signUp" => write[r] \in Fresh

Memory(r) ==
    /\ Good(user[r], change[r], failures)
    /\ Good(user[r], write[r], failures)
    /\ pc[r] \in {"idle", "read"} => write[r] = Nothing
    /\ pc[r] = "select" => entity[r] \in Rows /\ Good(user[r], entity[r], failures)

\* The code has been mailed to the user of r, or r is going to do it.
Mailed(r, c)   == <<user[r], c>> \in mails
Promised(r, c) == op[r] = "resend" /\ c = change[r]["code"]

CodeOf(r) ==
    /\ pc[r] \in Rereads \cup {"publish"} /\ op[r] = "resend" => "code" \in DOMAIN change[r]
    /\ pc[r] = "reread" /\ "code" \in DOMAIN change[r] => op[r] = "resend"
    /\ pc[r] = "select" =>
          Mailed(r, entity[r]["code"]) \/ Promised(r, entity[r]["code"])
    /\ pc[r] \in {"update", "publish"} /\ op[r] # "signUp" /\ "code" \in DOMAIN write[r] =>
          Mailed(r, write[r]["code"]) \/ Promised(r, write[r]["code"])
    /\ pc[r] = "commit" /\ "code" \in DOMAIN write[r] => Mailed(r, write[r]["code"])

RequestOK(r) == Target(r) /\ Memory(r) /\ CodeOf(r)

Shape ==
    /\ pc \in [Requests -> {"idle", "read", "reread", "select", "update", "insert",
                            "publish", "commit", "done"}]
    /\ op \in [Requests -> {"signUp", "signIn", "failure", "resend", "verify",
                            "profile", "password", "delete", None}]
    /\ user \in [Requests -> Users \cup {None}]
    /\ DOMAIN change = Requests /\ DOMAIN write = Requests
    /\ entity \in [Requests -> Rows \cup {Nothing}]

Table ==
    /\ users \in [Users -> Rows \cup {None}]
    /\ \A u \in Users : users[u] # None => Good(u, users[u], failures) /\ <<u, users[u]["code"]>> \in mails
    /\ wallets = {u \in Users : users[u] # None}
    /\ mails \subseteq Users \X Codes
    /\ failures \in [Users -> 0 .. Allowed + 1]

IInv == Shape /\ Table /\ \A r \in Requests : RequestOK(r)

-----------------------------------------------------------------------------
(* Rows and parts of rows. *)

LEMMA RowsTyped ==
    ASSUME NEW row \in Rows
    PROVE  Typed(row) /\ DOMAIN row = Columns
BY DEF Rows, Typed, Columns

LEMMA FreshRows ==
    ASSUME NEW row \in Fresh, NEW u, NEW wrong
    PROVE  /\ row \in Rows
           /\ (u \in Users => wrong[u] \in Nat) => Good(u, row, wrong)
<1>1. row \in Rows
  <2>. DEFINE Inactive == {"inactive"}
              Unverified == {FALSE}
              Zero == {0}
              Attempts == 0 .. Allowed
              Truth == BOOLEAN
  <2>1. Inactive \subseteq Statuses /\ Zero \subseteq Attempts
    BY AllowedAssumption DEF Statuses
  <2>2. Unverified \subseteq Truth
    BY Zenon
  <2>3. row \in [status : Inactive, verified : Unverified, attempts : Zero,
                 code : Codes, password : Passwords, profile : Profiles]
    BY DEF Fresh
  <2>. HIDE DEF Inactive, Unverified, Zero, Attempts, Truth
  <2>4. row \in [status : Statuses, verified : Truth, attempts : Attempts,
                 code : Codes, password : Passwords, profile : Profiles]
    BY <2>1, <2>2, <2>3
  <2>. QED
    BY <2>4 DEF Rows, Attempts, Truth
<1>2. row["attempts"] = 0 /\ row["status"] = "inactive"
  BY DEF Fresh
<1>3. Typed(row)
  BY <1>1, RowsTyped
<1>4. ASSUME wrong[u] \in Nat
      PROVE  Earned(row, wrong[u])
  BY <1>2, <1>4 DEF Earned
<1>. QED
  BY <1>1, <1>3, <1>4 DEF Good

LEMMA NothingGood ==
    ASSUME NEW u, NEW wrong
    PROVE  Good(u, Nothing, wrong) /\ DOMAIN Nothing = {}
BY DEF Nothing, Good, Typed, Earned

LEMMA MergeRow ==
    ASSUME NEW row \in Rows, NEW f, Typed(f)
    PROVE  /\ Merge(row, f) \in Rows
           /\ Merge(row, f)["code"] = IF "code" \in DOMAIN f THEN f["code"] ELSE row["code"]
           /\ \A u, wrong : Good(u, row, wrong) /\ Good(u, f, wrong) =>
                 Good(u, Merge(row, f), wrong)
<1>. DEFINE new == [c \in Columns |-> IF c \in DOMAIN f THEN f[c] ELSE row[c]]
<1>1. new \in Rows
  BY DEF Rows, Typed, Columns
<1>2. ASSUME NEW u, NEW wrong, Good(u, row, wrong), Good(u, f, wrong)
      PROVE  Good(u, new, wrong)
  BY <1>1, <1>2, RowsTyped DEF Good, Earned, Columns
<1>3. new["code"] = IF "code" \in DOMAIN f THEN f["code"] ELSE row["code"]
  BY DEF Columns
<1>. QED
  BY <1>1, <1>2, <1>3 DEF Merge

LEMMA DifferencesOf ==
    ASSUME NEW new \in Rows, NEW row \in Rows
    PROVE  LET f == Differences(new, row)
           IN  /\ DOMAIN f \subseteq Columns
               /\ "code" \in DOMAIN f => f["code"] = new["code"]
               /\ \A u, wrong : Good(u, new, wrong) => Good(u, f, wrong)
<1>. DEFINE f == [c \in {d \in Columns : new[d] # row[d]} |-> new[c]]
<1>1. DOMAIN f \subseteq Columns /\ \A c \in DOMAIN f : f[c] = new[c]
  OBVIOUS
<1>2. Typed(new) /\ DOMAIN new = Columns
  BY RowsTyped
<1>. HIDE DEF f
<1>3. Typed(f)
  BY <1>1, <1>2 DEF Typed
<1>4. ASSUME NEW u, NEW wrong, Good(u, new, wrong)
      PROVE  Good(u, f, wrong)
  BY <1>1, <1>2, <1>3, <1>4 DEF Good, Earned
<1>. QED
  BY <1>1, <1>4 DEF f, Differences

-----------------------------------------------------------------------------
(* A step of one request, seen from the others. *)

\* Only r moves; mails, failures and registrations are never taken back.
OnlyOf(r) ==
    /\ \A o \in Requests \ {r} :
          /\ pc'[o] = pc[o] /\ op'[o] = op[o] /\ user'[o] = user[o]
          /\ change'[o] = change[o] /\ entity'[o] = entity[o] /\ write'[o] = write[o]
    /\ mails \subseteq mails'
    /\ \A u \in Users :
          /\ failures[u] \in Nat /\ failures'[u] \in Nat /\ failures[u] <= failures'[u]
          /\ users[u] # None => users'[u] # None

LEMMA GoodStays ==
    ASSUME NEW u, NEW f, NEW wrong, NEW more, Good(u, f, wrong),
           u \in Users => wrong[u] \in Nat /\ more[u] \in Nat /\ wrong[u] <= more[u]
    PROVE  Good(u, f, more)
<1>1. Typed(f)
  BY DEF Good
<1>2. ASSUME u \in Users
      PROVE  Earned(f, more[u])
  <2>1. Earned(f, wrong[u])
    BY <1>2 DEF Good
  <2>2. "attempts" \in DOMAIN f => f["attempts"] \in Int
    BY <1>1, AllowedAssumption DEF Typed
  <2>. QED
    BY <1>2, <2>1, <2>2, AllowedAssumption DEF Earned
<1>. QED
  BY <1>1, <1>2 DEF Good

LEMMA OthersKept ==
    ASSUME NEW r \in Requests, OnlyOf(r), NEW o \in Requests \ {r}, RequestOK(o)
    PROVE  RequestOK(o)'
<1>. USE DEF RequestOK
<1>1. /\ pc'[o] = pc[o] /\ op'[o] = op[o] /\ user'[o] = user[o]
      /\ change'[o] = change[o] /\ entity'[o] = entity[o] /\ write'[o] = write[o]
      /\ mails \subseteq mails'
      /\ \A u \in Users : users[u] # None => users'[u] # None
  BY DEF OnlyOf
<1>2. Target(o)'
  BY <1>1 DEF Target
<1>3. Memory(o)'
  <2>1. user[o] \in Users => /\ failures[user[o]] \in Nat /\ failures'[user[o]] \in Nat
                             /\ failures[user[o]] <= failures'[user[o]]
    BY DEF OnlyOf
  <2>2. \A f : Good(user[o], f, failures) => Good(user[o], f, failures')
    BY <2>1, GoodStays
  <2>. QED
    BY <1>1, <2>2 DEF Memory
<1>4. CodeOf(o)'
  BY <1>1 DEF CodeOf, Mailed, Promised
<1>. QED
  BY <1>2, <1>3, <1>4

-----------------------------------------------------------------------------
(* The steps. *)

LEMMA Together ==
    ASSUME IInv, NEW r \in Requests, OnlyOf(r), Shape', Table', RequestOK(r)'
    PROVE  IInv'
BY OthersKept DEF IInv

\* What all the steps that leave the table and the history alone have in common.
LEMMA Silent ==
    ASSUME IInv, UNCHANGED <<table, mails, failures>>
    PROVE  /\ Table'
           /\ \A u \in Users : /\ failures[u] \in Nat /\ failures'[u] \in Nat
                               /\ failures[u] <= failures'[u]
                               /\ users'[u] = users[u]
           /\ mails' = mails
<1>1. Table'
  BY DEF IInv, Table, table
<1>2. \A u \in Users : failures[u] \in Nat
  BY AllowedAssumption DEF IInv, Table
<1>. QED
  BY <1>1, <1>2 DEF table

LEMMA LeaveOK ==
    ASSUME IInv, NEW r \in Requests, Leave(r), UNCHANGED <<mails, failures>>, Table',
           \A u \in Users : users[u] # None => users'[u] # None
    PROVE  IInv'
<1>. USE DEF Leave, IInv
<1>1. Shape'
  BY DEF Shape
<1>2. /\ pc'[r] = "done" /\ op'[r] = None /\ user'[r] = None
      /\ change'[r] = Nothing /\ write'[r] = Nothing
  BY DEF Shape
<1>3. OnlyOf(r)
  <2>1. \A u \in Users : failures[u] \in Nat
    BY AllowedAssumption DEF Table
  <2>. QED
    BY <2>1 DEF OnlyOf, Shape
<1>4. RequestOK(r)'
  <2>1. Target(r)'
    BY <1>2 DEF Target, Rereads
  <2>2. Memory(r)'
    BY <1>2, NothingGood DEF Memory
  <2>3. CodeOf(r)'
    BY <1>2 DEF CodeOf, Rereads
  <2>. QED
    BY <2>1, <2>2, <2>3 DEF RequestOK
<1>. QED
  BY <1>1, <1>3, <1>4, Together

LEMMA BeginOK ==
    ASSUME IInv, NEW r \in Requests, NEW what, NEW u, NEW values, Begin(r, what, u, values),
           Good(u, values, failures),
           \/ what \in {"signUp", "signIn", "resend"} /\ u \in Users
           \/ what = "verify" /\ u = None
           \/ /\ what \in {"profile", "password", "delete"} /\ u \in Users
              /\ users[u] # None /\ "code" \notin DOMAIN values
    PROVE  IInv'
<1>. USE DEF Begin
<1>1. /\ op' = [op EXCEPT ![r] = what] /\ user' = [user EXCEPT ![r] = u]
      /\ change' = [change EXCEPT ![r] = values]
      /\ \E next \in {"read", "reread"} : pc' = [pc EXCEPT ![r] = next]
      /\ entity' = entity /\ write' = write
      /\ what \in {"signUp", "signIn", "resend", "verify", "profile", "password", "delete"}
      /\ u \in Users \cup {None}
  OBVIOUS
<1>2. Shape'
  BY <1>1 DEF IInv, Shape
<1>3. Table' /\ OnlyOf(r)
  BY <1>1, Silent DEF IInv, Shape, OnlyOf
<1>4. /\ pc[r] = "idle" /\ op'[r] = what /\ user'[r] = u
      /\ change'[r] = values /\ write'[r] = write[r] /\ failures' = failures
      /\ users' = users /\ mails' = mails
      /\ pc'[r] = IF what \in {"profile", "password", "delete"} THEN "reread" ELSE "read"
  BY DEF IInv, Shape, table
<1>5. write[r] = Nothing
  BY <1>4 DEF IInv, RequestOK, Memory
<1>6. Target(r)'
  BY <1>4 DEF Target, Rereads
<1>7. Memory(r)'
  BY <1>4, <1>5, NothingGood DEF Memory
<1>8. CodeOf(r)'
  BY <1>4 DEF CodeOf, Rereads
<1>. QED
  BY <1>2, <1>3, <1>6, <1>7, <1>8, Together DEF RequestOK

LEMMA ProceedOK ==
    ASSUME IInv, NEW r \in Requests, NEW what \in {"failure", "signIn", "resend", "verify"},
           NEW u \in Users, NEW values, pc[r] = "read", Proceed(r, what, u, values),
           users[u] # None, "code" \in DOMAIN values <=> what = "resend",
           failures' \in [Users -> 0 .. Allowed + 1],
           \A v \in Users : failures[v] <= failures'[v],
           Good(u, values, failures')
    PROVE  IInv'
<1>. USE DEF Proceed
<1>1. Shape'
  BY DEF IInv, Shape
<1>2. \A v \in Users : failures[v] \in Nat /\ failures'[v] \in Nat
  BY AllowedAssumption DEF IInv, Table
<1>3. Table'
  <2>1. \A v \in Users : users[v] # None => Good(v, users[v], failures')
    BY <1>2, GoodStays DEF IInv, Table
  <2>. QED
    BY <2>1 DEF IInv, Table, table
<1>4. OnlyOf(r)
  BY <1>2 DEF IInv, Shape, OnlyOf, table
<1>5. /\ pc'[r] = "reread" /\ op'[r] = what /\ user'[r] = u
      /\ change'[r] = values /\ write'[r] = write[r] /\ users' = users
  BY DEF IInv, Shape, table
<1>6. write[r] = Nothing
  BY DEF IInv, RequestOK, Memory
<1>7. Target(r)'
  BY <1>5 DEF Target, Rereads
<1>8. Memory(r)'
  BY <1>5, <1>6, NothingGood DEF Memory
<1>9. CodeOf(r)'
  BY <1>5 DEF CodeOf, Rereads
<1>. QED
  BY <1>1, <1>3, <1>4, <1>7, <1>8, <1>9, Together DEF RequestOK

LEMMA NewUserOK ==
    ASSUME IInv, NEW r \in Requests, NewUser(r)
    PROVE  IInv'
<1>. USE DEF NewUser, Reads
<1>1. PICK row \in Fresh : write' = [write EXCEPT ![r] = row]
  OBVIOUS
<1>2. Shape'
  BY <1>1 DEF IInv, Shape
<1>3. Table' /\ OnlyOf(r)
  BY <1>1, Silent DEF IInv, Shape, OnlyOf
<1>4. /\ pc'[r] = "insert" /\ op'[r] = "signUp" /\ user'[r] = user[r] /\ user[r] \in Users
      /\ change'[r] = change[r] /\ write'[r] = row /\ failures' = failures
  BY <1>1 DEF IInv, Shape, RequestOK, Target
<1>5. Good(user[r], row, failures)
  BY <1>4, FreshRows, Silent
<1>6. Target(r)'
  BY <1>4 DEF Target, Rereads
<1>7. Memory(r)'
  BY <1>4, <1>5 DEF IInv, RequestOK, Memory
<1>8. CodeOf(r)'
  BY <1>4 DEF CodeOf, Rereads
<1>. QED
  BY <1>2, <1>3, <1>6, <1>7, <1>8, Together DEF RequestOK

LEMMA RereadOK ==
    ASSUME IInv, NEW r \in Requests, Reread(r)
    PROVE  IInv'
<1>. USE DEF Reread
<1>. DEFINE row == users[user[r]]
            new == Merge(row, change[r])
<1>1. /\ user[r] \in Users /\ row # None /\ row \in Rows /\ op[r] # "signUp"
      /\ Good(user[r], row, failures) /\ Mailed(r, row["code"])
  BY DEF IInv, RequestOK, Target, Table, Rereads, Mailed
<1>2. /\ new \in Rows /\ Good(user[r], new, failures)
      /\ new["code"] = IF "code" \in DOMAIN change[r] THEN change[r]["code"] ELSE row["code"]
  BY <1>1, MergeRow DEF IInv, RequestOK, Memory, Good
<1>. HIDE DEF new
<1>3. entity' = [entity EXCEPT ![r] = new]
  BY DEF new
<1>4. Shape'
  BY <1>2, <1>3 DEF IInv, Shape
<1>5. Table' /\ OnlyOf(r)
  BY <1>3, Silent DEF IInv, Shape, OnlyOf
<1>6. /\ pc[r] = "reread" /\ pc'[r] = "select" /\ op' = op /\ user' = user
      /\ change' = change /\ write' = write /\ entity'[r] = new
      /\ failures' = failures /\ users' = users /\ mails' = mails
  BY <1>3 DEF IInv, Shape, table
<1>7. Target(r)'
  BY <1>1, <1>6 DEF Target, Rereads
<1>8. Memory(r)'
  BY <1>2, <1>6 DEF IInv, RequestOK, Memory
<1>9. CodeOf(r)'
  <2>1. Mailed(r, new["code"]) \/ Promised(r, new["code"])
    BY <1>1, <1>2, <1>6 DEF IInv, RequestOK, CodeOf, Promised
  <2>. QED
    BY <2>1, <1>6 DEF IInv, RequestOK, CodeOf, Rereads, Mailed, Promised
<1>. QED
  BY <1>4, <1>5, <1>7, <1>8, <1>9, Together DEF RequestOK

LEMMA SelectOK ==
    ASSUME IInv, NEW r \in Requests, Select(r)
    PROVE  IInv'
<1>. USE DEF Select
<1>. DEFINE row == users[user[r]]
            columns == Differences(entity[r], row)
<1>1. /\ user[r] \in Users /\ row \in Rows /\ row # None /\ op[r] # "signUp"
      /\ entity[r] \in Rows /\ Good(user[r], entity[r], failures)
  BY DEF IInv, RequestOK, Target, Memory, Table, Rereads
<1>2. /\ Good(user[r], columns, failures)
      /\ "code" \in DOMAIN columns => columns["code"] = entity[r]["code"]
  BY <1>1, DifferencesOf
<1>3. write' = [write EXCEPT ![r] = columns]
  OBVIOUS
<1>4. \/ pc' = [pc EXCEPT ![r] = "update"]
      \/ /\ pc' = [pc EXCEPT ![r] = "commit"]
         /\ columns = Nothing
  BY <1>1 DEF AlwaysWrites, AfterWrite
<1>5. entity' = [entity EXCEPT ![r] = Nothing]
  OBVIOUS
<1>. HIDE DEF columns
<1>6. Shape'
  BY <1>3, <1>4, <1>5 DEF IInv, Shape
<1>7. Table' /\ OnlyOf(r)
  BY <1>3, <1>4, <1>5, Silent DEF IInv, Shape, OnlyOf
<1>8. /\ pc[r] = "select" /\ op' = op /\ user' = user /\ change' = change /\ write'[r] = columns
      /\ failures' = failures /\ users' = users /\ mails' = mails
      /\ pc'[r] = "update" \/ (pc'[r] = "commit" /\ columns = Nothing)
  BY <1>3, <1>4 DEF IInv, Shape, table
<1>9. Target(r)'
  BY <1>1, <1>8 DEF Target, Rereads
<1>10. Memory(r)'
  BY <1>2, <1>8 DEF IInv, RequestOK, Memory
<1>11. CodeOf(r)'
  <2>1. Mailed(r, entity[r]["code"]) \/ Promised(r, entity[r]["code"])
    BY <1>8 DEF IInv, RequestOK, CodeOf
  <2>2. columns = Nothing => "code" \notin DOMAIN columns
    BY NothingGood
  <2>. QED
    BY <2>1, <2>2, <1>2, <1>8 DEF IInv, RequestOK, CodeOf, Rereads, Mailed, Promised
<1>. QED
  BY <1>6, <1>7, <1>9, <1>10, <1>11, Together DEF RequestOK

\* Both only take the row.
LEMMA WrittenOK ==
    ASSUME IInv, NEW r \in Requests, Update(r) \/ Insert(r)
    PROVE  IInv'
<1>. USE DEF Update, Insert
<1>1. /\ pc[r] \in {"update", "insert"} /\ UNCHANGED <<table, mails, local, failures>>
      /\ pc' = [pc EXCEPT ![r] = AfterWrite(r)]
  OBVIOUS
<1>2. /\ pc[r] = "insert" => op[r] = "signUp"
      /\ pc[r] = "update" => op[r] # "signUp"
  BY <1>1 DEF IInv, RequestOK, Target, Rereads
<1>3. AfterWrite(r) \in {"publish", "commit"}
      /\ (op[r] \in {"resend", "signUp"} => AfterWrite(r) = "publish")
  BY DEF AfterWrite
<1>. HIDE DEF Update, Insert
<1>4. /\ Shape'
      /\ pc'[r] = AfterWrite(r) /\ op' = op /\ user' = user /\ change' = change
      /\ write' = write /\ failures' = failures /\ users' = users /\ mails' = mails
  BY <1>1, <1>3 DEF IInv, Shape, local, table
<1>5. Table' /\ OnlyOf(r)
  BY <1>1, <1>3, Silent DEF IInv, Shape, OnlyOf, local
<1>6. Target(r)'
  BY <1>1, <1>2, <1>3, <1>4 DEF IInv, RequestOK, Target, Rereads
<1>7. Memory(r)'
  BY <1>3, <1>4 DEF IInv, RequestOK, Memory
<1>8. CodeOf(r)'
  BY <1>1, <1>2, <1>3, <1>4 DEF IInv, RequestOK, CodeOf, Rereads, Mailed, Promised
<1>. QED
  BY <1>4, <1>5, <1>6, <1>7, <1>8, Together DEF RequestOK

LEMMA PublishOK ==
    ASSUME IInv, NEW r \in Requests, Publish(r)
    PROVE  IInv'
<1>. USE DEF Publish
<1>1. /\ pc[r] = "publish" /\ pc'[r] = "commit" /\ op' = op /\ user' = user /\ change' = change
      /\ write' = write /\ entity' = entity /\ failures' = failures /\ users' = users
      /\ wallets' = wallets
  BY DEF IInv, Shape, local, table
<1>2. /\ user[r] \in Users
      /\ op[r] = "signUp" => write[r] \in Fresh
      /\ op[r] = "resend" => "code" \in DOMAIN change[r]
  BY <1>1 DEF IInv, RequestOK, Target, CodeOf
<1>3. /\ op[r] = "signUp" => write[r].code \in Codes
      /\ op[r] = "resend" => change[r].code \in Codes
  BY <1>2 DEF IInv, RequestOK, Memory, Good, Typed, Fresh
<1>4. /\ mails \subseteq mails' /\ mails' \subseteq Users \X Codes
      /\ op[r] = "signUp" => <<user[r], write[r].code>> \in mails'
      /\ op[r] = "resend" => <<user[r], change[r].code>> \in mails'
  BY <1>2, <1>3 DEF IInv, Table
<1>5. Shape'
  BY <1>1 DEF IInv, Shape
<1>6. Table'
  BY <1>1, <1>4 DEF IInv, Table
<1>7. OnlyOf(r)
  BY <1>1, <1>4, AllowedAssumption DEF IInv, Shape, Table, OnlyOf
<1>8. Target(r)'
  BY <1>1 DEF IInv, RequestOK, Target, Rereads
<1>9. Memory(r)'
  BY <1>1 DEF IInv, RequestOK, Memory
<1>10. CodeOf(r)'
  <2>1. ASSUME "code" \in DOMAIN write[r]
        PROVE  <<user[r], write[r]["code"]>> \in mails'
    <3>1. CASE op[r] = "signUp"
      BY <1>4, <3>1
    <3>2. CASE op[r] # "signUp"
      BY <1>1, <1>4, <2>1, <3>2 DEF IInv, RequestOK, CodeOf, Mailed, Promised
    <3>. QED
      BY <3>1, <3>2
  <2>. QED
    BY <1>1, <2>1 DEF CodeOf, Rereads, Mailed
<1>. QED
  BY <1>5, <1>6, <1>7, <1>8, <1>9, <1>10, Together DEF RequestOK

LEMMA CommitOK ==
    ASSUME IInv, NEW r \in Requests, Commit(r)
    PROVE  IInv'
<1>1. /\ pc[r] = "commit" /\ Leave(r) /\ mails' = mails /\ failures' = failures
      /\ user[r] \in Users /\ Good(user[r], write[r], failures)
      /\ "code" \in DOMAIN write[r] => <<user[r], write[r]["code"]>> \in mails
  BY DEF IInv, RequestOK, Target, Memory, CodeOf, Mailed, Commit
<1>2. PICK row \in Rows :
         /\ users' = [users EXCEPT ![user[r]] = row]
         /\ wallets' = wallets \cup {user[r]}
         /\ Good(user[r], row, failures) /\ <<user[r], row["code"]>> \in mails
  <2>1. CASE op[r] = "signUp"
    <3>1. write[r] \in Fresh
      BY <1>1, <2>1 DEF IInv, RequestOK, Target
    <3>2. write[r] \in Rows /\ "code" \in DOMAIN write[r]
      BY <3>1, FreshRows, RowsTyped DEF Columns
    <3>. QED
      BY <1>1, <2>1, <3>2 DEF Commit
  <2>2. CASE op[r] # "signUp"
    <3>. DEFINE old == users[user[r]]
                new == Merge(old, write[r])
    <3>1. /\ old # None /\ old \in Rows /\ Good(user[r], old, failures)
          /\ <<user[r], old["code"]>> \in mails /\ user[r] \in wallets
      BY <1>1, <2>2 DEF IInv, RequestOK, Target, Table
    <3>2. /\ new \in Rows /\ Good(user[r], new, failures)
          /\ <<user[r], new["code"]>> \in mails
      BY <1>1, <3>1, MergeRow DEF Good
    <3>3. users' = [users EXCEPT ![user[r]] = new] /\ wallets' = wallets
      BY <2>2 DEF Commit
    <3>. HIDE DEF new
    <3>. QED
      BY <3>1, <3>2, <3>3
  <2>. QED
    BY <2>1, <2>2
<1>3. row # None
  BY NoneAssumption
<1>4. Table'
  <2>1. /\ users' \in [Users -> Rows \cup {None}]
        /\ \A u \in Users : users'[u] = IF u = user[r] THEN row ELSE users[u]
    BY <1>2 DEF IInv, Table
  <2>2. wallets' = {u \in Users : users'[u] # None}
    BY <1>1, <1>2, <1>3, <2>1 DEF IInv, Table
  <2>. QED
    BY <1>1, <1>2, <2>1, <2>2 DEF IInv, Table
<1>5. \A u \in Users : users[u] # None => users'[u] # None
  BY <1>2, <1>3 DEF IInv, Table
<1>. QED
  BY <1>1, <1>4, <1>5, LeaveOK

-----------------------------------------------------------------------------

LEMMA Initially == Init => IInv
<1>. SUFFICES ASSUME Init PROVE IInv
  OBVIOUS
<1>. USE DEF Init
<1>1. \A u \in Users : users[u] # None => users[u] \in Rows /\ Good(u, users[u], failures)
  BY FreshRows
<1>2. \A u \in Users : users[u] # None => users[u].code \in Codes
  BY DEF Fresh
<1>3. Table
  BY <1>1, <1>2, AllowedAssumption DEF Table
<1>4. Shape
  BY DEF Shape
<1>5. ASSUME NEW r \in Requests
      PROVE  RequestOK(r)
  <2>1. Target(r)
    BY DEF Target, Rereads
  <2>2. Memory(r)
    BY NothingGood DEF Memory
  <2>3. CodeOf(r)
    BY DEF CodeOf, Rereads
  <2>. QED
    BY <2>1, <2>2, <2>3 DEF RequestOK
<1>. QED
  BY <1>3, <1>4, <1>5 DEF IInv

LEMMA SubmitOK ==
    ASSUME IInv, NEW r \in Requests, Submit(r)
    PROVE  IInv'
<1>1. CASE SignUp(r) \/ SignIn(r) \/ ResendOtp(r)
  BY <1>1, BeginOK, NothingGood DEF SignUp, SignIn, ResendOtp
<1>2. CASE VerifyEmail(r)
  <2>1. PICK m \in mails : Begin(r, "verify", None, [code |-> m[2]])
    BY <1>2 DEF VerifyEmail
  <2>2. m[2] \in Codes
    BY DEF IInv, Table
  <2>3. Good(None, [code |-> m[2]], failures)
    BY <2>2 DEF Good, Typed, Earned, Columns
  <2>. QED
    BY <2>1, <2>3, BeginOK
<1>3. CASE UpdateProfile(r)
  <2>1. PICK u \in Users, p \in Profiles : Authorized(u) /\ Begin(r, "profile", u, [profile |-> p])
    BY <1>3 DEF UpdateProfile
  <2>2. Good(u, [profile |-> p], failures)
    BY DEF Good, Typed, Earned, Columns
  <2>. QED
    BY <2>1, <2>2, BeginOK DEF Authorized
<1>4. CASE ChangePassword(r)
  <2>1. PICK u \in Users, w \in Passwords :
           Authorized(u) /\ Begin(r, "password", u, [password |-> w])
    BY <1>4 DEF ChangePassword
  <2>2. Good(u, [password |-> w], failures)
    BY DEF Good, Typed, Earned, Columns
  <2>. QED
    BY <2>1, <2>2, BeginOK DEF Authorized
<1>5. CASE DeleteAccount(r)
  <2>1. PICK u \in Users : Authorized(u) /\ Begin(r, "delete", u, [status |-> "deleted"])
    BY <1>5 DEF DeleteAccount
  <2>2. Good(u, [status |-> "deleted"], failures)
    BY DEF Good, Typed, Earned, Columns, Statuses
  <2>. QED
    BY <2>1, <2>2, BeginOK DEF Authorized
<1>. QED
  BY <1>1, <1>2, <1>3, <1>4, <1>5 DEF Submit

LEMMA WrongPasswordOK ==
    ASSUME IInv, NEW r \in Requests, WrongPassword(r)
    PROVE  IInv'
<1>. DEFINE u == user[r]
            row == users[u]
            values == IF row.attempts >= Allowed THEN [status |-> "locked"]
                      ELSE [attempts |-> row.attempts + 1]
<1>1. /\ u \in Users /\ row # None /\ row \in Rows /\ Good(u, row, failures)
      /\ pc[r] = "read" /\ Proceed(r, "failure", u, values)
      /\ failures' = [failures EXCEPT ![u] = IF @ <= Allowed THEN @ + 1 ELSE @]
      /\ failures \in [Users -> 0 .. Allowed + 1]
  BY DEF WrongPassword, Reads, Known, IInv, Shape, Table
<1>2. row.attempts \in 0 .. Allowed /\ row.attempts <= failures[u]
  BY <1>1, RowsTyped DEF Rows, Good, Earned, Columns
<1>3. /\ failures' \in [Users -> 0 .. Allowed + 1]
      /\ \A v \in Users : failures[v] <= failures'[v]
      /\ failures'[u] = IF failures[u] <= Allowed THEN failures[u] + 1 ELSE failures[u]
      /\ failures[u] \in 0 .. Allowed + 1
  BY <1>1, AllowedAssumption
<1>4. Good(u, values, failures') /\ "code" \notin DOMAIN values
  <2>1. CASE row.attempts >= Allowed
    <3>1. values = [status |-> "locked"]
      BY <2>1
    <3>2. failures'[u] > Allowed
      BY <1>2, <1>3, <2>1, AllowedAssumption
    <3>. HIDE DEF values
    <3>. QED
      BY <3>1, <3>2 DEF Good, Typed, Earned, Columns, Statuses
  <2>2. CASE ~(row.attempts >= Allowed)
    <3>1. values = [attempts |-> row.attempts + 1]
      BY <2>2
    <3>2. row.attempts + 1 \in 0 .. Allowed /\ row.attempts + 1 <= failures'[u]
      BY <1>2, <1>3, <2>2, AllowedAssumption
    <3>. HIDE DEF values
    <3>. QED
      BY <3>1, <3>2 DEF Good, Typed, Earned, Columns
  <2>. QED
    BY <2>1, <2>2
<1>. HIDE DEF values
<1>. QED
  BY <1>1, <1>3, <1>4, ProceedOK

\* The others that go on with update().
LEMMA FoundOK ==
    ASSUME IInv, NEW r \in Requests, RightPassword(r) \/ NewCode(r) \/ CodeFound(r)
    PROVE  IInv'
<1>1. /\ failures' \in [Users -> 0 .. Allowed + 1]
      /\ \A v \in Users : failures[v] <= failures'[v] /\ failures'[v] \in Nat
  BY AllowedAssumption DEF IInv, Table, RightPassword, NewCode, CodeFound
<1>2. CASE RightPassword(r)
  <2>1. /\ user[r] \in Users /\ users[user[r]] # None /\ pc[r] = "read"
        /\ Proceed(r, "signIn", user[r], [attempts |-> 0])
    BY <1>2 DEF RightPassword, Reads, Known, IInv, Shape
  <2>2. Good(user[r], [attempts |-> 0], failures')
    BY <1>1, AllowedAssumption DEF Good, Typed, Earned, Columns
  <2>. QED
    BY <1>1, <2>1, <2>2, ProceedOK
<1>3. CASE NewCode(r)
  <2>1. PICK c \in Codes : Proceed(r, "resend", user[r], [code |-> c])
    BY <1>3 DEF NewCode
  <2>2. user[r] \in Users /\ users[user[r]] # None /\ pc[r] = "read"
    BY <1>3 DEF NewCode, Reads, Known, IInv, Shape
  <2>3. Good(user[r], [code |-> c], failures')
    BY DEF Good, Typed, Earned, Columns
  <2>. QED
    BY <1>1, <2>1, <2>2, <2>3, ProceedOK
<1>4. CASE CodeFound(r)
  <2>1. PICK u \in Users :
           /\ users[u] # None /\ pc[r] = "read"
           /\ Proceed(r, "verify", u, [verified |-> TRUE, status |-> "active", attempts |-> 0])
    BY <1>4 DEF CodeFound, Reads
  <2>2. Good(u, [verified |-> TRUE, status |-> "active", attempts |-> 0], failures')
    BY <1>1, AllowedAssumption DEF Good, Typed, Earned, Columns, Statuses
  <2>. QED
    BY <1>1, <2>1, <2>2, ProceedOK
<1>. QED
  BY <1>2, <1>3, <1>4

LEMMA ProgressOK ==
    ASSUME IInv, NEW r \in Requests, Progress(r)
    PROVE  IInv'
<1>1. ASSUME Leave(r), UNCHANGED <<table, mails, failures>>
      PROVE  IInv'
  BY <1>1, LeaveOK, Silent
<1>. QED
  BY <1>1, NewUserOK, WrongPasswordOK, FoundOK, RereadOK, SelectOK, WrittenOK, PublishOK, CommitOK
     DEF Progress, Refuse, DuplicateKey

LEMMA Invariance == Safety => []IInv
<1>1. IInv /\ [Next]_vars => IInv'
  <2>. SUFFICES ASSUME IInv, [Next]_vars
                PROVE  IInv'
    OBVIOUS
  <2>1. CASE UNCHANGED vars
    <3>1. Shape' /\ Table'
      BY <2>1 DEF vars, local, table, IInv, Shape, Table
    <3>2. ASSUME NEW r \in Requests
          PROVE  RequestOK(r)'
      BY <2>1 DEF vars, local, table, IInv, RequestOK, Target, Memory, CodeOf, Mailed, Promised
    <3>. QED
      BY <3>1, <3>2 DEF IInv
  <2>2. ASSUME NEW r \in Requests, Fails(r)
        PROVE  IInv'
    BY <2>2, LeaveOK, Silent DEF Fails
  <2>. QED
    BY <2>1, <2>2, SubmitOK, ProgressOK DEF Next, Finished
<1>. QED
  BY Initially, <1>1, PTL DEF Safety

-----------------------------------------------------------------------------
(* The theorems. *)

\* Every variable keeps its type: no save() writes a column with a value of another.
THEOREM TypeCorrect == Safety => []TypeOK
<1>1. IInv => TypeOK
  BY DEF IInv, TypeOK, Shape, Table, RequestOK, Memory, Good, Typed, Partial
<1>. QED
  BY <1>1, Invariance, PTL

\* Whatever overlaps, fails or is sent twice, the code of a row is one its user was
\* mailed.
THEOREM CodesMailed == Safety => []StoredCodesWereMailed
<1>1. IInv => StoredCodesWereMailed
  BY DEF IInv, Table, StoredCodesWereMailed
<1>. QED
  BY <1>1, Invariance, PTL

\* A sign-up makes the user and the wallet, or neither.
THEOREM WalletsOfUsers == Safety => []UsersHaveWallets
<1>1. IInv => UsersHaveWallets
  BY DEF IInv, Table, UsersHaveWallets
<1>. QED
  BY <1>1, Invariance, PTL

\* However sign-ins overlap, the counter and the lock take wrong passwords.
THEOREM LocksEarned == Safety => []LockNeedsFailures
<1>1. IInv => LockNeedsFailures
  <2>. SUFFICES ASSUME IInv, NEW u \in Users, users[u] # None
                PROVE  /\ users[u].attempts <= failures[u]
                       /\ users[u].status = "locked" => failures[u] > Allowed
    BY DEF LockNeedsFailures
  <2>1. users[u] \in Rows /\ Good(u, users[u], failures)
    BY DEF IInv, Table
  <2>. QED
    BY <2>1, RowsTyped DEF Good, Earned, Columns
<1>. QED
  BY <1>1, Invariance, PTL

-----------------------------------------------------------------------------
(* One request of a user at a time: each is one step of the account.       *)
(* What a request read then still holds when it writes.                    *)

\* Requests in progress work on different rows; one that does not know its row yet
\* has no company.
Alone ==
    \A r, o \in Requests :
        Active(r) /\ Active(o) /\ r # o => user[r] # user[o] /\ user[r] # None

\* What the checks of an operation have left of the row, and the columns it changes.
Asked(what, row, values) ==
    \/ /\ what = "failure" /\ row.status # "locked"
       /\ values = IF row.attempts >= Allowed THEN [status |-> "locked"]
                   ELSE [attempts |-> row.attempts + 1]
    \/ what = "signIn" /\ Usable(row) /\ values = [attempts |-> 0]
    \/ what = "resend" /\ ~row.verified /\ \E c \in Codes : values = [code |-> c]
    \/ /\ what = "verify" /\ ~row.verified
       /\ values = [verified |-> TRUE, status |-> "active", attempts |-> 0]
    \/ what = "profile" /\ Usable(row) /\ \E p \in Profiles : values = [profile |-> p]
    \/ what = "password" /\ Usable(row) /\ \E w \in Passwords : values = [password |-> w]
    \/ what = "delete" /\ Usable(row) /\ values = [status |-> "deleted"]

UpToDate(r) ==
    /\ pc[r] = "read" /\ op[r] = "verify" => user[r] = None
    /\ pc[r] \in Rereads \cup {"publish", "commit"} /\ op[r] # "signUp" =>
          Asked(op[r], users[user[r]], change[r])
    /\ pc[r] = "select" => entity[r] = Merge(users[user[r]], change[r])
    /\ pc[r] \in {"update", "publish", "commit"} /\ op[r] # "signUp" =>
          Merge(users[user[r]], write[r]) = Merge(users[user[r]], change[r])
    /\ pc[r] \in {"publish", "commit"} /\ op[r] = "signUp" => users[user[r]] = None

\* r holds the unique key of a code.
HoldsCode(r) == pc[r] \in {"publish", "commit"} /\ "code" \in DOMAIN write[r]

CodesApart ==
    /\ \A u, v \in Users :
          users[u] # None /\ users[v] # None /\ users[u]["code"] = users[v]["code"] => u = v
    /\ \A r \in Requests, u \in Users :
          HoldsCode(r) /\ u # user[r] /\ users[u] # None => users[u]["code"] # write[r]["code"]
    /\ \A r, o \in Requests :
          HoldsCode(r) /\ HoldsCode(o) /\ r # o => write[r]["code"] # write[o]["code"]

SInv == IInv /\ Alone /\ CodesApart /\ \A r \in Requests : UpToDate(r)

\* The other requests work on other rows.
LEMMA OthersUpToDate ==
    ASSUME SInv, NEW r \in Requests, OnlyOf(r),
           \/ users' = users
           \/ Active(r) /\ \A u \in Users \ {user[r]} : users'[u] = users[u]
    PROVE  \A o \in Requests \ {r} : UpToDate(o)'
<1>. SUFFICES ASSUME NEW o \in Requests \ {r}
              PROVE  UpToDate(o)'
  OBVIOUS
<1>1. /\ pc'[o] = pc[o] /\ op'[o] = op[o] /\ user'[o] = user[o]
      /\ change'[o] = change[o] /\ entity'[o] = entity[o] /\ write'[o] = write[o]
  BY DEF OnlyOf
<1>2. ASSUME pc[o] \in Rereads \cup {"publish", "commit"}
      PROVE  users'[user[o]] = users[user[o]]
  <2>1. Active(o) /\ user[o] \in Users
    BY <1>2 DEF Active, Rereads, SInv, IInv, RequestOK, Target
  <2>2. Active(r) => user[o] # user[r]
    BY <2>1 DEF SInv, Alone
  <2>. QED
    BY <2>1, <2>2
<1>3. UpToDate(o)
  BY DEF SInv
<1>. QED
  BY <1>1, <1>2, <1>3 DEF UpToDate, Rereads

\* r keeps its row, or leaves it.
LEMMA AloneStays ==
    ASSUME SInv, NEW r \in Requests, OnlyOf(r),
           Active(r)' => Active(r) /\ user'[r] = user[r]
    PROVE  Alone'
BY DEF SInv, Alone, Active, OnlyOf

\* r takes no code.
LEMMA CodesStayApart ==
    ASSUME SInv, NEW r \in Requests, OnlyOf(r), users' = users,
           HoldsCode(r)' => HoldsCode(r) /\ user'[r] = user[r] /\ write'[r] = write[r]
    PROVE  CodesApart'
<1>1. \A o \in Requests :
         HoldsCode(o)' => HoldsCode(o) /\ user'[o] = user[o] /\ write'[o] = write[o]
  BY DEF OnlyOf, HoldsCode
<1>. QED
  BY <1>1 DEF SInv, CodesApart

LEMMA SerialTogether ==
    ASSUME SInv, NEW r \in Requests, IInv', OnlyOf(r), users' = users,
           Active(r)' => Active(r) /\ user'[r] = user[r],
           HoldsCode(r)' => HoldsCode(r) /\ user'[r] = user[r] /\ write'[r] = write[r],
           UpToDate(r)'
    PROVE  SInv'
BY OthersUpToDate, AloneStays, CodesStayApart DEF SInv

\* The steps of r that leave the table alone, by what they change.
LEMMA OnlyActor ==
    ASSUME SInv, NEW r \in Requests, UNCHANGED table, mails \subseteq mails',
           failures' = failures \/ (/\ failures' \in [Users -> 0 .. Allowed + 1]
                                    /\ \A v \in Users : failures[v] <= failures'[v]),
           pc' = pc \/ \E c : pc' = [pc EXCEPT ![r] = c],
           op' = op \/ \E c : op' = [op EXCEPT ![r] = c],
           user' = user \/ \E c : user' = [user EXCEPT ![r] = c],
           change' = change \/ \E c : change' = [change EXCEPT ![r] = c],
           entity' = entity \/ \E c : entity' = [entity EXCEPT ![r] = c],
           write' = write \/ \E c : write' = [write EXCEPT ![r] = c]
    PROVE  OnlyOf(r) /\ users' = users
<1>1. \A v \in Users : failures[v] \in Nat /\ failures'[v] \in Nat /\ failures[v] <= failures'[v]
  BY AllowedAssumption DEF SInv, IInv, Table
<1>2. \A o \in Requests \ {r} : pc'[o] = pc[o] /\ op'[o] = op[o] /\ user'[o] = user[o]
  BY DEF SInv, IInv, Shape
<1>3. \A o \in Requests \ {r} :
         change'[o] = change[o] /\ entity'[o] = entity[o] /\ write'[o] = write[o]
  BY DEF SInv, IInv, Shape
<1>. QED
  BY <1>1, <1>2, <1>3 DEF OnlyOf, table

LEMMA SerialLeave ==
    ASSUME SInv, IInv', NEW r \in Requests, Leave(r), UNCHANGED <<table, mails, failures>>
    PROVE  SInv'
<1>1. OnlyOf(r) /\ users' = users
  BY OnlyActor DEF Leave
<1>2. pc'[r] = "done"
  BY DEF Leave, SInv, IInv, Shape
<1>3. ~Active(r)' /\ ~HoldsCode(r)' /\ UpToDate(r)'
  BY <1>2 DEF Active, HoldsCode, UpToDate, Rereads
<1>. QED
  BY <1>1, <1>3, SerialTogether

LEMMA NobodyElse ==
    ASSUME SInv, MaxPerUser = 1, NEW u, Calm(u), NEW o \in Requests, Active(o)
    PROVE  user[o] # u /\ user[o] # None
<1>. DEFINE S == {q \in Requests : Active(q) /\ user[q] \in {u, None}}
<1>1. IsFiniteSet(S)
  BY RequestsAssumption, FS_Subset
<1>2. Cardinality(S) < 1
  BY DEF Calm
<1>3. Cardinality(S) = 0
  BY <1>1, <1>2, FS_CardinalityType
<1>4. S = {}
  BY <1>1, <1>3, FS_EmptySet
<1>. QED
  BY <1>4

LEMMA SerialBegin ==
    ASSUME SInv, IInv', MaxPerUser = 1, NEW r \in Requests, NEW what, NEW u, NEW values,
           Begin(r, what, u, values),
           \/ /\ what \in {"signUp", "signIn", "resend"} /\ u \in Users /\ Calm(u)
           \/ /\ what = "verify" /\ u = None /\ mails # {} /\ \A v \in Users : Calm(v)
           \/ /\ what \in {"profile", "password", "delete"} /\ u \in Users /\ Calm(u)
              /\ Asked(what, users[u], values)
    PROVE  SInv'
<1>. DEFINE next == IF what \in {"profile", "password", "delete"} THEN "reread" ELSE "read"
<1>1. /\ pc[r] = "idle" /\ UNCHANGED <<table, mails, entity, write, failures>>
      /\ pc' = [pc EXCEPT ![r] = next] /\ op' = [op EXCEPT ![r] = what]
      /\ user' = [user EXCEPT ![r] = u] /\ change' = [change EXCEPT ![r] = values]
  BY DEF Begin
<1>2. OnlyOf(r) /\ users' = users
  BY <1>1, OnlyActor
<1>3. /\ pc'[r] = next /\ op'[r] = what /\ user'[r] = u /\ change'[r] = values
  BY <1>1 DEF SInv, IInv, Shape
<1>4. UpToDate(r)'
  BY <1>2, <1>3 DEF UpToDate, Rereads
<1>5. Alone'
  <2>1. ASSUME NEW o \in Requests \ {r}, Active(o)
        PROVE  user[o] # u /\ user[o] # None /\ u # None
    <3>1. CASE what # "verify"
      BY <2>1, <3>1, NobodyElse, NoneAssumption
    <3>2. CASE what = "verify"
      <4>1. PICK v \in Users : Calm(v)
        BY <3>2 DEF SInv, IInv, Table
      <4>2. user[o] \in Users \/ user[o] = None
        BY DEF SInv, IInv, Shape
      <4>3. user[o] # None
        BY <2>1, <4>1, NobodyElse
      <4>4. Calm(user[o])
        BY <3>2, <4>2, <4>3
      <4>. QED
        BY <2>1, <4>4, NobodyElse
    <3>. QED
      BY <3>1, <3>2
  <2>. QED
    BY <1>1, <1>2, <1>3, <2>1 DEF SInv, Alone, Active, OnlyOf
<1>6. CodesApart'
  BY <1>2, <1>3, CodesStayApart DEF HoldsCode
<1>. QED
  BY <1>2, <1>4, <1>5, <1>6, OthersUpToDate DEF SInv

LEMMA SerialSubmit ==
    ASSUME SInv, IInv', MaxPerUser = 1, NEW r \in Requests, Submit(r)
    PROVE  SInv'
<1>1. CASE SignUp(r) \/ SignIn(r) \/ ResendOtp(r)
  BY <1>1, SerialBegin DEF SignUp, SignIn, ResendOtp
<1>2. CASE VerifyEmail(r)
  BY <1>2, SerialBegin DEF VerifyEmail
<1>3. CASE UpdateProfile(r) \/ ChangePassword(r) \/ DeleteAccount(r)
  BY <1>3, SerialBegin DEF UpdateProfile, ChangePassword, DeleteAccount, Authorized, Asked
<1>. QED
  BY <1>1, <1>2, <1>3 DEF Submit

LEMMA SerialProceed ==
    ASSUME SInv, IInv', NEW r \in Requests, NEW what \in {"failure", "signIn", "resend", "verify"},
           NEW u \in Users, NEW values, pc[r] = "read", Proceed(r, what, u, values),
           Asked(what, users[u], values), user[r] \in {u, None},
           failures' = failures \/ (/\ failures' \in [Users -> 0 .. Allowed + 1]
                                    /\ \A v \in Users : failures[v] <= failures'[v])
    PROVE  SInv'
<1>1. /\ UNCHANGED <<table, mails, entity, write>>
      /\ pc' = [pc EXCEPT ![r] = "reread"] /\ op' = [op EXCEPT ![r] = what]
      /\ user' = [user EXCEPT ![r] = u] /\ change' = [change EXCEPT ![r] = values]
  BY DEF Proceed
<1>2. OnlyOf(r) /\ users' = users
  BY <1>1, OnlyActor
<1>3. pc'[r] = "reread" /\ op'[r] = what /\ user'[r] = u /\ change'[r] = values
  BY <1>1 DEF SInv, IInv, Shape
<1>4. UpToDate(r)'
  BY <1>2, <1>3 DEF UpToDate, Rereads
<1>5. Alone'
  BY <1>2, <1>3 DEF SInv, Alone, Active, OnlyOf
<1>6. CodesApart'
  BY <1>2, <1>3, CodesStayApart DEF HoldsCode
<1>. QED
  BY <1>2, <1>4, <1>5, <1>6, OthersUpToDate DEF SInv

LEMMA SerialNewUser ==
    ASSUME SInv, IInv', NEW r \in Requests, NewUser(r)
    PROVE  SInv'
<1>1. OnlyOf(r) /\ users' = users
  BY OnlyActor DEF NewUser
<1>2. pc[r] = "read" /\ pc'[r] = "insert" /\ user' = user
  BY DEF NewUser, Reads, SInv, IInv, Shape
<1>3. UpToDate(r)' /\ ~HoldsCode(r)' /\ Active(r)
  BY <1>2 DEF UpToDate, HoldsCode, Active, Rereads
<1>. QED
  BY <1>1, <1>2, <1>3, SerialTogether

LEMMA SerialRead ==
    ASSUME SInv, IInv', NEW r \in Requests,
           WrongPassword(r) \/ RightPassword(r) \/ NewCode(r) \/ CodeFound(r)
    PROVE  SInv'
<1>1. failures \in [Users -> 0 .. Allowed + 1] /\ (op[r] = "verify" /\ pc[r] = "read" => user[r] = None)
  BY DEF SInv, IInv, Table, UpToDate
<1>2. CASE WrongPassword(r)
  <2>1. \A v \in Users : failures[v] <= failures'[v]
    BY <1>1, <1>2, AllowedAssumption DEF WrongPassword
  <2>2. failures' \in [Users -> 0 .. Allowed + 1]
    BY DEF IInv, Table
  <2>3. user[r] \in Users
    BY <1>2 DEF WrongPassword, Known, SInv, IInv, Shape
  <2>. QED
    BY <1>2, <2>1, <2>2, <2>3, SerialProceed DEF WrongPassword, Reads, Asked
<1>3. CASE RightPassword(r)
  <2>1. user[r] \in Users
    BY <1>3 DEF RightPassword, Known, SInv, IInv, Shape
  <2>. QED
    BY <1>3, <2>1, SerialProceed DEF RightPassword, Reads, Asked
<1>4. CASE NewCode(r)
  <2>1. user[r] \in Users
    BY <1>4 DEF NewCode, Known, SInv, IInv, Shape
  <2>2. PICK c \in Codes : Proceed(r, "resend", user[r], [code |-> c])
    BY <1>4 DEF NewCode
  <2>. QED
    BY <1>4, <2>1, <2>2, SerialProceed DEF NewCode, Reads, Asked
<1>5. CASE CodeFound(r)
  BY <1>1, <1>5, SerialProceed DEF CodeFound, Reads, Asked
<1>. QED
  BY <1>2, <1>3, <1>4, <1>5

LEMMA SerialReread ==
    ASSUME SInv, IInv', NEW r \in Requests, Reread(r)
    PROVE  SInv'
<1>1. OnlyOf(r) /\ users' = users
  BY OnlyActor DEF Reread
<1>2. /\ pc[r] = "reread" /\ pc'[r] = "select" /\ user' = user /\ op' = op /\ change' = change
      /\ entity'[r] = Merge(users[user[r]], change[r])
  BY DEF Reread, SInv, IInv, Shape
<1>3. UpToDate(r)' /\ ~HoldsCode(r)' /\ Active(r)
  BY <1>1, <1>2 DEF SInv, UpToDate, HoldsCode, Active, Rereads
<1>. QED
  BY <1>1, <1>2, <1>3, SerialTogether

\* Writing the differences makes the row what the entity is.
LEMMA DifferencesMake ==
    ASSUME NEW new \in Rows, NEW row \in Rows
    PROVE  Merge(row, Differences(new, row)) = new
<1>1. Merge(row, Differences(new, row)) = [c \in Columns |-> new[c]]
  BY DEF Merge, Differences
<1>2. new = [c \in Columns |-> new[c]]
  BY DEF Rows, Columns
<1>. QED
  BY <1>1, <1>2

LEMMA SerialSelect ==
    ASSUME SInv, IInv', NEW r \in Requests, Select(r)
    PROVE  SInv'
<1>. DEFINE row == users[user[r]]
            columns == Differences(entity[r], row)
<1>1. OnlyOf(r) /\ users' = users
  BY OnlyActor DEF Select
<1>2. /\ pc[r] = "select" /\ user[r] \in Users /\ row \in Rows /\ op[r] # "signUp"
      /\ entity[r] \in Rows /\ entity[r] = Merge(row, change[r])
      /\ Asked(op[r], row, change[r])
  BY DEF Select, SInv, UpToDate, IInv, RequestOK, Target, Memory, Table, Rereads
<1>3. /\ user' = user /\ op' = op /\ change' = change /\ write'[r] = columns
      /\ pc'[r] = "update" \/ (pc'[r] = "commit" /\ columns = Nothing)
  BY <1>2 DEF Select, AlwaysWrites, AfterWrite, SInv, IInv, Shape
<1>4. Merge(row, columns) = Merge(row, change[r])
  BY <1>2, DifferencesMake
<1>. HIDE DEF columns
<1>5. UpToDate(r)'
  BY <1>1, <1>2, <1>3, <1>4 DEF UpToDate, Rereads
<1>6. ~HoldsCode(r)' /\ Active(r)
  BY <1>2, <1>3, NothingGood DEF HoldsCode, Active
<1>. QED
  BY <1>1, <1>3, <1>5, <1>6, SerialTogether

\* The write waits for the locks of others and fails on a key that is taken.
LEMMA SerialWritten ==
    ASSUME SInv, IInv', NEW r \in Requests, Update(r) \/ Insert(r)
    PROVE  SInv'
<1>1. /\ UNCHANGED <<table, mails, local, failures>> /\ ~Waits(r) /\ ~Duplicate(r)
      /\ pc[r] \in {"update", "insert"} /\ pc' = [pc EXCEPT ![r] = AfterWrite(r)]
  BY DEF Update, Insert
<1>2. OnlyOf(r) /\ users' = users
  BY <1>1, OnlyActor DEF local
<1>3. /\ op' = op /\ user' = user /\ change' = change /\ write' = write
      /\ pc'[r] \in {"publish", "commit"} /\ user[r] \in Users
      /\ pc[r] = "update" <=> op[r] # "signUp"
  BY <1>1 DEF local, AfterWrite, SInv, IInv, Shape, RequestOK, Target, Rereads
<1>4. op[r] = "signUp" => users[user[r]] = None
  BY <1>1, <1>3, NoneAssumption DEF Duplicate, Known
<1>5. UpToDate(r)'
  BY <1>1, <1>2, <1>3, <1>4 DEF SInv, UpToDate, Rereads
<1>6. Alone'
  BY <1>1, <1>2, <1>3, AloneStays DEF Active
<1>7. CodesApart'
  <2>1. ASSUME NEW u \in Users \ {user[r]}, users[u] # None, HoldsCode(r)'
        PROVE  users[u]["code"] # write[r]["code"]
    <3>1. users[u] \in Rows
      BY <2>1 DEF SInv, IInv, Table
    <3>2. "code" \in DOMAIN users[u] /\ "code" \in DOMAIN write[r]
      BY <1>3, <2>1, <3>1, RowsTyped DEF HoldsCode, Columns
    <3>. QED
      BY <1>1, <2>1, <3>2 DEF Duplicate, SameCode
  <2>2. ASSUME NEW o \in Requests \ {r}, HoldsCode(o), HoldsCode(r)'
        PROVE  write[o]["code"] # write[r]["code"]
    <3>1. write[o] # Nothing
      BY <2>2, NothingGood DEF HoldsCode
    <3>2. HasWritten(o)
      BY <2>2, <3>1 DEF HasWritten, HoldsCode
    <3>. QED
      BY <1>1, <1>3, <2>2, <3>2 DEF Waits, SameCode, HoldsCode
  <2>3. \A o \in Requests \ {r} : HoldsCode(o)' <=> HoldsCode(o)
    BY <1>2 DEF OnlyOf, HoldsCode
  <2>. QED
    BY <1>2, <1>3, <2>1, <2>2, <2>3 DEF SInv, CodesApart
<1>. QED
  BY <1>2, <1>5, <1>6, <1>7, OthersUpToDate DEF SInv

LEMMA SerialPublish ==
    ASSUME SInv, IInv', NEW r \in Requests, Publish(r)
    PROVE  SInv'
<1>1. mails \subseteq mails'
  BY DEF Publish
<1>2. UNCHANGED <<table, local, failures>> /\ pc[r] = "publish" /\ pc' = [pc EXCEPT ![r] = "commit"]
  BY DEF Publish
<1>3. OnlyOf(r) /\ users' = users
  BY <1>1, <1>2, OnlyActor DEF local
<1>4. op' = op /\ user' = user /\ change' = change /\ write' = write /\ pc'[r] = "commit"
  BY <1>2 DEF local, SInv, IInv, Shape
<1>5. UpToDate(r)' /\ Active(r) /\ (HoldsCode(r)' => HoldsCode(r))
  BY <1>2, <1>3, <1>4 DEF SInv, UpToDate, Active, HoldsCode, Rereads
<1>. QED
  BY <1>3, <1>4, <1>5, SerialTogether

\* What a COMMIT does: the row of a new user, or the columns that were asked for.
LEMMA Committed ==
    ASSUME SInv, NEW r \in Requests, Commit(r)
    PROVE  LET u == user[r]
               new == IF op[r] = "signUp" THEN write[r] ELSE Merge(users[u], change[r])
           IN  /\ pc[r] = "commit" /\ u \in Users /\ new \in Rows
               /\ users' = [users EXCEPT ![u] = new]
               /\ op[r] = "signUp" => /\ users[u] = None /\ new \in Fresh
                                      /\ wallets' = wallets \cup {u}
               /\ op[r] # "signUp" => /\ users[u] \in Rows /\ wallets' = wallets
                                      /\ Asked(op[r], users[u], change[r])
                                      /\ new = Merge(users[u], write[r])
               /\ \/ HoldsCode(r) /\ new["code"] = write[r]["code"]
                  \/ users[u] # None /\ new["code"] = users[u]["code"]
<1>1. /\ pc[r] = "commit" /\ user[r] \in Users /\ Typed(write[r])
      /\ op[r] = "signUp" => write[r] \in Fresh
      /\ op[r] # "signUp" => users[user[r]] # None
      /\ users \in [Users -> Rows \cup {None}]
  BY DEF Commit, SInv, IInv, RequestOK, Target, Memory, Good, Table
<1>2. CASE op[r] = "signUp"
  <2>1. write[r] \in Rows /\ DOMAIN write[r] = Columns
    BY <1>1, <1>2, FreshRows, RowsTyped
  <2>2. users[user[r]] = None
    BY <1>1, <1>2 DEF SInv, UpToDate
  <2>. QED
    BY <1>1, <1>2, <2>1, <2>2 DEF Commit, HoldsCode, Columns
<1>3. CASE op[r] # "signUp"
  <2>1. users[user[r]] \in Rows
    BY <1>1, <1>3
  <2>2. /\ Merge(users[user[r]], write[r]) = Merge(users[user[r]], change[r])
        /\ Asked(op[r], users[user[r]], change[r])
    BY <1>1, <1>3 DEF SInv, UpToDate
  <2>3. Merge(users[user[r]], write[r]) \in Rows
        /\ Merge(users[user[r]], write[r])["code"] =
              IF "code" \in DOMAIN write[r] THEN write[r]["code"] ELSE users[user[r]]["code"]
    BY <1>1, <2>1, MergeRow
  <2>. QED
    BY <1>1, <1>3, <2>1, <2>2, <2>3 DEF Commit, HoldsCode
<1>. QED
  BY <1>2, <1>3

LEMMA SerialCommit ==
    ASSUME SInv, IInv', NEW r \in Requests, Commit(r)
    PROVE  SInv'
<1>. DEFINE u == user[r]
<1>1. PICK new \in Rows :
         /\ pc[r] = "commit" /\ u \in Users /\ users' = [users EXCEPT ![u] = new]
         /\ \/ HoldsCode(r) /\ new["code"] = write[r]["code"]
            \/ users[u] # None /\ new["code"] = users[u]["code"]
  BY Committed
<1>2. /\ \A v \in Users : users'[v] = IF v = u THEN new ELSE users[v]
      /\ new # None
  BY <1>1, NoneAssumption DEF SInv, IInv, Table
<1>3. Leave(r) /\ pc'[r] = "done" /\ UNCHANGED <<mails, failures>>
  BY DEF Commit, Leave, SInv, IInv, Shape
<1>4. OnlyOf(r)
  <2>1. \A v \in Users : failures[v] \in Nat /\ (users[v] # None => users'[v] # None)
    BY <1>2, AllowedAssumption DEF SInv, IInv, Table
  <2>2. \A o \in Requests \ {r} : pc'[o] = pc[o] /\ op'[o] = op[o] /\ user'[o] = user[o]
    BY <1>3 DEF Leave, SInv, IInv, Shape
  <2>3. \A o \in Requests \ {r} :
           change'[o] = change[o] /\ entity'[o] = entity[o] /\ write'[o] = write[o]
    BY <1>3 DEF Leave, SInv, IInv, Shape
  <2>. QED
    BY <1>3, <2>1, <2>2, <2>3 DEF OnlyOf
<1>5. ~Active(r)' /\ ~HoldsCode(r)' /\ UpToDate(r)' /\ Active(r)
  BY <1>1, <1>3 DEF Active, HoldsCode, UpToDate, Rereads
<1>6. Alone'
  BY <1>4, <1>5, AloneStays
<1>7. \A o \in Requests : UpToDate(o)'
  BY <1>2, <1>4, <1>5, OthersUpToDate
<1>8. CodesApart'
  <2>1. \A v \in Users \ {u} : users[v] # None => users[v]["code"] # new["code"]
    BY <1>1 DEF SInv, CodesApart
  <2>2. \A o \in Requests \ {r} : HoldsCode(o) /\ user[o] # u => new["code"] # write[o]["code"]
    BY <1>1 DEF SInv, CodesApart
  <2>3. \A o \in Requests : HoldsCode(o)' =>
           o # r /\ HoldsCode(o) /\ user'[o] = user[o] /\ write'[o] = write[o]
    BY <1>4, <1>5 DEF OnlyOf, HoldsCode
  <2>. QED
    BY <1>2, <2>1, <2>2, <2>3 DEF SInv, CodesApart
<1>. QED
  BY <1>6, <1>7, <1>8 DEF SInv

LEMMA SerialInitially == Init => SInv
<1>. SUFFICES ASSUME Init PROVE SInv
  OBVIOUS
<1>1. \A r \in Requests : ~Active(r) /\ ~HoldsCode(r) /\ UpToDate(r)
  BY DEF Init, Active, HoldsCode, UpToDate, Rereads
<1>2. CodesApart
  BY <1>1 DEF Init, CodesApart
<1>. QED
  BY <1>1, <1>2, Initially DEF SInv, Alone

LEMMA SerialStep ==
    ASSUME MaxPerUser = 1, SInv, IInv', [Next]_vars
    PROVE  SInv'
<1>1. CASE UNCHANGED vars
  BY <1>1 DEF vars, table, local, SInv, Alone, Active, CodesApart, HoldsCode, UpToDate
<1>2. ASSUME NEW r \in Requests, Fails(r)
      PROVE  SInv'
  BY <1>2, SerialLeave DEF Fails
<1>3. ASSUME NEW r \in Requests, Progress(r)
      PROVE  SInv'
  <2>1. CASE Refuse(r) \/ DuplicateKey(r)
    BY <2>1, SerialLeave DEF Refuse, DuplicateKey
  <2>. QED
    BY <1>3, <2>1, SerialNewUser, SerialRead, SerialReread, SerialSelect, SerialWritten,
       SerialPublish, SerialCommit DEF Progress
<1>. QED
  BY <1>1, <1>2, <1>3, SerialSubmit DEF Next, Finished

LEMMA SerialInvariance ==
    ASSUME MaxPerUser = 1
    PROVE  Safety => []SInv
<1>1. SInv /\ [Next]_vars /\ IInv' => SInv'
  BY SerialStep
<1>. QED
  BY <1>1, SerialInitially, Invariance, PTL DEF Safety

\* Changing one column, or those of a verification.
LEMMA MergeOne ==
    ASSUME NEW row \in Rows, NEW x
    PROVE  /\ Merge(row, [status |-> x]) = [row EXCEPT !["status"] = x]
           /\ Merge(row, [attempts |-> x]) = [row EXCEPT !["attempts"] = x]
           /\ Merge(row, [code |-> x]) = [row EXCEPT !["code"] = x]
           /\ Merge(row, [profile |-> x]) = [row EXCEPT !["profile"] = x]
           /\ Merge(row, [password |-> x]) = [row EXCEPT !["password"] = x]
<1>1. row = [c \in Columns |-> row[c]]
  BY DEF Rows, Columns
<1>2. \A d \in Columns : [row EXCEPT ![d] = x] = [c \in Columns |-> IF c = d THEN x ELSE row[c]]
  BY <1>1
<1>3. Merge(row, [status |-> x]) = [c \in Columns |-> IF c = "status" THEN x ELSE row[c]]
  BY DEF Merge, Columns
<1>4. Merge(row, [attempts |-> x]) = [c \in Columns |-> IF c = "attempts" THEN x ELSE row[c]]
  BY DEF Merge, Columns
<1>5. Merge(row, [code |-> x]) = [c \in Columns |-> IF c = "code" THEN x ELSE row[c]]
  BY DEF Merge, Columns
<1>6. Merge(row, [profile |-> x]) = [c \in Columns |-> IF c = "profile" THEN x ELSE row[c]]
  BY DEF Merge, Columns
<1>7. Merge(row, [password |-> x]) = [c \in Columns |-> IF c = "password" THEN x ELSE row[c]]
  BY DEF Merge, Columns
<1>. QED
  BY <1>2, <1>3, <1>4, <1>5, <1>6, <1>7 DEF Columns

LEMMA MergeVerified ==
    ASSUME NEW row \in Rows
    PROVE  Merge(row, [verified |-> TRUE, status |-> "active", attempts |-> 0]) =
              [row EXCEPT !["verified"] = TRUE, !["status"] = "active", !["attempts"] = 0]
<1>1. row = [c \in Columns |-> row[c]]
  BY DEF Rows, Columns
<1>2. Merge(row, [verified |-> TRUE, status |-> "active", attempts |-> 0]) =
         [c \in Columns |-> IF c = "verified" THEN TRUE ELSE IF c = "status" THEN "active"
                            ELSE IF c = "attempts" THEN 0 ELSE row[c]]
  <2>. DEFINE f == [verified |-> TRUE, status |-> "active", attempts |-> 0]
  <2>1. /\ DOMAIN f = {"verified", "status", "attempts"}
        /\ f["verified"] = TRUE /\ f["status"] = "active" /\ f["attempts"] = 0
    OBVIOUS
  <2>. HIDE DEF f
  <2>2. Merge(row, f) =
         [c \in Columns |-> IF c = "verified" THEN TRUE ELSE IF c = "status" THEN "active"
                            ELSE IF c = "attempts" THEN 0 ELSE row[c]]
    BY <2>1 DEF Merge, Columns
  <2>. QED
    BY <2>2 DEF f
<1>3. [row EXCEPT !["verified"] = TRUE, !["status"] = "active", !["attempts"] = 0] =
         [c \in Columns |-> IF c = "verified" THEN TRUE ELSE IF c = "status" THEN "active"
                            ELSE IF c = "attempts" THEN 0 ELSE row[c]]
  BY <1>1 DEF Columns
<1>. QED
  BY <1>2, <1>3

\* A COMMIT is the one step of its operation.
LEMMA CommitIsStep ==
    ASSUME SInv, SInv', NEW r \in Requests, Commit(r)
    PROVE  L!Next
<1>. DEFINE u == user[r]
            row == users[u]
            values == change[r]
<1>1. u \in Users /\ users \in [Users -> Rows \cup {None}]
  BY Committed DEF SInv, IInv, Table
<1>2. L!OwnCodes'
  <2>1. \A v, w \in Users :
           users'[v] # None /\ users'[w] # None /\ users'[v]["code"] = users'[w]["code"] => v = w
    BY DEF SInv, CodesApart
  <2>. QED
    BY <2>1 DEF L!OwnCodes, L!Registered
<1>3. CASE op[r] = "signUp"
  <2>1. /\ row = None /\ write[r] \in Fresh /\ users' = [users EXCEPT ![u] = write[r]]
        /\ wallets' = wallets \cup {u}
    BY <1>3, Committed
  <2>2. L!SignUp(u)
    BY <2>1 DEF L!SignUp, L!Registered, L!Fresh, Fresh
  <2>. QED
    BY <1>1, <1>2, <2>2 DEF L!Next, L!Step
<1>4. CASE op[r] # "signUp"
  <2>1. /\ row \in Rows /\ row # None /\ wallets' = wallets /\ Asked(op[r], row, values)
        /\ users' = [users EXCEPT ![u] = Merge(row, values)]
    BY <1>4, Committed, NoneAssumption
  <2>. HIDE DEF u, values
  <2>2. u \in L!Registered
    BY <1>1, <2>1 DEF L!Registered
  <2>3. Usable(row) => L!Usable(u)
    BY <2>1, <2>2 DEF Usable, L!Usable, Rows, Statuses
  <2>4. CASE op[r] = "failure"
    <3>1. L!WrongPassword(u)
      <4>1. CASE row.attempts >= Allowed
        <5>1. users' = [users EXCEPT ![u].status = "locked"]
          <6>1. values = [status |-> "locked"]
            BY <1>1, <2>1, <2>4, <4>1 DEF Asked
          <6>2. Merge(row, values) = [row EXCEPT !["status"] = "locked"]
            BY <2>1, <6>1, MergeOne
          <6>. QED
            BY <1>1, <2>1, <6>2
        <5>2. ~(row.attempts < Allowed)
          BY <2>1, <4>1, AllowedAssumption DEF Rows
        <5>. QED
          BY <2>1, <2>2, <2>4, <5>1, <5>2 DEF Asked, L!WrongPassword
      <4>2. CASE ~(row.attempts >= Allowed)
        <5>1. users' = [users EXCEPT ![u].attempts = @ + 1]
          <6>1. values = [attempts |-> row.attempts + 1]
            BY <1>1, <2>1, <2>4, <4>2 DEF Asked
          <6>2. Merge(row, values) = [row EXCEPT !["attempts"] = row.attempts + 1]
            BY <2>1, <6>1, MergeOne
          <6>. QED
            BY <1>1, <2>1, <6>2
        <5>2. row.attempts < Allowed
          BY <2>1, <4>2, AllowedAssumption DEF Rows
        <5>. QED
          BY <2>1, <2>2, <2>4, <5>1, <5>2 DEF Asked, L!WrongPassword
      <4>. QED
        BY <4>1, <4>2
    <3>. QED
      BY <1>1, <1>2, <3>1 DEF L!Next, L!Step
  <2>5. CASE op[r] = "signIn"
    <3>1. users' = [users EXCEPT ![u].attempts = 0]
      <4>1. values = [attempts |-> 0]
        BY <1>1, <2>1, <2>5 DEF Asked
      <4>2. Merge(row, values) = [row EXCEPT !["attempts"] = 0]
        BY <2>1, <4>1, MergeOne
      <4>. QED
        BY <1>1, <2>1, <4>2
    <3>2. L!SignIn(u)
      BY <2>1, <2>3, <2>5, <3>1 DEF Asked, L!SignIn
    <3>. QED
      BY <1>1, <1>2, <3>2 DEF L!Next, L!Step
  <2>6. CASE op[r] = "resend"
    <3>1. PICK c \in Codes : values = [code |-> c]
      BY <2>1, <2>6 DEF Asked
    <3>2. users' = [users EXCEPT ![u].code = c]
      <4>1. Merge(row, values) = [row EXCEPT !["code"] = c]
        BY <1>1, <2>1, <3>1, MergeOne
      <4>. QED
        BY <1>1, <2>1, <4>1
    <3>3. L!ResendCode(u)
      BY <2>1, <2>2, <2>6, <3>2 DEF Asked, L!ResendCode
    <3>. QED
      BY <1>1, <1>2, <3>3 DEF L!Next, L!Step
  <2>7. CASE op[r] = "verify"
    <3>1. users' = [users EXCEPT ![u].verified = TRUE, ![u].status = "active", ![u].attempts = 0]
      BY <1>1, <2>1, <2>7, MergeVerified DEF Asked
    <3>2. L!Verify(u)
      BY <2>1, <2>2, <2>7, <3>1 DEF Asked, L!Verify
    <3>. QED
      BY <1>1, <1>2, <3>2 DEF L!Next, L!Step
  <2>8. CASE op[r] = "profile"
    <3>1. PICK p \in Profiles : values = [profile |-> p]
      BY <2>1, <2>8 DEF Asked
    <3>2. users' = [users EXCEPT ![u].profile = p]
      <4>1. Merge(row, values) = [row EXCEPT !["profile"] = p]
        BY <1>1, <2>1, <3>1, MergeOne
      <4>. QED
        BY <1>1, <2>1, <4>1
    <3>3. L!UpdateProfile(u)
      BY <2>1, <2>3, <2>8, <3>2 DEF Asked, L!UpdateProfile
    <3>. QED
      BY <1>1, <1>2, <3>3 DEF L!Next, L!Step
  <2>9. CASE op[r] = "password"
    <3>1. PICK w \in Passwords : values = [password |-> w]
      BY <2>1, <2>9 DEF Asked
    <3>2. users' = [users EXCEPT ![u].password = w]
      <4>1. Merge(row, values) = [row EXCEPT !["password"] = w]
        BY <1>1, <2>1, <3>1, MergeOne
      <4>. QED
        BY <1>1, <2>1, <4>1
    <3>3. L!ChangePassword(u)
      BY <2>1, <2>3, <2>9, <3>2 DEF Asked, L!ChangePassword
    <3>. QED
      BY <1>1, <1>2, <3>3 DEF L!Next, L!Step
  <2>10. CASE op[r] = "delete"
    <3>1. users' = [users EXCEPT ![u].status = "deleted"]
      <4>1. values = [status |-> "deleted"]
        BY <1>1, <2>1, <2>10 DEF Asked
      <4>2. Merge(row, values) = [row EXCEPT !["status"] = "deleted"]
        BY <2>1, <4>1, MergeOne
      <4>. QED
        BY <1>1, <2>1, <4>2
    <3>2. L!Delete(u)
      BY <2>1, <2>3, <2>10, <3>1 DEF Asked, L!Delete
    <3>. QED
      BY <1>1, <1>2, <3>2 DEF L!Next, L!Step
  <2>. QED
    BY <2>1, <2>4, <2>5, <2>6, <2>7, <2>8, <2>9, <2>10 DEF Asked
<1>. QED
  BY <1>3, <1>4

LEMMA StepsMap ==
    ASSUME SInv, SInv', [Next]_vars
    PROVE  [L!Next]_<<users, wallets>>
<1>1. CASE UNCHANGED vars
  BY <1>1 DEF vars, table
<1>2. ASSUME NEW r \in Requests, Submit(r)
      PROVE  UNCHANGED table
  BY <1>2 DEF Submit, SignUp, SignIn, ResendOtp, VerifyEmail, UpdateProfile, ChangePassword,
              DeleteAccount, Begin
<1>3. ASSUME NEW r \in Requests, Progress(r)
      PROVE  Commit(r) \/ UNCHANGED table
  BY <1>3 DEF Progress, NewUser, WrongPassword, RightPassword, NewCode, CodeFound, Refuse, Reread,
              Select, Update, Insert, DuplicateKey, Publish, Proceed
<1>4. ASSUME NEW r \in Requests, Fails(r)
      PROVE  UNCHANGED table
  BY <1>4 DEF Fails
<1>5. ASSUME NEW r \in Requests, Commit(r)
      PROVE  L!Next
  BY <1>5, CommitIsStep
<1>. QED
  BY <1>1, <1>2, <1>3, <1>4, <1>5 DEF Next, Finished, vars, table

\* When the requests of each user are served one at a time, each of them is one step of
\* the account or none, through its reads on other connections, the whole entity it
\* saves and the failures in between.
THEOREM ImplementsLifecycle ==
    ASSUME MaxPerUser = 1
    PROVE  Safety => StepsOfTheLifecycle
<1>1. Init => L!Init
  <2>. SUFFICES ASSUME Init PROVE L!Init
    OBVIOUS
  <2>1. users \in [Users -> L!Fresh \cup {None}]
    BY DEF Init, L!Fresh, Fresh
  <2>2. L!OwnCodes
    BY DEF Init, L!OwnCodes, L!Registered
  <2>. QED
    BY <2>1, <2>2 DEF Init, L!Init, L!Registered
<1>2. SInv /\ SInv' /\ [Next]_vars => [L!Next]_<<users, wallets>>
  BY StepsMap
<1>. QED
  BY <1>1, <1>2, SerialInvariance, PTL DEF Safety, StepsOfTheLifecycle, L!Spec

\* No operation brings an account back that is verified, and locked or deleted.
LEMMA BlockedForGood ==
    ASSUME SInv, [L!Next]_<<users, wallets>>, NEW u \in Users, users[u] # None,
           users[u].verified, users[u].status \in {"locked", "deleted"}
    PROVE  users'[u].verified /\ users'[u].status \in {"locked", "deleted"}
<1>1. users \in [Users -> Rows \cup {None}] /\ users[u] \in Rows
  BY DEF SInv, IInv, Table
<1>2. CASE UNCHANGED <<users, wallets>>
  BY <1>2
<1>3. CASE L!Next
  <2>1. PICK v \in Users : L!Step(v)
    BY <1>3 DEF L!Next
  <2>2. CASE v # u
    <3>1. users'[u] = users[u]
      BY <1>1, <2>1, <2>2 DEF L!Step, L!SignUp, L!WrongPassword, L!SignIn, L!ResendCode, L!Verify,
                              L!UpdateProfile, L!ChangePassword, L!Delete
    <3>. QED
      BY <3>1
  <2>3. CASE v = u
    <3>1. ~L!Usable(u) /\ u \in L!Registered
      BY <1>1 DEF L!Usable, L!Registered
    <3>2. L!WrongPassword(u)
      BY <2>1, <2>3, <3>1 DEF L!Step, L!SignUp, L!SignIn, L!ResendCode, L!Verify,
                              L!UpdateProfile, L!ChangePassword, L!Delete
    <3>3. users'[u] \in {[users[u] EXCEPT !["attempts"] = @ + 1], [users[u] EXCEPT !["status"] = "locked"]}
      BY <1>1, <3>2 DEF L!WrongPassword
    <3>. QED
      BY <1>1, <3>3 DEF Rows
  <2>. QED
    BY <2>2, <2>3
<1>. QED
  BY <1>2, <1>3

\* A verified account that was deleted or locked does not come back, for any users and
\* requests of which no two of one user overlap.
THEOREM BlockedStay ==
    ASSUME MaxPerUser = 1
    PROVE  Safety => StaysBlocked
<1>1. SInv /\ SInv' /\ [Next]_vars =>
         [\A u \in Users :
             users[u] # None /\ users[u].verified /\ users[u].status \in {"locked", "deleted"}
                => users'[u].verified /\ users'[u].status \in {"locked", "deleted"}]_vars
  BY StepsMap, BlockedForGood
<1>. QED
  BY <1>1, SerialInvariance, PTL DEF Safety, StaysBlocked

=============================================================================
