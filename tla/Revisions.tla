----------------------------- MODULE Revisions ------------------------------
(***************************************************************************)
(* The revisions of src/migrations/versions, each with its upgrade and its *)
(* downgrade, in the order their down_revision chains them, and the tables *)
(* app/models declares.                                                    *)
(***************************************************************************)
EXTENDS Schema

Id == Required("uuid", {"id"})
Created == Required("time", {"created_at"})

Users ==
    CreateTable("users", "id",
        Id @@ Required("str15", {"name"}) @@ Required("str30", {"email"})
           @@ Required("string", {"hashed_password"}) @@ Created
           @@ Nullable("time", {"updated_at"}),
        {{"email"}})
Up_299b97ac3d78 == << Users >>
Down_299b97ac3d78 == << DropTable("users") >>

Up_b2654272dfbc == <<
    AddColumn("users", "login", "str30"),
    DropUnique("users", {"email"}),
    AddUnique("users", {"login"}),
    DropColumn("users", "name"),
    DropColumn("users", "email") >>
Down_b2654272dfbc == <<
    AddColumn("users", "email", "str30"),
    AddColumn("users", "name", "str15"),
    DropUnnamed("users"),
    AddUnique("users", {"email"}),
    DropColumn("users", "login") >>

(* Fault: the table is made anew instead of altered. *)
Up_8ecaTableAnew == <<
    DropTable("users"),
    CreateTable("users", "id",
        Id @@ Required("str30", {"login"}) @@ Required("string", {"hashed_password"})
           @@ Required("str20", {"role"}) @@ Created @@ Nullable("time", {"updated_at"}),
        {{"login"}}) >>
Up_8ecae98b85c1 == << AddColumnDefault("users", "role", "str20") >>
Down_8ecae98b85c1 == << DropColumn("users", "role") >>

RefreshTokens ==
    CreateTable("refresh_tokens", "token",
        Required("string", {"token"}) @@ ForeignKey("users", "user_id") @@ Created
           @@ Required("time", {"expires_at"}),
        {{"token"}})
Up_051d81a4b93c == << RefreshTokens >>
Down_051d81a4b93c == << DropTable("refresh_tokens") >>

(* The tables of the next revisions, some of them created by several. *)
Batches(more) ==
    CreateTable("batches", "id",
        Id @@ Required("time", {"upload_at"}) @@ Required("int", {"total_count"})
           @@ Required("str20", {"status"}) @@ more,
        {})
Categories ==
    CreateTable("categories", "id",
        Id @@ ForeignKey("users", "user_id") @@ Required("str30", {"name"})
           @@ Nullable("string", {"description"}) @@ Created @@ Required("bool", {"is_active"}),
        {{"user_id", "name"}})
Expenses ==
    CreateTable("expenses", "id",
        Id @@ ForeignKey("batches", "batch_id") @@ Required("time", {"date"})
           @@ Required("money", {"amount"}) @@ Required("str50", {"description"})
           @@ Nullable("str50", {"merchant"}) @@ NullableKey("categories", "category_id")
           @@ Required("str20", {"status"}) @@ Required("str64", {"dedup_hash"}) @@ Created,
        {{"dedup_hash"}})
Accounts ==
    CreateTable("accounts", "id",
        Id @@ ForeignKey("users", "user_id") @@ Required("str30", {"name"})
           @@ Required("str20", {"account_type"}) @@ Required("text", {"match_keywords"})
           @@ Required("money", {"initial_balance", "current_balance"}) @@ Created
           @@ Nullable("time", {"balance_updated_at"})
           @@ Required("bool", {"is_balance_tracked", "is_categorizable", "is_active"}),
        {{"user_id", "name"}})
Transactions ==
    CreateTable("transactions", "id",
        Id @@ ForeignKey("batches", "batch_id") @@ NullableKey("accounts", "account_id")
           @@ Required("time", {"date"}) @@ Required("money", {"amount"})
           @@ Required("str50", {"description"}) @@ Nullable("str50", {"merchant"})
           @@ NullableKey("categories", "category_id")
           @@ Required("str20", {"status", "transaction_type"})
           @@ Required("str64", {"dedup_hash"}) @@ Created
           @@ Required("bool", {"is_categorizable"}),
        {{"dedup_hash"}})
Snapshots ==
    CreateTable("balance_snapshots", "id",
        Id @@ ForeignKey("accounts", "account_id") @@ ForeignKey("batches", "batch_id")
           @@ Required("money", {"balance"}) @@ Required("time", {"snapshot_at"}),
        {})
Interests ==
    CreateTable("account_interests", "id",
        Id @@ ForeignKey("accounts", "account_id") @@ Required("int", {"year", "month"})
           @@ Required("money", {"amount"}),
        {{"account_id", "year", "month"}})
Keywords ==
    CreateTable("account_keywords", "id",
        Id @@ ForeignKey("accounts", "account_id") @@ Required("str100", {"keyword"}),
        {{"account_id", "keyword"}})

Up_9d5e9eeaab7c == <<
    Batches(<<>>), Categories, Expenses,
    AddUnique("refresh_tokens", {"token"}) >>
Down_9d5e9eeaab7c == <<
    DropUnnamed("refresh_tokens"),
    DropTable("expenses"), DropTable("categories"), DropTable("batches") >>

Up_5ecce3539d66 == <<
    Accounts, Interests, Snapshots, Transactions,
    DropTable("expenses"),
    AddColumn("batches", "account_id", "uuid"),
    AddForeignKey("batches", "account_id", "accounts") >>
Down_5ecce3539d66 == <<
    DropUnnamed("batches"),
    DropColumn("batches", "account_id"),
    Expenses,
    DropTable("transactions"), DropTable("balance_snapshots"),
    DropTable("account_interests"), DropTable("accounts") >>

Up_867459fabb58 == <<
    AddColumn("accounts", "match_keyword", "str100"),
    DropColumn("accounts", "match_keywords") >>
Down_867459fabb58 == <<
    AddColumn("accounts", "match_keywords", "text"),
    DropColumn("accounts", "match_keyword") >>

Up_a097e92edde4 == << AddColumn("transactions", "raw_type", "str30") >>
Down_a097e92edde4 == << DropColumn("transactions", "raw_type") >>

Up_3b9fb9f704a4 == << Keywords, DropColumn("accounts", "match_keyword") >>
Down_3b9fb9f704a4 == <<
    AddColumn("accounts", "match_keyword", "str100"),
    DropTable("account_keywords") >>

Up_356d11c8efb4 == <<
    DropForeignKey("transactions", "batch_id"),
    DropColumn("transactions", "batch_id"),
    DropTable("balance_snapshots"), DropTable("batches"),
    DropTable("account_keywords"), DropTable("account_interests"),
    AddColumn("accounts", "institution_acc_name", "str100"),
    AddColumn("accounts", "institution", "str20"),
    DropColumn("accounts", "balance_updated_at"),
    DropColumn("accounts", "initial_balance"),
    DropColumn("accounts", "is_categorizable"),
    DropColumn("accounts", "account_type"),
    DropColumn("accounts", "current_balance"),
    DropColumn("accounts", "is_balance_tracked"),
    AddColumn("transactions", "start_date", "time"),
    AddColumn("transactions", "completed_date", "time"),
    AlterColumn("transactions", "account_id", "accounts", FALSE),
    AlterColumn("transactions", "merchant", "str50", FALSE),
    DropColumn("transactions", "description"),
    DropColumn("transactions", "date"),
    DropColumn("transactions", "raw_type"),
    DropColumn("transactions", "is_categorizable") >>
DownColumns_356d11c8efb4 == <<
    AddColumn("transactions", "batch_id", "uuid"),
    AddColumn("transactions", "is_categorizable", "bool"),
    AddColumn("transactions", "raw_type", "str30"),
    AddColumn("transactions", "date", "time"),
    AddColumn("transactions", "description", "str50"),
    AddForeignKey("transactions", "batch_id", "batches"),
    AlterColumn("transactions", "merchant", "str50", TRUE),
    AlterColumn("transactions", "account_id", "accounts", TRUE),
    DropColumn("transactions", "completed_date"),
    DropColumn("transactions", "start_date"),
    AddColumn("accounts", "is_balance_tracked", "bool"),
    AddColumn("accounts", "current_balance", "money"),
    AddColumn("accounts", "account_type", "str20"),
    AddColumn("accounts", "is_categorizable", "bool"),
    AddColumn("accounts", "initial_balance", "money"),
    AddNullable("accounts", "balance_updated_at", "time"),
    DropColumn("accounts", "institution"),
    DropColumn("accounts", "institution_acc_name") >>
DownTables_356d11c8efb4 == <<
    Snapshots, Interests, Keywords, Batches(ForeignKey("accounts", "account_id")) >>

(* Fault: the merchant is widened less than the model says. *)
Up_f628Narrower == << AlterColumn("transactions", "merchant", "str100", FALSE) >>
Up_f628b664017d == << AlterColumn("transactions", "merchant", "str150", FALSE) >>
Down_f628b664017d == << AlterColumn("transactions", "merchant", "str50", FALSE) >>

Up_45cd9dd90817 == << AddColumnDefault("transactions", "fee", "money") >>
Down_45cd9dd90817 == << DropColumn("transactions", "fee") >>

Up_64e8f390a112 == << AddColumn("transactions", "raw_data", "json") >>
Down_64e8f390a112 == << DropColumn("transactions", "raw_data") >>

NaturalKey == {"account_id", "start_date", "merchant", "amount", "fee", "occurrence"}
Up_bcca1c55be76 == <<
    AddColumn("transactions", "occurrence", "int"),
    DropUnique("transactions", {"dedup_hash"}),
    AddUnique("transactions", NaturalKey),
    DropColumn("transactions", "dedup_hash") >>
Down_bcca1c55be76 == <<
    AddColumn("transactions", "dedup_hash", "str64"),
    DropUnnamed("transactions"),
    AddUnique("transactions", {"dedup_hash"}),
    DropColumn("transactions", "occurrence") >>

Up_34f1173cb0c8 == <<
    AlterColumn("transactions", "start_date", "localtime", FALSE),
    AlterColumn("transactions", "completed_date", "localtime", FALSE) >>
Down_34f1173cb0c8 == <<
    AlterColumn("transactions", "completed_date", "time", FALSE),
    AlterColumn("transactions", "start_date", "time", FALSE) >>
-----------------------------------------------------------------------------
(* The chain of revisions: version v is the schema the first v of them make. *)
Upgrades == << Up_299b97ac3d78, Up_b2654272dfbc, Up_8ecae98b85c1, Up_051d81a4b93c,
    Up_9d5e9eeaab7c, Up_5ecce3539d66, Up_867459fabb58, Up_a097e92edde4, Up_3b9fb9f704a4,
    Up_356d11c8efb4, Up_f628b664017d, Up_45cd9dd90817, Up_64e8f390a112, Up_bcca1c55be76,
    Up_34f1173cb0c8 >>
Downgrades == << Down_299b97ac3d78, Down_b2654272dfbc, Down_8ecae98b85c1,
    Down_051d81a4b93c, Down_9d5e9eeaab7c, Down_5ecce3539d66, Down_867459fabb58,
    Down_a097e92edde4, Down_3b9fb9f704a4,
    DownColumns_356d11c8efb4 \o DownTables_356d11c8efb4, Down_f628b664017d,
    Down_45cd9dd90817, Down_64e8f390a112, Down_bcca1c55be76, Down_34f1173cb0c8 >>
Latest == Len(Upgrades)
Versions == 0..Latest

(* An empty database, and its schema at each version. *)
EmptyDatabase == [tables |-> Empty, filled |-> {}, odd |-> {}]
SchemaAt == [v \in Versions |-> Result(EmptyDatabase, FlattenSeq(SubSeq(Upgrades, 1, v))).db.tables]

(* The tables of app/models. *)
User == [key |-> "id", uniques |-> {{"login"}},
    columns |-> Id @@ Required("str30", {"login"}) @@ Required("string", {"hashed_password"})
        @@ Required("str20", {"role"}) @@ Created @@ Nullable("time", {"updated_at"})]
RefreshToken == [key |-> "token", uniques |-> {{"token"}},
    columns |-> Required("string", {"token"}) @@ ForeignKey("users", "user_id") @@ Created
        @@ Required("time", {"expires_at"})]
Account == [key |-> "id", uniques |-> {{"user_id", "name"}},
    columns |-> Id @@ ForeignKey("users", "user_id") @@ Required("str30", {"name"})
        @@ Required("str100", {"institution_acc_name"}) @@ Required("str20", {"institution"})
        @@ Created @@ Required("bool", {"is_active"})]
Category == [key |-> "id", uniques |-> {{"user_id", "name"}},
    columns |-> Id @@ ForeignKey("users", "user_id") @@ Required("str30", {"name"})
        @@ Nullable("string", {"description"}) @@ Created @@ Required("bool", {"is_active"})]
Transaction == [key |-> "id", uniques |-> {NaturalKey},
    columns |-> Id @@ ForeignKey("accounts", "account_id") @@ Required("int", {"occurrence"})
        @@ Required("localtime", {"start_date", "completed_date"})
        @@ Required("money", {"amount", "fee"}) @@ Required("str150", {"merchant"})
        @@ Required("str20", {"transaction_type", "status"})
        @@ NullableKey("categories", "category_id") @@ Created @@ Required("json", {"raw_data"})]
ModelTables == [t \in Tables |->
    CASE t = "users" -> User [] t = "refresh_tokens" -> RefreshToken
      [] t = "accounts" -> Account [] t = "categories" -> Category
      [] t = "transactions" -> Transaction [] OTHER -> Absent]
=============================================================================
