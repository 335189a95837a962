------------------------------- MODULE MCMigration -----------------------------
(* Instances of Migration for TLC: config.json and policies/, schema 2.    *)
EXTENDS Migration
================================================================================
