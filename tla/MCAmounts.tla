----------------------------- MODULE MCAmounts -----------------------------
EXTENDS Amounts

MCInvoiceItems ==
    [quantity : {-150, -50, 50, 100}, price : {1, 33, 99, 200},
     rate : {0, 6, 12, 25}]
=============================================================================
