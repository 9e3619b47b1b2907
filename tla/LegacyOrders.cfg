\* Two invocations, four events of Stripe in any order, one fault.
SPECIFICATION FairSpec
CONSTANTS
  w1 = w1
  w2 = w2
  inv = inv
  NoInvoice = NoInvoice
  refused = refused
  ended = ended
  paid = paid
  resumed = resumed
  Workers = {w1, w2}
  Events = {refused, ended, paid, resumed}
  Invoices = {inv}
  Recurring = {inv}
  InvoiceOf <- OneInvoice
  SaysOf <- WhatEventsSay
  CreatedAt <- WhenCreated
  Orders = {inv}
  GatewayStatus = "active"
  AppReturnsNumber = TRUE
  MaxFaults = 1
INVARIANTS TypeOK OneFulfiller
PROPERTIES NeverBack ImplementsFulfilment EveryPaidInvoiceFulfilled
CHECK_DEADLOCK FALSE
